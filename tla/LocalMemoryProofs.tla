------------------------- MODULE LocalMemoryProofs -------------------------
(***************************************************************************)
(* What cascades keep in local memory, and what the generator knows of it. *)
(*                                                                         *)
(* Whatever the cascade and the stripe heights, the walk over its stripes  *)
(* finds in the rolling buffers every row a stripe reads, and comes to an  *)
(* end with every row of the last operation made.  In a memory where the   *)
(* reserved sizes fit, every operation finds room for its workspace.       *)
(*                                                                         *)
(* The spans of CommandMemoryState say what the words hold, and the        *)
(* queries, which look at one span after the other, answer as the words    *)
(* do.                                                                     *)
(***************************************************************************)
EXTENDS CascadeWorkspaces, MemoryState, FiniteSetLemmas

-----------------------------------------------------------------------------
(* Division and remainder by a number that is not known.                   *)

\* The quotient is the whole number below the fraction.
LEMMA QuotientBounds ==
    ASSUME NEW a \in Nat, NEW d \in Nat \ {0}
    PROVE  /\ a \div d \in Nat /\ a % d \in 0..(d - 1)
           /\ a = (a \div d) * d + (a % d)
<1>1. a \div d \in Int /\ a % d \in 0..(d - 1) /\ a = d * (a \div d) + (a % d)
    OBVIOUS
<1>2. a \div d >= 0
    BY <1>1
<1> QED BY <1>1, <1>2

\* Products order as their factors do.
LEMMA ProductsOrder ==
    ASSUME NEW a \in Nat, NEW b \in Nat, NEW d \in Nat, a <= b
    PROVE  a * d \in Nat /\ b * d \in Nat /\ a * d <= b * d
OBVIOUS

LEMMA NextProduct ==
    ASSUME NEW n \in Nat, NEW d \in Nat
    PROVE  n * d \in Nat /\ (n + 1) * d = n * d + d
OBVIOUS

\* The stripes of d rows cover n rows, and one less does not.
LEMMA StripesCover ==
    ASSUME NEW n \in Nat, NEW d \in Nat \ {0}
    PROVE  /\ CeilDiv(n, d) \in Nat
           /\ n <= CeilDiv(n, d) * d
           /\ \A m \in Nat : m < CeilDiv(n, d) => m * d < n
<1>1. PICK a : a \in Nat /\ a = n + d - 1
    OBVIOUS
<1>2. PICK q, r : q = a \div d /\ r = a % d
    OBVIOUS
<1>3. /\ q = CeilDiv(n, d) /\ q \in Nat /\ r \in 0..(d - 1) /\ a = q * d + r
    BY <1>1, <1>2, QuotientBounds DEF CeilDiv
<1>4. n <= q * d
    BY <1>1, <1>3
<1>5. ASSUME NEW m \in Nat, m < q PROVE m * d < n
    <2>1. m * d + d <= q * d
        BY <1>3, <1>5, m + 1 <= q, ProductsOrder, NextProduct
    <2> QED BY <1>1, <1>3, <2>1
<1> QED BY <1>3, <1>4, <1>5

\* Two rows in one slot are the height of the buffer apart.
LEMMA SlotsRepeat ==
    ASSUME NEW b \in Nat \ {0}, NEW x \in Nat, NEW y \in Nat, x < y, x % b = y % b
    PROVE  x + b <= y
<1>1. PICK p, q, r : p = x \div b /\ q = y \div b /\ r = x % b
    OBVIOUS
<1>2. p \in Nat /\ q \in Nat /\ r \in 0..(b - 1) /\ x = p * b + r /\ y = q * b + r
    <2>1. p \in Nat /\ r \in 0..(b - 1) /\ x = p * b + r
        BY <1>1, QuotientBounds
    <2>2. q \in Nat /\ y % b \in 0..(b - 1) /\ y = q * b + (y % b)
        BY <1>1, QuotientBounds
    <2> QED BY <1>1, <2>1, <2>2
<1>3. p < q
    <2> SUFFICES ASSUME q <= p PROVE FALSE
        BY <1>2
    <2> QED BY <1>2, ProductsOrder
<1>4. p * b + b <= q * b
    BY <1>2, <1>3, p + 1 <= q, ProductsOrder, NextProduct
<1> QED BY <1>2, <1>4

-----------------------------------------------------------------------------
(* The stripe heights.                                                     *)

IsWalk(c, h) == IsCascade(c) /\ h \in [Ops(c) -> Nat \ {0}]

\* The heights that stripes of the last operation ask of those before it.
Asked(c, last, j, f) ==
    /\ DOMAIN f = j..Len(c.ops)
    /\ \A i \in j..Len(c.ops) :
          /\ f[i] \in Nat \ {0}
          /\ f[i] = IF i = Len(c.ops) THEN last ELSE f[i + 1] * c.ops[i + 1].stride

\* They exist, back to the first operation.
LEMMA HeightsExist ==
    ASSUME NEW c, IsCascade(c), NEW last \in Nat \ {0}
    PROVE  \E f : Asked(c, last, 1, f)
<1>1. PICK n : n = Len(c.ops) /\ n \in Nat \ {0}
    BY DEF IsCascade
<1> DEFINE T == {j \in 1..n : \E f : Asked(c, last, j, f)}
<1>2. n \in T
    <2>1. Asked(c, last, n, [i \in n..n |-> last])
        BY <1>1 DEF Asked
    <2> QED BY <1>1, <2>1
<1>3. PICK j \in T : \A k \in T : j <= k
    <2>1. T \in SUBSET Nat /\ T # {}
        BY <1>1, <1>2
    <2> HIDE DEF T
    <2> QED BY <2>1, LeastElement
<1>4. j = 1
    <2> SUFFICES ASSUME j # 1 PROVE FALSE
        OBVIOUS
    <2>1. PICK f : Asked(c, last, j, f)
        OBVIOUS
    <2>2. j \in 2..n /\ c.ops[j].stride \in Nat \ {0} /\ f[j] \in Nat \ {0}
        BY <1>1, <2>1 DEF IsCascade, Asked
    <2>3. f[j] * c.ops[j].stride \in Nat \ {0}
        BY <2>2
    <2> DEFINE g == [i \in (j - 1)..n |-> IF i = j - 1 THEN f[j] * c.ops[j].stride ELSE f[i]]
    <2>4. Asked(c, last, j - 1, g)
        BY <1>1, <2>1, <2>2, <2>3 DEF Asked
    <2>5. j - 1 \in T
        <3>1. \E k : Asked(c, last, j - 1, k)
            BY <2>4
        <3> QED BY <1>1, <2>2, <3>1
    <2> QED BY <1>3, <2>2, <2>5
<1> QED BY <1>3, <1>4

\* The schedule that the last operation's stripes ask for has stripes of at
\* least one row (ProposeScheduleStriping).
LEMMA ProposedHeights ==
    ASSUME NEW c, IsCascade(c), NEW last \in Nat \ {0}
    PROVE  Proposed(c, last) \in [Ops(c) -> Nat \ {0}]
<1>1. PICK n : n = Len(c.ops) /\ n \in Nat \ {0}
    BY DEF IsCascade
<1> DEFINE Defines(f) ==
        f = [i \in Ops(c) |-> IF i = Len(c.ops) THEN last ELSE f[i + 1] * c.ops[i + 1].stride]
<1>2. \E f : Defines(f)
    <2>1. PICK f : Asked(c, last, 1, f)
        BY HeightsExist
    <2> DEFINE g == [i \in Ops(c) |-> f[i]]
    <2>2. Defines(g)
        BY <1>1, <2>1 DEF Asked, Ops
    <2> QED BY <2>2
<1>3. PICK f : f = (CHOOSE g : Defines(g)) /\ Defines(f)
    BY <1>2
<1>4. Proposed(c, last) = [i \in Ops(c) |-> f[i]]
    BY <1>3 DEF Proposed
<1> DEFINE T == {i \in Ops(c) : f[i] \notin Nat \ {0}}
<1>5. T = {}
    <2> SUFFICES ASSUME T # {} PROVE FALSE
        OBVIOUS
    <2>1. PICK j \in T : \A k \in T : k <= j
        <3>1. T \in SUBSET (0..n)
            BY <1>1 DEF Ops
        <3> HIDE DEF T
        <3> QED BY <1>1, <3>1, GreatestElement
    <2>2. CASE j = n
        BY <1>1, <1>3, <2>2
    <2>3. CASE j # n
        <3>1. j + 1 \in Ops(c) /\ j + 1 \notin T /\ j \in Ops(c)
            BY <1>1, <2>1, <2>3 DEF Ops
        <3>2. f[j + 1] \in Nat \ {0} /\ c.ops[j + 1].stride \in Nat \ {0}
            BY <3>1 DEF Ops, IsCascade
        <3>3. f[j] = f[j + 1] * c.ops[j + 1].stride
            BY <1>1, <1>3, <2>3, <3>1
        <3> QED BY <3>2, <3>3
    <2> QED BY <2>2, <2>3
<1> QED BY <1>4, <1>5

\* So has every schedule proposed.
LEMMA HeightsArePositive ==
    ASSUME NEW c, IsCascade(c), NEW h \in StripeHeights(c)
    PROVE  IsWalk(c, h)
<1>1. Len(c.ops) \in Nat \ {0} /\ OfmH(c, Len(c.ops)) \in Nat \ {0}
    BY DEF IsCascade, OfmH
<1>2. CASE \E s \in {1, 2} : h = Minimal(c, s)
    BY <1>1, <1>2 DEF Minimal, IsWalk, IsCascade, Ops
<1>3. CASE \E last \in 2..((OfmH(c, Len(c.ops)) + 1) \div 2) : h = Proposed(c, last)
    <2>1. PICK last \in Nat \ {0} : h = Proposed(c, last)
        BY <1>1, <1>3
    <2> QED BY <2>1, ProposedHeights DEF IsWalk
<1> QED BY <1>2, <1>3 DEF StripeHeights

-----------------------------------------------------------------------------
(* The rows of a stripe and those it reads.                                *)

LEMMA OperationTyped ==
    ASSUME NEW c, NEW h, IsWalk(c, h), NEW i \in Ops(c)
    PROVE  /\ OfmH(c, i) \in Nat \ {0} /\ IfmH(c, i) \in Nat \ {0} /\ h[i] \in Nat \ {0}
           /\ c.ops[i].stride \in Nat \ {0} /\ c.ops[i].kernel \in Nat \ {0} /\ c.ops[i].top \in Nat
BY DEF IsWalk, IsCascade, Ops, OfmH, IfmH

\* The stripes follow one another and the last one ends with the tensor.
LEMMA StripeRows ==
    ASSUME NEW c, NEW h, IsWalk(c, h), NEW i \in Ops(c), NEW n \in Nat
    PROVE  /\ Stripes(c, h, i) \in Nat \ {0}
           /\ OfmStart(h, i, n) \in Nat /\ OfmEnd(c, h, i, n) \in Nat \ {0}
           /\ OfmEnd(c, h, i, n) <= OfmH(c, i)
           /\ OfmEnd(c, h, i, n) <= OfmStart(h, i, n) + h[i]
           /\ OfmStart(h, i, n + 1) = OfmStart(h, i, n) + h[i]
           /\ n < Stripes(c, h, i) => OfmStart(h, i, n) < OfmEnd(c, h, i, n)
           /\ n + 1 < Stripes(c, h, i) => OfmEnd(c, h, i, n) = OfmStart(h, i, n + 1)
           /\ n + 1 = Stripes(c, h, i) => OfmEnd(c, h, i, n) = OfmH(c, i)
<1>1. PICK m, d : m = OfmH(c, i) /\ d = h[i] /\ m \in Nat \ {0} /\ d \in Nat \ {0}
    BY OperationTyped
<1>2. PICK a, b : a = n * d /\ b = (n + 1) * d
    OBVIOUS
<1>3. a \in Nat /\ b = a + d
    BY <1>1, <1>2, NextProduct
<1>4. /\ OfmStart(h, i, n) = a /\ OfmStart(h, i, n + 1) = b
      /\ OfmEnd(c, h, i, n) = IF b < m THEN b ELSE m
    BY <1>1, <1>2 DEF OfmStart, OfmEnd, AtMost
<1>5. PICK q : q = Stripes(c, h, i) /\ q = CeilDiv(m, d)
    BY <1>1 DEF Stripes
<1>6. q \in Nat /\ m <= q * d /\ \A k \in Nat : k < q => k * d < m
    BY <1>1, <1>5, StripesCover
<1>7. q # 0
    BY <1>1, <1>6
<1>8. /\ n < q => a < m
      /\ n + 1 < q => b < m
      /\ n + 1 = q => m <= b
    BY <1>2, <1>6
<1> HIDE DEF OfmStart, OfmEnd, Stripes
<1> QED BY <1>1, <1>3, <1>4, <1>5, <1>6, <1>7, <1>8

\* The rows that n stripes make.
Made(c, h, i, n) == IF n = 0 THEN 0 ELSE OfmEnd(c, h, i, n - 1)

LEMMA RowsMade ==
    ASSUME NEW c, NEW h, IsWalk(c, h), NEW i \in Ops(c), NEW n \in 0..Stripes(c, h, i)
    PROVE  /\ Made(c, h, i, n) \in Nat
           /\ n < Stripes(c, h, i) => Made(c, h, i, n) = OfmStart(h, i, n)
           /\ n = Stripes(c, h, i) => Made(c, h, i, n) = OfmH(c, i)
<1>1. CASE n = 0
    <2>1. OfmStart(h, i, 0) = 0
        BY OperationTyped DEF OfmStart
    <2>2. Stripes(c, h, i) \in Nat \ {0}
        BY StripeRows, 0 \in Nat
    <2> QED BY <1>1, <2>1, <2>2 DEF Made
<1>2. CASE n # 0
    <2>1. Stripes(c, h, i) \in Nat
        BY StripeRows, 0 \in Nat
    <2>2. PICK m \in Nat : n = m + 1
        BY <1>2, <2>1, n - 1 \in Nat
    <2>3. Made(c, h, i, n) = OfmEnd(c, h, i, m)
        BY <2>2 DEF Made
    <2> QED BY <2>1, <2>2, <2>3, StripeRows
<1> QED BY <1>1, <1>2

\* A stripe reads no more rows than StripeInput says, and later stripes begin
\* to read no earlier.
LEMMA StripeReads ==
    ASSUME NEW c, NEW h, IsWalk(c, h), NEW i \in Ops(c), NEW n \in Nat
    PROVE  /\ IfmStart(c, h, i, n) \in Nat /\ IfmEnd(c, h, i, n) \in Int
           /\ IfmEnd(c, h, i, n) <= IfmH(c, i)
           /\ StripeInput(c, h, i) \in Nat \ {0}
           /\ IfmEnd(c, h, i, n) - IfmStart(c, h, i, n) <= StripeInput(c, h, i)
           /\ IfmStart(c, h, i, n) <= IfmStart(c, h, i, n + 1)
<1>1. PICK m, d, s, k, t, o : /\ m = IfmH(c, i) /\ d = h[i] /\ s = c.ops[i].stride
                              /\ k = c.ops[i].kernel /\ t = c.ops[i].top /\ o = OfmH(c, i)
    OBVIOUS
<1>2. /\ m \in Nat \ {0} /\ d \in Nat \ {0} /\ s \in Nat \ {0} /\ k \in Nat \ {0} /\ t \in Nat
      /\ o \in Nat \ {0}
    BY <1>1, OperationTyped
<1>3. PICK a, e : a = OfmStart(h, i, n) /\ e = OfmEnd(c, h, i, n)
    OBVIOUS
<1>4. a \in Nat /\ e \in Nat \ {0} /\ e <= a + d /\ OfmStart(h, i, n + 1) = a + d
    BY <1>1, <1>3, StripeRows
<1>5. PICK u, v, w, z : u = a * s /\ v = (d - 1) * s /\ w = (e - 1) * s /\ z = (a + d) * s
    OBVIOUS
<1>6. u \in Nat /\ v \in Nat /\ w \in Nat /\ z \in Nat /\ w <= u + v /\ u <= z
    <2>1. e - 1 \in Nat /\ d - 1 \in Nat /\ e - 1 <= a + (d - 1)
        BY <1>2, <1>4
    <2>2. (a + (d - 1)) * s = u + v
        BY <1>2, <1>4, <1>5
    <2>3. w <= (a + (d - 1)) * s /\ w \in Nat /\ u \in Nat /\ v \in Nat
        BY <1>2, <1>4, <1>5, <2>1, ProductsOrder
    <2>4. u <= z /\ z \in Nat
        BY <1>2, <1>4, <1>5, ProductsOrder
    <2> QED BY <2>2, <2>3, <2>4
<1>7. /\ IfmStart(c, h, i, n) = IF 0 > u - t THEN 0 ELSE u - t
      /\ IfmStart(c, h, i, n + 1) = IF 0 > z - t THEN 0 ELSE z - t
      /\ IfmEnd(c, h, i, n) = IF w - t + k < m THEN w - t + k ELSE m
      /\ StripeInput(c, h, i) = IF d = o THEN m ELSE IF v + k < m THEN v + k ELSE m
    BY <1>1, <1>3, <1>4, <1>5 DEF IfmStart, IfmEnd, StripeInput, AtLeast, AtMost
<1> QED BY <1>1, <1>2, <1>6, <1>7

\* A buffer holds a stripe of either side, and a stripe of the consumer that
\* misses one row beside the stripe that brings it (RollingBufferShape).
LEMMA BufferHolds ==
    ASSUME NEW c, NEW h, IsWalk(c, h), NEW i \in 1..(Len(c.ops) - 1)
    PROVE  /\ BufferHeight(c, h, i) \in Nat \ {0}
           /\ h[i] + StripeInput(c, h, i + 1) - 1 <= BufferHeight(c, h, i)
<1>1. i \in Ops(c) /\ i + 1 \in Ops(c)
    BY DEF IsWalk, IsCascade, Ops
<1>2. PICK d, r : d = h[i] /\ r = StripeInput(c, h, i + 1) /\ d \in Nat \ {0} /\ r \in Nat \ {0}
    BY <1>1, OperationTyped, StripeReads, 0 \in Nat
<1>3. PICK p, q : p = d + r /\ q = CeilDiv(p, r)
    OBVIOUS
<1>4. q \in Nat /\ p <= q * r /\ q * r \in Nat
    <2>1. p \in Nat
        BY <1>2, <1>3
    <2>2. q \in Nat /\ p <= q * r
        BY <1>2, <1>3, <2>1, StripesCover
    <2> QED BY <1>2, <2>2
<1>5. PICK z : z = q * r
    OBVIOUS
<1>6. \/ BufferHeight(c, h, i) = 1 /\ d = 1 /\ r = 1
      \/ BufferHeight(c, h, i) = z
    BY <1>2, <1>3, <1>5 DEF BufferHeight
<1>7. z \in Nat /\ d + r <= z
    BY <1>3, <1>4, <1>5
<1> QED BY <1>2, <1>6, <1>7

\* The operation after one that has made all its rows is ready.
LEMMA FinishedFeeds ==
    ASSUME NEW c, NEW h, IsWalk(c, h), NEW i \in 1..(Len(c.ops) - 1), NEW n \in Nat
    PROVE  IfmEnd(c, h, i + 1, n) <= Made(c, h, i, Stripes(c, h, i))
<1>1. i \in Ops(c) /\ i + 1 \in Ops(c)
    BY DEF IsWalk, IsCascade, Ops
<1>2. Stripes(c, h, i) \in 0..Stripes(c, h, i)
    BY <1>1, StripeRows, 0 \in Nat
<1>3. Made(c, h, i, Stripes(c, h, i)) = OfmH(c, i)
    BY <1>1, <1>2, RowsMade
<1>4. IfmH(c, i + 1) = OfmH(c, i)
    BY <1>1 DEF IfmH, OfmH, Ops
<1> QED BY <1>1, <1>3, <1>4, StripeReads

\* Up to stripe n of operation i, with m the next of its consumer.
FitsBefore(c, h, i, n, m) ==
    OfmEnd(c, h, i, n) - IfmStart(c, h, i + 1, m) <= BufferHeight(c, h, i)

\* A stripe that the consumer waits for fits beside what it reads.
LEMMA MissingFits ==
    ASSUME NEW c, NEW h, IsWalk(c, h), NEW i \in 1..(Len(c.ops) - 1),
           NEW n \in Nat, n < Stripes(c, h, i), NEW m \in Nat,
           ~(IfmEnd(c, h, i + 1, m) <= Made(c, h, i, n))
    PROVE  FitsBefore(c, h, i, n, m)
<1>1. i \in Ops(c) /\ i + 1 \in Ops(c)
    BY DEF IsWalk, IsCascade, Ops
<1>2. Stripes(c, h, i) \in Nat
    BY <1>1, StripeRows
<1>3. Made(c, h, i, n) = OfmStart(h, i, n)
    BY <1>1, <1>2, RowsMade
<1>4. /\ OfmStart(h, i, n) \in Nat /\ OfmEnd(c, h, i, n) \in Nat /\ h[i] \in Nat
      /\ OfmEnd(c, h, i, n) <= OfmStart(h, i, n) + h[i]
    BY <1>1, StripeRows, OperationTyped
<1>5. /\ IfmStart(c, h, i + 1, m) \in Nat /\ IfmEnd(c, h, i + 1, m) \in Int
      /\ StripeInput(c, h, i + 1) \in Nat
      /\ IfmEnd(c, h, i + 1, m) - IfmStart(c, h, i + 1, m) <= StripeInput(c, h, i + 1)
    BY <1>1, StripeReads
<1>6. BufferHeight(c, h, i) \in Nat /\ h[i] + StripeInput(c, h, i + 1) - 1 <= BufferHeight(c, h, i)
    BY BufferHolds
<1>7. PICK from, to, high, low, b, rows, made :
          /\ from = OfmStart(h, i, n) /\ to = OfmEnd(c, h, i, n) /\ high = IfmEnd(c, h, i + 1, m)
          /\ low = IfmStart(c, h, i + 1, m) /\ b = BufferHeight(c, h, i)
          /\ rows = StripeInput(c, h, i + 1) /\ made = Made(c, h, i, n)
    OBVIOUS
<1>8. to - low <= b
    <2>1. made = from /\ ~(high <= made)
        BY <1>3, <1>7
    <2>2. from \in Nat /\ to \in Nat /\ h[i] \in Nat /\ to <= from + h[i]
        BY <1>4, <1>7
    <2>3. low \in Nat /\ high \in Int /\ rows \in Nat /\ high - low <= rows
        BY <1>5, <1>7
    <2>4. b \in Nat /\ h[i] + rows - 1 <= b
        BY <1>6, <1>7
    <2> QED BY <2>1, <2>2, <2>3, <2>4
<1> QED BY <1>7, <1>8 DEF FitsBefore

\* So does the first one.
LEMMA FirstFits ==
    ASSUME NEW c, NEW h, IsWalk(c, h), NEW i \in 1..(Len(c.ops) - 1)
    PROVE  FitsBefore(c, h, i, 0, 0)
<1>1. i \in Ops(c) /\ i + 1 \in Ops(c) /\ 0 \in Nat
    BY DEF IsWalk, IsCascade, Ops
<1>2. OfmStart(h, i, 0) = 0
    BY <1>1, OperationTyped DEF OfmStart
<1>3. OfmEnd(c, h, i, 0) \in Nat /\ OfmEnd(c, h, i, 0) <= h[i] /\ h[i] \in Nat
    <2>1. /\ OfmEnd(c, h, i, 0) \in Nat /\ h[i] \in Nat
          /\ OfmEnd(c, h, i, 0) <= OfmStart(h, i, 0) + h[i]
        BY <1>1, StripeRows, OperationTyped
    <2> QED BY <1>2, <2>1
<1>4. IfmStart(c, h, i + 1, 0) \in Nat /\ StripeInput(c, h, i + 1) \in Nat \ {0}
    BY <1>1, StripeReads
<1>5. BufferHeight(c, h, i) \in Nat /\ h[i] + StripeInput(c, h, i + 1) - 1 <= BufferHeight(c, h, i)
    BY BufferHolds
<1> QED BY <1>3, <1>4, <1>5 DEF FitsBefore

-----------------------------------------------------------------------------
(* The contents of a rolling buffer.                                       *)

\* After n stripes the rows from the first one on that the consumer still reads
\* are in their slots.
Holds(c, h, i, n, m, buffer) ==
    \A y \in IfmStart(c, h, i + 1, m)..(Made(c, h, i, n) - 1) :
        buffer[y % BufferHeight(c, h, i)] = y

\* The buffer after stripe n.
Rolled(c, h, i, n, buffer) ==
    [slot \in DOMAIN buffer |->
        LET rows == {y \in OfmStart(h, i, n)..(OfmEnd(c, h, i, n) - 1) :
                        y % BufferHeight(c, h, i) = slot}
        IN  IF rows = {} THEN buffer[slot] ELSE Max(rows)]

\* A stripe that fits overwrites no row that is still to be read.
LEMMA RollingKeepsRows ==
    ASSUME NEW c, NEW h, IsWalk(c, h), NEW i \in 1..(Len(c.ops) - 1),
           NEW n \in Nat, n < Stripes(c, h, i), NEW m \in Nat, FitsBefore(c, h, i, n, m),
           NEW buffer, DOMAIN buffer = 0..(BufferHeight(c, h, i) - 1),
           Holds(c, h, i, n, m, buffer)
    PROVE  Holds(c, h, i, n + 1, m, Rolled(c, h, i, n, buffer))
<1>1. i \in Ops(c) /\ i + 1 \in Ops(c)
    BY DEF IsWalk, IsCascade, Ops
<1>2. PICK from, to, start, b : /\ from = OfmStart(h, i, n) /\ to = OfmEnd(c, h, i, n)
                                /\ start = IfmStart(c, h, i + 1, m) /\ b = BufferHeight(c, h, i)
    OBVIOUS
<1>3. /\ from \in Nat /\ to \in Nat /\ start \in Nat /\ b \in Nat \ {0} /\ to - start <= b
      /\ h[i] \in Nat /\ to <= from + h[i] /\ h[i] <= b
    <2>1. StripeInput(c, h, i + 1) \in Nat \ {0} /\ start \in Nat
        BY <1>1, <1>2, StripeReads
    <2>2. from \in Nat /\ to \in Nat /\ h[i] \in Nat /\ to <= from + h[i]
        BY <1>1, <1>2, StripeRows, OperationTyped
    <2>3. b \in Nat \ {0} /\ h[i] + StripeInput(c, h, i + 1) - 1 <= b
        BY <1>2, BufferHolds
    <2>4. to - start <= b
        BY <1>2 DEF FitsBefore
    <2> QED BY <2>1, <2>2, <2>3, <2>4
<1>4. Made(c, h, i, n) = from /\ Made(c, h, i, n + 1) = to
    <2>1. Stripes(c, h, i) \in Nat
        BY <1>1, StripeRows
    <2>2. Made(c, h, i, n) = from
        BY <1>1, <1>2, <2>1, RowsMade
    <2> QED BY <1>2, <2>2 DEF Made
<1> SUFFICES ASSUME NEW y \in Nat, start <= y, y < to
             PROVE  Rolled(c, h, i, n, buffer)[y % b] = y
    <2>1. ASSUME NEW y \in start..(to - 1) PROVE y \in Nat /\ start <= y /\ y < to
        BY <1>3
    <2> QED BY <1>2, <1>4, <2>1 DEF Holds
<1>5. PICK slot : slot = y % b /\ slot \in DOMAIN buffer
    BY <1>2, <1>3, QuotientBounds
<1> DEFINE rows == {x \in from..(to - 1) : x % b = slot}
<1>6. Rolled(c, h, i, n, buffer)[slot] = IF rows = {} THEN buffer[slot] ELSE Max(rows)
    BY <1>2, <1>5 DEF Rolled
<1>7. \A x \in rows : x = y
    <2> SUFFICES ASSUME NEW x \in rows, x # y PROVE FALSE
        OBVIOUS
    <2>1. x \in Nat /\ from <= x /\ x < to /\ x % b = y % b
        BY <1>3, <1>5
    <2>2. CASE x < y
        <3>1. x + b <= y
            BY <1>3, <2>1, <2>2, SlotsRepeat
        <3> QED BY <1>3, <2>1, <3>1
    <2>3. CASE y < x
        <3>1. y + b <= x
            BY <1>3, <2>1, <2>3, SlotsRepeat
        <3> QED BY <1>3, <2>1, <3>1
    <2> QED BY <2>1, <2>2, <2>3
<1>8. CASE y < from
    <2>1. rows = {}
        BY <1>3, <1>7, <1>8
    <2>2. buffer[slot] = y
        <3>1. y \in start..(from - 1)
            BY <1>3, <1>8
        <3>2. \A row \in start..(from - 1) : buffer[row % b] = row
            BY <1>2, <1>4 DEF Holds
        <3> QED BY <1>5, <3>1, <3>2
    <2> QED BY <1>5, <1>6, <2>1, <2>2
<1>9. CASE from <= y
    <2>1. rows = {y}
        BY <1>3, <1>5, <1>7, <1>9
    <2>2. Max({y}) = y
        BY DEF Max
    <2> QED BY <1>5, <1>6, <2>1, <2>2
<1> QED BY <1>3, <1>8, <1>9

\* What the consumer will no longer read need not be held.
LEMMA ReadingReleasesRows ==
    ASSUME NEW c, NEW h, IsWalk(c, h), NEW i \in 1..(Len(c.ops) - 1),
           NEW n \in 0..Stripes(c, h, i), NEW m \in Nat, NEW buffer,
           Holds(c, h, i, n, m, buffer)
    PROVE  Holds(c, h, i, n, m + 1, buffer)
<1>1. i \in Ops(c) /\ i + 1 \in Ops(c) /\ m + 1 \in Nat
    BY DEF IsWalk, IsCascade, Ops
<1>2. /\ IfmStart(c, h, i + 1, m) \in Nat /\ IfmStart(c, h, i + 1, m + 1) \in Nat
      /\ IfmStart(c, h, i + 1, m) <= IfmStart(c, h, i + 1, m + 1)
    BY <1>1, StripeReads
<1>3. Made(c, h, i, n) \in Nat
    BY <1>1, RowsMade
<1> QED BY <1>2, <1>3 DEF Holds

-----------------------------------------------------------------------------
(* The walk.                                                               *)

WalkTyped ==
    /\ cascade \in Cascades /\ IsWalk(cascade, stripe)
    /\ opIndex \in Ops(cascade)
    /\ next \in [Ops(cascade) -> Nat]
    /\ \A i \in Ops(cascade) : next[i] <= Stripes(cascade, stripe, i)
    /\ DOMAIN rolling = 1..(Len(cascade.ops) - 1)
    /\ \A i \in 1..(Len(cascade.ops) - 1) :
          DOMAIN rolling[i] = 0..(BufferHeight(cascade, stripe, i) - 1)
    /\ phase \in {"run", "done", "error"}

\* No operation from the present one on is finished: the walk goes back only
\* to one whose rows are missing, and forward when its own stripes are made.
HasWork == \A i \in opIndex..Len(cascade.ops) : next[i] < Stripes(cascade, stripe, i)

\* The next stripe of each of these fits in its buffer.
NextFits ==
    \A i \in opIndex..(Len(cascade.ops) - 1) :
        FitsBefore(cascade, stripe, i, next[i], next[i + 1])

\* Every buffer holds what its consumer has still to read.
RowsHeld ==
    \A i \in 1..(Len(cascade.ops) - 1) :
        Holds(cascade, stripe, i, next[i], next[i + 1], rolling[i])

WalkInv ==
    /\ WalkTyped
    /\ phase = "run" => HasWork /\ NextFits /\ RowsHeld
    /\ phase = "done" => ~HasNext(Len(cascade.ops))

\* Operations and those whose output is rolled, as numbers.
LEMMA OperationsOfWalk ==
    ASSUME NEW c, NEW h, IsWalk(c, h)
    PROVE  /\ Len(c.ops) \in Nat \ {0} /\ Ops(c) = 1..Len(c.ops)
           /\ \A i \in Ops(c) : Stripes(c, h, i) \in Nat \ {0}
<1>1. 0 \in Nat
    OBVIOUS
<1> QED BY <1>1, StripeRows DEF IsWalk, IsCascade, Ops

LEMMA WalkBegins == Init => WalkInv
<1> SUFFICES ASSUME Init PROVE WalkInv
    OBVIOUS
<1>1. cascade \in Cascades /\ IsWalk(cascade, stripe)
    BY CascadesAssumption, HeightsArePositive DEF Init
<1>2. PICK c, h, n : c = cascade /\ h = stripe /\ n = Len(c.ops)
    OBVIOUS
<1>3. n \in Nat \ {0} /\ Ops(c) = 1..n /\ \A i \in 1..n : Stripes(c, h, i) \in Nat \ {0}
    BY <1>1, <1>2, OperationsOfWalk
<1>4. /\ opIndex = 1 /\ phase = "run"
      /\ next = [i \in 1..n |-> 0]
      /\ rolling = [i \in 1..(n - 1) |-> [slot \in 0..(BufferHeight(c, h, i) - 1) |-> -1]]
    BY <1>2, <1>3 DEF Init
<1>5. WalkTyped
    BY <1>1, <1>2, <1>3, <1>4 DEF WalkTyped
<1>6. HasWork
    BY <1>2, <1>3, <1>4 DEF HasWork
<1>7. NextFits
    <2> SUFFICES ASSUME NEW i \in 1..(n - 1) PROVE FitsBefore(c, h, i, next[i], next[i + 1])
        BY <1>2, <1>4 DEF NextFits
    <2>1. next[i] = 0 /\ next[i + 1] = 0
        BY <1>3, <1>4
    <2> QED BY <1>1, <1>2, <2>1, FirstFits
<1>8. RowsHeld
    <2> SUFFICES ASSUME NEW i \in 1..(n - 1) PROVE Holds(c, h, i, next[i], next[i + 1], rolling[i])
        BY <1>2 DEF RowsHeld
    <2>1. next[i] = 0 /\ next[i + 1] = 0 /\ i + 1 \in Ops(c) /\ 0 \in Nat
        BY <1>3, <1>4
    <2>2. IfmStart(c, h, i + 1, 0) \in Nat
        BY <1>1, <1>2, <2>1, StripeReads
    <2> QED BY <2>1, <2>2 DEF Holds, Made
<1> QED BY <1>4, <1>5, <1>6, <1>7, <1>8 DEF WalkInv

\* A stripe that misses input leaves the present operation for one that has
\* work, and whose stripe fits.
LEMMA BackKeepsWalk == WalkInv /\ StepBack => WalkInv'
<1> SUFFICES ASSUME WalkInv, StepBack PROVE WalkInv'
    OBVIOUS
<1>1. PICK c, h, n, k : c = cascade /\ h = stripe /\ n = Len(c.ops) /\ k = opIndex
    OBVIOUS
<1>2. /\ WalkTyped /\ HasWork /\ NextFits /\ RowsHeld /\ phase = "run"
      /\ ~IsReady(k) /\ opIndex' = k - 1
      /\ UNCHANGED <<cascade, stripe, next, rolling, phase>>
    BY <1>1 DEF WalkInv, StepBack
<1>3. /\ IsWalk(c, h) /\ n = Len(c.ops) /\ n \in Nat \ {0} /\ Ops(c) = 1..n /\ k \in 1..n
      /\ \A i \in 1..n : next[i] \in Nat /\ Stripes(c, h, i) \in Nat /\ next[i] <= Stripes(c, h, i)
    BY <1>1, <1>2, OperationsOfWalk DEF WalkTyped
<1>4. /\ k # 1 /\ k - 1 \in 1..(n - 1) /\ k = (k - 1) + 1
      /\ ~(IfmEnd(c, h, k, next[k]) <= Made(c, h, k - 1, next[k - 1]))
    BY <1>1, <1>2, <1>3 DEF IsReady, Available, Made
<1>5. next[k - 1] < Stripes(c, h, k - 1)
    <2> SUFFICES ASSUME next[k - 1] = Stripes(c, h, k - 1) PROVE FALSE
        BY <1>3, <1>4
    <2> QED BY <1>3, <1>4, FinishedFeeds
<1>6. FitsBefore(c, h, k - 1, next[k - 1], next[k])
    BY <1>3, <1>4, <1>5, MissingFits
<1>7. WalkTyped'
    <2>1. opIndex' \in Ops(cascade)
        BY <1>1, <1>2, <1>3, <1>4
    <2> QED BY <1>2, <2>1 DEF WalkTyped
<1>8. HasWork'
    BY <1>1, <1>2, <1>3, <1>4, <1>5 DEF HasWork
<1>9. NextFits'
    <2> SUFFICES ASSUME NEW i \in (k - 1)..(n - 1) PROVE FitsBefore(c, h, i, next[i], next[i + 1])
        BY <1>1, <1>2 DEF NextFits
    <2>1. CASE i = k - 1
        BY <1>4, <1>6, <2>1
    <2>2. CASE i # k - 1
        <3>1. i \in k..(n - 1)
            BY <1>3, <2>2
        <3> QED BY <1>1, <1>2, <3>1 DEF NextFits
    <2> QED BY <2>1, <2>2
<1>10. RowsHeld'
    BY <1>2 DEF RowsHeld
<1> QED BY <1>2, <1>7, <1>8, <1>9, <1>10 DEF WalkInv

\* A stripe that is emitted fits, and after it the walk is where a next stripe
\* is left that fits, or at its end.
LEMMA EmitKeepsWalk == WalkInv /\ phase = "run" /\ Emit => WalkInv'
<1> SUFFICES ASSUME WalkInv, phase = "run", Emit PROVE WalkInv'
    OBVIOUS
<1>1. PICK c, h, n, k : c = cascade /\ h = stripe /\ n = Len(c.ops) /\ k = opIndex
    OBVIOUS
<1>2. /\ WalkTyped /\ HasWork /\ NextFits /\ RowsHeld
      /\ cascade' = c /\ stripe' = h
    BY <1>1 DEF WalkInv, Emit
<1>3. /\ IsWalk(c, h) /\ n = Len(c.ops) /\ n \in Nat \ {0} /\ Ops(c) = 1..n /\ k \in 1..n
      /\ \A i \in 1..n : next[i] \in Nat /\ Stripes(c, h, i) \in Nat /\ next[i] <= Stripes(c, h, i)
      /\ next \in [1..n -> Nat]
    BY <1>1, <1>2, OperationsOfWalk DEF WalkTyped
<1>4. next[k] < Stripes(c, h, k)
    BY <1>1, <1>2, <1>3 DEF HasWork
<1>5. /\ next' \in [1..n -> Nat] /\ next'[k] = next[k] + 1
      /\ \A i \in 1..n \ {k} : next'[i] = next[i]
    BY <1>1, <1>3 DEF Emit
<1>6. /\ DOMAIN rolling' = DOMAIN rolling
      /\ k < n => rolling'[k] = Rolled(c, h, k, next[k], rolling[k])
      /\ \A i \in 1..(n - 1) \ {k} : rolling'[i] = rolling[i]
    <2>1. Written = Rolled(c, h, k, next[k], rolling[k])
        BY <1>1 DEF Written, Rolled
    <2>2. DOMAIN rolling = 1..(n - 1)
        BY <1>1, <1>2 DEF WalkTyped
    <2>3. rolling' = IF k < n THEN [rolling EXCEPT ![k] = Written] ELSE rolling
        BY <1>1 DEF Emit
    <2> QED BY <1>3, <2>1, <2>2, <2>3
<1>7. \/ /\ next[k] + 1 < Stripes(c, h, k) /\ ~IsFull
         /\ opIndex' = k /\ phase' = "run"
      \/ /\ k < n /\ opIndex' = k + 1 /\ phase' = "run"
      \/ /\ k = n /\ ~(next[k] + 1 < Stripes(c, h, k))
         /\ opIndex' = k /\ phase' = "done"
    BY <1>1, <1>3 DEF Emit, EndsWalk, IsFull
<1>8. WalkTyped'
    <2>1. opIndex' \in 1..n /\ phase' \in {"run", "done", "error"}
        BY <1>3, <1>7
    <2>2. \A i \in 1..n : next'[i] <= Stripes(c, h, i)
        BY <1>3, <1>4, <1>5
    <2>3. \A i \in 1..(n - 1) : DOMAIN rolling'[i] = 0..(BufferHeight(c, h, i) - 1)
        <3> SUFFICES ASSUME NEW i \in 1..(n - 1) PROVE DOMAIN rolling'[i] = DOMAIN rolling[i]
            BY <1>1, <1>2 DEF WalkTyped
        <3>1. CASE i = k
            BY <1>3, <1>6, <3>1 DEF Rolled
        <3> QED BY <1>6, <3>1
    <2>4. cascade' \in Cascades /\ DOMAIN rolling' = 1..(n - 1)
        BY <1>1, <1>2, <1>6 DEF WalkTyped
    <2> QED BY <1>1, <1>2, <1>3, <1>5, <2>1, <2>2, <2>3, <2>4 DEF WalkTyped
<1>9. RowsHeld'
    <2> SUFFICES ASSUME NEW i \in 1..(n - 1)
                 PROVE  Holds(c, h, i, next'[i], next'[i + 1], rolling'[i])
        BY <1>1, <1>2 DEF RowsHeld
    <2>1. Holds(c, h, i, next[i], next[i + 1], rolling[i])
        BY <1>1, <1>2 DEF RowsHeld
    <2>2. i \in 1..n /\ i + 1 \in 1..n /\ next[i] \in 0..Stripes(c, h, i) /\ next[i + 1] \in Nat
        BY <1>3
    <2>3. CASE i = k
        <3>1. FitsBefore(c, h, i, next[i], next[i + 1])
            BY <1>1, <1>2, <2>3 DEF NextFits
        <3>2. DOMAIN rolling[i] = 0..(BufferHeight(c, h, i) - 1)
            BY <1>1, <1>2 DEF WalkTyped
        <3>3. Holds(c, h, i, next[i] + 1, next[i + 1], Rolled(c, h, i, next[i], rolling[i]))
            BY <1>3, <1>4, <2>1, <2>2, <2>3, <3>1, <3>2, RollingKeepsRows
        <3> QED BY <1>3, <1>5, <1>6, <2>2, <2>3, <3>3
    <2>4. CASE i + 1 = k
        <3>1. Holds(c, h, i, next[i], next[i + 1] + 1, rolling[i])
            BY <1>3, <2>1, <2>2, ReadingReleasesRows
        <3> QED BY <1>3, <1>5, <1>6, <2>2, <2>4, <3>1
    <2>5. CASE i # k /\ i + 1 # k
        BY <1>5, <1>6, <2>1, <2>2, <2>5
    <2> QED BY <2>3, <2>4, <2>5
<1>10. CASE phase' = "done"
    <2>1. k = n /\ ~(next'[n] < Stripes(c, h, n))
        BY <1>3, <1>5, <1>7, <1>10
    <2> QED BY <1>1, <1>2, <1>8, <1>10, <2>1 DEF WalkInv, HasNext
<1>11. CASE phase' = "run"
    <2>1. HasWork'
        BY <1>1, <1>2, <1>3, <1>5, <1>7, <1>11 DEF HasWork
    <2>2. NextFits'
        <3> SUFFICES ASSUME NEW i \in opIndex'..(n - 1)
                     PROVE  FitsBefore(c, h, i, next'[i], next'[i + 1])
            BY <1>1, <1>2 DEF NextFits
        <3>1. i \in k..(n - 1) /\ i \in 1..n /\ i + 1 \in 1..n /\ i + 1 # k
            BY <1>3, <1>7, <1>11
        <3>2. CASE i # k
            BY <1>1, <1>2, <1>5, <3>1, <3>2 DEF NextFits
        <3>3. CASE i = k
            <4>1. ~IsFull /\ next[k + 1] < Stripes(c, h, k + 1) /\ k < n
                BY <1>1, <1>2, <1>3, <1>7, <1>11, <3>1, <3>3 DEF HasWork
            <4>2. FitsBefore(c, h, k, next[k] + 1, next[k + 1])
                BY <1>1, <4>1 DEF IsFull, HasNext, CanFitRollingBuffer, FitsBefore
            <4> QED BY <1>5, <3>1, <3>3, <4>2
        <3> QED BY <3>2, <3>3
    <2> QED BY <1>8, <1>9, <1>11, <2>1, <2>2 DEF WalkInv
<1> QED BY <1>7, <1>10, <1>11

\* The inductive invariant of GenerateCommandsForCascade.
THEOREM WalkCorrect == Spec => []WalkInv
<1>1. WalkInv /\ [Next]_vars => WalkInv'
    <2> SUFFICES ASSUME WalkInv, [Next]_vars PROVE WalkInv'
        OBVIOUS
    <2>1. CASE EmitStripe
        <3>1. CASE phase = "run" /\ Emit
            BY <3>1, EmitKeepsWalk
        <3>2. CASE Refuse
            BY <3>2 DEF Refuse, WalkInv, WalkTyped
        <3> QED BY <2>1, <3>1, <3>2 DEF EmitStripe
    <2>2. CASE StepBack
        BY <2>2, BackKeepsWalk
    <2>3. CASE UNCHANGED vars
        BY <2>3 DEF vars, WalkInv, WalkTyped, HasWork, NextFits, RowsHeld, HasNext
    <2> QED BY <2>1, <2>2, <2>3 DEF Next
<1> QED BY WalkBegins, <1>1, PTL DEF Spec

\* The walk keeps to the operations of the cascade and to their stripes
\* (opIndex and the OfmArea cursors of GenerateCommandsForCascade).
THEOREM WalkTypeCorrect == Spec => []TypeOK
<1>1. WalkInv => TypeOK
    <2> SUFFICES ASSUME WalkInv PROVE TypeOK
        OBVIOUS
    <2>1. \A i \in Ops(cascade) : Stripes(cascade, stripe, i) \in Nat
        BY OperationsOfWalk DEF WalkInv, WalkTyped
    <2> QED BY <2>1 DEF WalkInv, WalkTyped, TypeOK
<1> QED BY <1>1, WalkCorrect, PTL

\* Whatever the cascade, a stripe finds every row that it reads in the rolling
\* buffer before it (the order GenerateCommandsForCascade chooses, with the
\* buffers of RollingBufferShape).
THEOREM InputHeld == Spec => []InputIsHeld
<1>1. WalkInv => InputIsHeld
    <2> SUFFICES ASSUME WalkInv, phase = "run", opIndex > 1, IsReady(opIndex),
                        NEW y \in IfmStart(cascade, stripe, opIndex, next[opIndex])..
                                  (IfmEnd(cascade, stripe, opIndex, next[opIndex]) - 1)
                 PROVE  rolling[opIndex - 1][y % BufferHeight(cascade, stripe, opIndex - 1)] = y
        BY DEF InputIsHeld
    <2>1. PICK c, h, i, n : c = cascade /\ h = stripe /\ i = opIndex - 1 /\ n = Len(c.ops)
        OBVIOUS
    <2>2. /\ IsWalk(c, h) /\ n \in Nat \ {0} /\ Ops(c) = 1..n
          /\ opIndex \in 1..n /\ next \in [1..n -> Nat]
          /\ \A m \in 1..n : next[m] <= Stripes(c, h, m) /\ Stripes(c, h, m) \in Nat
        BY <2>1, OperationsOfWalk DEF WalkInv, WalkTyped
    <2>3. /\ i \in 1..(n - 1) /\ i + 1 = opIndex /\ i \in Ops(c) /\ i + 1 \in Ops(c)
          /\ next[i] \in 0..Stripes(c, h, i) /\ next[i + 1] \in Nat
        <3>1. i \in 1..(n - 1) /\ i + 1 = opIndex /\ i \in 1..n /\ i + 1 \in 1..n
            BY <2>1, <2>2
        <3>2. next[i] \in Nat /\ next[i + 1] \in Nat
            BY <2>2, <3>1
        <3>3. next[i] <= Stripes(c, h, i) /\ Stripes(c, h, i) \in Nat
            BY <2>2, <3>1
        <3> QED BY <2>2, <3>1, <3>2, <3>3
    <2>4. Holds(c, h, i, next[i], next[i + 1], rolling[i])
        BY <2>1, <2>3 DEF WalkInv, RowsHeld
    <2>5. IfmEnd(c, h, i + 1, next[i + 1]) <= Made(c, h, i, next[i])
        BY <2>1, <2>3 DEF IsReady, Available, Made
    <2>6. /\ IfmStart(c, h, i + 1, next[i + 1]) \in Nat /\ IfmEnd(c, h, i + 1, next[i + 1]) \in Int
          /\ Made(c, h, i, next[i]) \in Nat
        BY <2>2, <2>3, StripeReads, RowsMade
    <2>7. y \in IfmStart(c, h, i + 1, next[i + 1])..(Made(c, h, i, next[i]) - 1)
        BY <2>1, <2>3, <2>5, <2>6
    <2> QED BY <2>1, <2>4, <2>7 DEF Holds
<1> QED BY <1>1, WalkCorrect, PTL

\* Whatever the cascade, the walk never comes to an operation that has no
\* stripe left, and ends with the whole output made (the loop condition of
\* GenerateCommandsForCascade).
THEOREM WalkCompletes == Spec => []WalkIsComplete
<1>1. WalkInv => WalkIsComplete
    <2> SUFFICES ASSUME WalkInv PROVE WalkIsComplete
        OBVIOUS
    <2>1. PICK c, h, n : c = cascade /\ h = stripe /\ n = Len(c.ops)
        OBVIOUS
    <2>2. /\ IsWalk(c, h) /\ n \in Nat \ {0} /\ Ops(c) = 1..n /\ opIndex \in 1..n
          /\ \A m \in 1..n : next[m] \in Nat /\ next[m] <= Stripes(c, h, m) /\ Stripes(c, h, m) \in Nat
        BY <2>1, OperationsOfWalk DEF WalkInv, WalkTyped
    <2>3. phase = "run" => HasNext(opIndex)
        BY <2>1, <2>2 DEF WalkInv, HasWork, HasNext
    <2>4. ASSUME phase = "done" PROVE Available(n) = OfmH(c, n)
        <3>1. next[n] = Stripes(c, h, n)
            BY <2>1, <2>2, <2>4 DEF WalkInv, HasNext
        <3>2. Available(n) = Made(c, h, n, next[n])
            BY <2>1 DEF Available, Made
        <3>3. n \in Ops(c) /\ next[n] \in 0..Stripes(c, h, n)
            BY <2>2
        <3> QED BY <2>2, <3>1, <3>2, <3>3, RowsMade
    <2> QED BY <2>1, <2>3, <2>4 DEF WalkIsComplete
<1> QED BY <1>1, WalkCorrect, PTL

-----------------------------------------------------------------------------
(* Room for the workspaces: the sizes.                                     *)

\* The sums of the staged sizes up to each operation.
StageSums(c, f) ==
    /\ f \in [0..Len(c.ops) -> Nat] /\ f[0] = 0
    /\ \A i \in Ops(c) : f[i] = f[i - 1] + c.ops[i].stage

LEMMA SumsExist ==
    ASSUME NEW c, IsCascade(c), HasSizes(c)
    PROVE  \E f : StageSums(c, f) /\ Persistent(c) = f[Len(c.ops)]
<1>1. PICK n : n = Len(c.ops) /\ n \in Nat \ {0} /\ Ops(c) = 1..n
    BY DEF IsCascade, Ops
<1>2. \A i \in 1..n : c.ops[i].stage \in Nat
    BY <1>1 DEF HasSizes
<1> DEFINE Recursive(f, k) == f = [i \in 0..k |-> IF i = 0 THEN 0 ELSE f[i - 1] + c.ops[i].stage]
           Typed(f, k) == Recursive(f, k) /\ f \in [0..k -> Nat]
           T == {k \in 0..n : ~\E f : Typed(f, k)}
<1>3. T = {}
    <2> SUFFICES ASSUME T # {} PROVE FALSE
        OBVIOUS
    <2>1. PICK k \in T : \A j \in T : k <= j
        <3>1. T \in SUBSET Nat
            BY <1>1
        <3> HIDE DEF T
        <3> QED BY <3>1, LeastElement
    <2>2. k # 0
        <3>1. Typed([i \in 0..0 |-> 0], 0)
            OBVIOUS
        <3> QED BY <2>1, <3>1
    <2>3. k - 1 \in 0..n /\ k \in 1..n /\ k - 1 \notin T
        <3>1. k \in 0..n
            OBVIOUS
        <3> HIDE DEF T
        <3> QED BY <1>1, <2>1, <2>2, <3>1
    <2>4. PICK f : Typed(f, k - 1)
        BY <2>3
    <2>5. PICK s \in Nat : s = f[k - 1] + c.ops[k].stage
        <3>1. f[k - 1] \in Nat /\ c.ops[k].stage \in Nat
            BY <1>2, <2>3, <2>4
        <3> QED BY <3>1
    <2> DEFINE g == [i \in 0..k |-> IF i = k THEN s ELSE f[i]]
    <2>6. /\ \A i \in 0..(k - 1) : f[i] \in Nat
          /\ \A i \in 0..(k - 1) : f[i] = IF i = 0 THEN 0 ELSE f[i - 1] + c.ops[i].stage
        BY <2>4
    <2>7. \A i \in 0..k : i # k => i \in 0..(k - 1) /\ (i # 0 => i - 1 \in 0..(k - 1))
        BY <2>3
    <2>8. g \in [0..k -> Nat]
        <3> SUFFICES ASSUME NEW i \in 0..k PROVE (IF i = k THEN s ELSE f[i]) \in Nat
            OBVIOUS
        <3> QED BY <2>5, <2>6, <2>7
    <2>9. ASSUME NEW i \in 0..k PROVE g[i] = IF i = 0 THEN 0 ELSE g[i - 1] + c.ops[i].stage
        <3>1. CASE i = k
            <4>1. g[i] = s /\ i - 1 \in 0..k /\ i - 1 # k /\ i # 0
                BY <2>2, <2>3, <3>1
            <4>2. g[i - 1] = f[i - 1]
                BY <4>1
            <4> HIDE DEF g
            <4> QED BY <2>5, <3>1, <4>1, <4>2
        <3>2. CASE i # k
            <4>1. g[i] = f[i] /\ i \in 0..(k - 1)
                BY <2>7, <3>2
            <4>2. ASSUME i # 0 PROVE g[i - 1] = f[i - 1]
                <5>1. i - 1 \in 0..k /\ i - 1 # k
                    BY <2>3, <4>1, <4>2
                <5> QED BY <5>1
            <4> HIDE DEF g
            <4> QED BY <2>6, <4>1, <4>2
        <3> QED BY <3>1, <3>2
    <2>10. Recursive(g, k)
        <3>1. g = [i \in 0..k |-> g[i]]
            OBVIOUS
        <3> HIDE DEF g
        <3> QED BY <2>9, <3>1
    <2>11. Typed(g, k)
        BY <2>8, <2>10
    <2>12. k \in T
        OBVIOUS
    <2> HIDE DEF g, Typed
    <2> QED BY <2>11, <2>12
<1>4. \E f : Recursive(f, n)
    <2>1. n \in 0..n
        BY <1>1
    <2>2. n \notin T
        <3> HIDE DEF T
        <3> QED BY <1>3
    <2> HIDE DEF Recursive
    <2> QED BY <2>1, <2>2
<1>5. PICK f : f = (CHOOSE g : Recursive(g, n)) /\ Recursive(f, n)
    BY <1>4
<1>6. ASSUME NEW i \in 0..n PROVE f[i] = IF i = 0 THEN 0 ELSE f[i - 1] + c.ops[i].stage
    BY <1>5
<1>7. Persistent(c) = f[n]
    BY <1>1, <1>5 DEF Persistent
<1> DEFINE U == {k \in 0..n : f[k] \notin Nat}
<1>8. U = {}
    <2> SUFFICES ASSUME U # {} PROVE FALSE
        OBVIOUS
    <2>1. PICK k \in U : \A j \in U : k <= j
        <3>1. U \in SUBSET Nat
            BY <1>1
        <3> HIDE DEF U
        <3> QED BY <3>1, LeastElement
    <2>2. CASE k = 0
        <3>1. 0 \in 0..n
            BY <1>1
        <3>2. f[0] = 0
            BY <1>6, <3>1
        <3>3. f[k] \notin Nat
            OBVIOUS
        <3> QED BY <2>2, <3>2, <3>3
    <2>3. CASE k # 0
        <3>1. k \in 0..n /\ k - 1 \in 0..n /\ k \in 1..n
            <4>1. k \in 0..n
                OBVIOUS
            <4> HIDE DEF U
            <4> QED BY <1>1, <2>3, <4>1
        <3>2. k - 1 \notin U
            <4> HIDE DEF U
            <4> QED BY <2>1, <3>1
        <3>3. f[k - 1] \in Nat
            BY <3>1, <3>2
        <3>4. f[k] = f[k - 1] + c.ops[k].stage
            <4> HIDE DEF U
            <4> QED BY <1>6, <2>3, <3>1
        <3>5. c.ops[k].stage \in Nat
            <4> HIDE DEF U
            <4> QED BY <1>2, <3>1
        <3>6. f[k] \in Nat
            <4> HIDE DEF U
            <4> QED BY <3>3, <3>4, <3>5
        <3> QED BY <3>6
    <2> QED BY <2>2, <2>3
<1>9. StageSums(c, f)
    <2>1. f \in [0..n -> Nat]
        <3>1. f = [i \in 0..n |-> f[i]]
            BY <1>5
        <3>2. \A i \in 0..n : f[i] \in Nat
            BY <1>8
        <3> HIDE DEF Recursive, U
        <3> QED BY <3>1, <3>2
    <2>3. f[0] = 0
        BY <1>1, <1>6, 0 \in 0..n
    <2>2. \A i \in 1..n : f[i] = f[i - 1] + c.ops[i].stage
        BY <1>1, <1>6
    <2> HIDE DEF Recursive, Typed, T, U
    <2> QED BY <1>1, <2>1, <2>2, <2>3 DEF StageSums
<1> HIDE DEF Recursive, Typed, T, U
<1> QED BY <1>1, <1>7, <1>9

\* What some of the operations stage is no more than what all of them do.
LEMMA SumsGrow ==
    ASSUME NEW c, IsCascade(c), HasSizes(c), NEW f, StageSums(c, f), NEW m \in 0..Len(c.ops)
    PROVE  f[m] \in Nat /\ f[Len(c.ops)] \in Nat /\ f[m] <= f[Len(c.ops)]
<1>1. PICK n : n = Len(c.ops) /\ n \in Nat \ {0} /\ Ops(c) = 1..n
    BY DEF IsCascade, Ops
<1>2. /\ f \in [0..n -> Nat]
      /\ \A i \in 1..n : f[i] = f[i - 1] + c.ops[i].stage /\ c.ops[i].stage \in Nat
    BY <1>1 DEF StageSums, HasSizes
<1> DEFINE T == {k \in 0..n : f[n] < f[k]}
<1>3. T = {}
    <2> SUFFICES ASSUME T # {} PROVE FALSE
        OBVIOUS
    <2>1. PICK k \in T : \A j \in T : j <= k
        <3>1. T \in SUBSET (0..n)
            OBVIOUS
        <3> HIDE DEF T
        <3> QED BY <1>1, <3>1, GreatestElement
    <2>2. k # n /\ k \in 0..n
        BY <1>1, <1>2, <2>1
    <2>3. k + 1 \in 1..n /\ k + 1 \notin T /\ f[k + 1] = f[k] + c.ops[k + 1].stage
        BY <1>1, <1>2, <2>1, <2>2
    <2>4. f[n] < f[k] /\ ~(f[n] < f[k + 1])
        BY <1>1, <2>3
    <2>5. PICK j, d : j = k + 1 /\ d = c.ops[j].stage
        OBVIOUS
    <2>6. d \in Nat
        BY <1>2, <2>3, <2>5
    <2>7. f[n] \in Nat /\ f[k] \in Nat
        BY <1>1, <1>2, <2>2
    <2> HIDE DEF T
    <2> QED BY <2>3, <2>4, <2>5, <2>6, <2>7
<1>4. f[m] \in Nat /\ f[n] \in Nat
    BY <1>1, <1>2
<1>5. ~(f[n] < f[m])
    BY <1>1, <1>3
<1> HIDE DEF T
<1> QED BY <1>1, <1>4, <1>5

-----------------------------------------------------------------------------
(* What a stripe takes.                                                    *)

\* The rows a stripe stages with their padding are those its kernel reaches
\* over, whatever part of them is padding (CascadeLinebufferStripeBytes).
LEMMA StripeBytesTyped ==
    ASSUME NEW c, NEW h, IsWalk(c, h), NEW i \in Ops(c), c.ops[i].spillOut \in BOOLEAN,
           NEW n \in Nat, n < Stripes(c, h, i)
    PROVE  StripeBytes(c, h, i, n) \in Nat
<1>1. PICK a, e, s, k, t, m : /\ a = OfmStart(h, i, n) /\ e = OfmEnd(c, h, i, n)
                              /\ s = c.ops[i].stride /\ k = c.ops[i].kernel
                              /\ t = c.ops[i].top /\ m = IfmH(c, i)
    OBVIOUS
<1>2. /\ a \in Nat /\ e \in Nat /\ a < e /\ s \in Nat /\ k \in Nat /\ t \in Nat /\ m \in Nat
    BY <1>1, StripeRows, OperationTyped
<1>3. PICK u, w : u = a * s /\ w = (e - 1) * s
    OBVIOUS
<1>4. u \in Nat /\ w \in Nat /\ u <= w
    BY <1>2, <1>3, e - 1 \in Nat, a <= e - 1, ProductsOrder
<1> DEFINE in == StagingOf(c, h, i, n, 0, 0)
<1>5. PICK first, end : /\ first = OfmStart(h, i, n) * c.ops[i].stride - c.ops[i].top
                        /\ end = (OfmEnd(c, h, i, n) - 1) * c.ops[i].stride - c.ops[i].top
                                    + c.ops[i].kernel
    OBVIOUS
<1>6. /\ in.padTop = AtLeast(0, -first) /\ in.padBottom = AtLeast(0, end - m)
      /\ in.h = IfmEnd(c, h, i, n) - IfmStart(c, h, i, n)
      /\ in.x = 0 /\ in.w = 1 /\ in.padLeft = 0 /\ in.padRight = 0
      /\ in.channels = 1 /\ in.direct = FALSE
    BY <1>1, <1>5 DEF StagingOf
<1>7. in.padTop + in.h + in.padBottom = w + k - u
    <2>1. first = u - t /\ end = w - t + k
        BY <1>1, <1>3, <1>5
    <2>2. IfmStart(c, h, i, n) = AtLeast(0, first) /\ IfmEnd(c, h, i, n) = AtMost(end, m)
        BY <1>1, <1>5 DEF IfmStart, IfmEnd
    <2> HIDE DEF in
    <2> QED BY <1>2, <1>4, <1>6, <2>1, <2>2 DEF AtLeast, AtMost
<1>8. Stage!StagedBytes(in) = w + k - u
    <2>1. Stage!Aligned(1) = 1
        BY DEF Stage!Aligned, Stage!CeilDiv
    <2>2. Stage!StagedH(in) = w + k - u /\ Stage!StagedW(in) = 1 /\ Stage!StoredChannels(in) = 1
        BY <1>6, <1>7, <2>1 DEF Stage!StagedH, Stage!StagedW, Stage!StoredChannels
    <2>3. w + k - u \in Int
        BY <1>2, <1>4
    <2> HIDE DEF in
    <2> QED BY <2>2, <2>3 DEF Stage!StagedBytes
<1>9. \/ StripeBytes(c, h, i, n) = (w + k - u) + (e - a) + 1
      \/ StripeBytes(c, h, i, n) = (w + k - u) + 0 + 1
    BY <1>1, <1>8 DEF StripeBytes, PaddingSeed
<1> QED BY <1>2, <1>4, <1>9

\* The transient size reserved covers the partial sums and the stripes of every
\* operation (WorkspaceReservation).
LEMMA TransientCovers ==
    ASSUME NEW c, NEW h, IsWalk(c, h), HasSizes(c)
    PROVE  /\ Transient(c, h) \in Nat
           /\ \A i \in Ops(c) : /\ StripeSize(c, h, i) \in Nat
                                /\ c.ops[i].partial + StripeSize(c, h, i) <= Transient(c, h)
<1>1. PICK n : n = Len(c.ops) /\ n \in Nat \ {0} /\ Ops(c) = 1..n
    BY OperationsOfWalk
<1>2. ASSUME NEW i \in 1..n PROVE StripeSize(c, h, i) \in Nat
    <2>1. CASE ~c.ops[i].linebuffer
        BY <2>1 DEF StripeSize
    <2>2. CASE c.ops[i].linebuffer
        <3>1. PICK q : q = Stripes(c, h, i) /\ q \in Nat \ {0}
            BY <1>1, OperationsOfWalk
        <3> DEFINE bytes == [k \in 0..(q - 1) |-> StripeBytes(c, h, i, k)]
                   S == {bytes[k] : k \in 0..(q - 1)}
        <3>2. ASSUME NEW k \in 0..(q - 1) PROVE bytes[k] \in Nat
            <4>1. i \in Ops(c) /\ c.ops[i].spillOut \in BOOLEAN /\ k \in Nat /\ k < q
                BY <1>1, <3>1 DEF HasSizes
            <4> QED BY <3>1, <4>1, StripeBytesTyped
        <3>3. S \in SUBSET Nat /\ S # {}
            <4>1. 0 \in 0..(q - 1)
                BY <3>1
            <4> HIDE DEF bytes
            <4> QED BY <3>2, <4>1
        <3>4. IsFiniteSet(S)
            <4>1. IsFiniteSet(0..(q - 1))
                BY <3>1, FS_Interval
            <4> HIDE DEF bytes
            <4> QED BY <4>1, FiniteImage
        <3>5. StripeSize(c, h, i) = Max(S)
            <4>1. S = {StripeBytes(c, h, i, k) : k \in 0..(q - 1)}
                OBVIOUS
            <4> HIDE DEF S
            <4> QED BY <2>2, <3>1, <4>1 DEF StripeSize
        <3> HIDE DEF S
        <3> QED BY <3>3, <3>4, <3>5, GreatestNatural
    <2> QED BY <2>1, <2>2
<1> DEFINE size == [i \in 1..n |-> TransientSize(c, h, i)]
           S == {size[i] : i \in 1..n}
<1>3. ASSUME NEW i \in 1..n PROVE size[i] \in Nat /\ size[i] = c.ops[i].partial + StripeSize(c, h, i)
    <2>1. c.ops[i].partial \in Nat
        BY <1>1 DEF HasSizes
    <2> QED BY <1>2, <2>1 DEF TransientSize
<1>4. S \in SUBSET Nat /\ S # {} /\ IsFiniteSet(S)
    <2>1. IsFiniteSet(1..n) /\ 1 \in 1..n
        BY <1>1, IndicesCounted
    <2> HIDE DEF size
    <2>2. S \in SUBSET Nat
        BY <1>3
    <2>3. S # {}
        BY <2>1
    <2>4. IsFiniteSet(S)
        BY <2>1, FiniteImage
    <2> QED BY <2>2, <2>3, <2>4
<1>5. Transient(c, h) = Max(S)
    <2>1. S = {TransientSize(c, h, i) : i \in 1..n}
        OBVIOUS
    <2> HIDE DEF S
    <2> QED BY <1>1, <2>1 DEF Transient
<1>6. Max(S) \in Nat /\ \A x \in S : x <= Max(S)
    <2> HIDE DEF S
    <2> QED BY <1>4, GreatestNatural
<1>7. ASSUME NEW i \in 1..n PROVE size[i] <= Max(S)
    BY <1>6
<1> HIDE DEF S, size
<1> QED BY <1>1, <1>2, <1>3, <1>5, <1>6, <1>7

-----------------------------------------------------------------------------
(* Selecting a workspace.                                                  *)

\* The ranges fill the memory below k.
Stacked(occupied, k) ==
    /\ \A r \in occupied : r[1] \in Nat /\ r[2] \in Nat /\ r[1] < r[2] /\ r[2] <= k
    /\ \A b \in 0..(k - 1) : \E r \in occupied : r[1] <= b /\ b < r[2]

\* Then the next part goes on top (allocatePart).
LEMMA PartsStack ==
    ASSUME NEW occupied, NEW k \in Nat, Stacked(occupied, k), NEW bytes \in Nat, NEW base,
           base = FirstFit(occupied, bytes)
    PROVE  /\ base \in Nat /\ base + bytes <= k + bytes
           /\ Stacked(occupied \cup Part(base, bytes), k + bytes)
<1>1. CASE bytes = 0
    BY <1>1 DEF FirstFit, Part
<1>2. CASE bytes # 0
    <2> DEFINE S == {b \in {0} \cup {r[2] : r \in occupied} :
                        \A r \in occupied : b + bytes <= r[1] \/ r[2] <= b}
    <2>1. ASSUME NEW b \in S PROVE b \in Nat /\ k <= b
        <3>1. b \in Nat
            BY DEF Stacked
        <3>2. ASSUME b < k PROVE FALSE
            <4>1. PICK r \in occupied : r[1] <= b /\ b < r[2]
                BY <3>1, <3>2 DEF Stacked
            <4> QED BY <1>2, <3>1, <4>1 DEF Stacked
        <3> QED BY <3>1, <3>2
    <2>2. k \in S
        <3>1. k \in {0} \cup {r[2] : r \in occupied}
            <4>1. CASE k # 0
                <5>1. PICK r \in occupied : r[1] <= k - 1 /\ k - 1 < r[2]
                    BY <4>1, k - 1 \in 0..(k - 1) DEF Stacked
                <5>2. r[2] = k
                    BY <5>1 DEF Stacked
                <5> QED BY <5>2
            <4> QED BY <4>1
        <3> QED BY <3>1 DEF Stacked
    <2>3. base = Min(S)
        BY <1>2 DEF FirstFit
    <2>4. base = k
        <3>1. S \in SUBSET Nat /\ S # {}
            BY <2>1, <2>2
        <3> HIDE DEF S
        <3>2. Min(S) \in S /\ Min(S) <= k
            BY <2>2, <3>1, LeastNatural
        <3> QED BY <2>1, <2>3, <3>2
    <2>5. Part(base, bytes) = {<<k, k + bytes>>}
        BY <1>2, <2>4 DEF Part
    <2>6. Stacked(occupied \cup {<<k, k + bytes>>}, k + bytes)
        <3>1. \A r \in occupied \cup {<<k, k + bytes>>} :
                  r[1] \in Nat /\ r[2] \in Nat /\ r[1] < r[2] /\ r[2] <= k + bytes
            BY <1>2 DEF Stacked
        <3>2. ASSUME NEW b \in 0..(k + bytes - 1)
              PROVE  \E r \in occupied \cup {<<k, k + bytes>>} : r[1] <= b /\ b < r[2]
            <4>1. CASE b < k
                BY <4>1, b \in 0..(k - 1) DEF Stacked
            <4>2. CASE k <= b
                <5>1. PICK r : r = <<k, k + bytes>>
                    OBVIOUS
                <5> QED BY <4>2, <5>1
            <4> QED BY <4>1, <4>2
        <3> QED BY <3>1, <3>2 DEF Stacked
    <2> QED BY <2>4, <2>5, <2>6
<1> QED BY <1>1, <1>2

\* The live tensors, one below the other, fill the memory below their size.
LEMMA LiveStacked ==
    ASSUME NEW c, HasSizes(c), c.live = Part(0, LiveBytes(c))
    PROVE  LiveBytes(c) \in Nat /\ Stacked(c.live, LiveBytes(c))
<1>1. PICK n : n = LiveBytes(c)
    OBVIOUS
<1>2. CASE n = 0
    BY <1>1, <1>2 DEF Part, Stacked
<1>3. CASE n # 0
    <2>1. PICK r : c.live = {r} /\ r = <<0, 0 + n>> /\ r \in Nat \X Nat
        BY <1>1, <1>3 DEF Part, HasSizes
    <2>2. n = 0 + r[2] - r[1]
        <3> DEFINE Folds(f) ==
                f = [s \in SUBSET {r} |->
                        IF s = {} THEN 0 ELSE f[s \ {First(s)}] + First(s)[2] - First(s)[1]]
        <3>1. First({r}) = r
            BY FirstIsMember
        <3>2. \E f : Folds(f)
            <4> DEFINE g == [s \in SUBSET {r} |-> IF s = {} THEN 0 ELSE 0 + r[2] - r[1]]
            <4>1. \A s \in SUBSET {r} : s = {} \/ s = {r}
                OBVIOUS
            <4>2. g[{}] = 0
                OBVIOUS
            <4>3. ASSUME NEW s \in SUBSET {r}
                  PROVE  g[s] = IF s = {} THEN 0 ELSE g[s \ {First(s)}] + First(s)[2] - First(s)[1]
                <5>1. CASE s = {r}
                    BY <3>1, <4>2, <5>1
                <5> QED BY <4>1, <5>1
            <4>4. Folds(g)
                BY <4>3
            <4> HIDE DEF g, Folds
            <4> QED BY <4>4
        <3>3. PICK f : f = (CHOOSE g : Folds(g)) /\ Folds(f)
            BY <3>2
        <3>4. LiveBytes(c) = f[{r}]
            BY <2>1, <3>3 DEF LiveBytes, FoldSet, MapThenFoldSet, First
        <3>5. f[{r}] = f[{}] + r[2] - r[1] /\ f[{}] = 0
            <4>1. \A s \in SUBSET {r} :
                      f[s] = IF s = {} THEN 0 ELSE f[s \ {First(s)}] + First(s)[2] - First(s)[1]
                BY <3>3
            <4>2. {r} \ {r} = {} /\ {r} \in SUBSET {r} /\ {} \in SUBSET {r} /\ {r} # {}
                OBVIOUS
            <4>3. f[{}] = 0
                BY <4>1, <4>2
            <4>4. f[{r}] = f[{r} \ {First({r})}] + First({r})[2] - First({r})[1]
                BY <4>1, <4>2
            <4> QED BY <3>1, <4>2, <4>3, <4>4
        <3> QED BY <1>1, <3>4, <3>5
    <2>3. n \in Nat
        BY <2>1, <2>2
    <2>4. Stacked({r}, n)
        BY <1>3, <2>1, <2>3 DEF Stacked
    <2> QED BY <1>1, <2>1, <2>3, <2>4
<1> QED BY <1>2, <1>3

\* A workspace that is selected on top of what is taken reaches no higher than
\* all its parts, and of them the weights and the kept rows stay.
LEMMA PlacementStacks ==
    ASSUME NEW i, NEW s, s = Sizes(i), NEW p, p = Placement(i),
           s.stage \in Nat, s.halo \in Nat, s.partial \in Nat, s.stripe \in Nat,
           NEW k \in Nat, Stacked(cascade.live \cup kept, k),
           k + s.stage + s.halo + s.partial + s.stripe <= cascade.tcdm, cascade.tcdm \in Nat
    PROVE  /\ FitsMemory(p, s)
           /\ Stacked(cascade.live \cup (kept \cup KeptParts(p, s)), k + s.stage + s.halo)
<1>1. PICK t1, t2, t3, t4 :
          /\ t1 = cascade.live \cup kept
          /\ t2 = t1 \cup Part(FirstFit(t1, s.stage), s.stage)
          /\ t3 = t2 \cup Part(FirstFit(t2, s.halo), s.halo)
          /\ t4 = t3 \cup Part(FirstFit(t3, s.partial), s.partial)
    OBVIOUS
<1>2. /\ p.stage = FirstFit(t1, s.stage) /\ p.halo = FirstFit(t2, s.halo)
      /\ p.partial = FirstFit(t3, s.partial) /\ p.stripe = FirstFit(t4, s.stripe)
    BY <1>1 DEF Placement
<1>3. PICK k2, k3, k4 : k2 = k + s.stage /\ k3 = k2 + s.halo /\ k4 = k3 + s.partial
    OBVIOUS
<1>4. k2 \in Nat /\ k3 \in Nat /\ k4 \in Nat
    BY <1>3
<1>5. p.stage \in Nat /\ p.stage + s.stage <= k2 /\ Stacked(t2, k2)
    <2>1. Stacked(t1, k)
        BY <1>1
    <2>2. /\ p.stage \in Nat /\ p.stage + s.stage <= k + s.stage
          /\ Stacked(t1 \cup Part(p.stage, s.stage), k + s.stage)
        BY <1>2, <2>1, PartsStack
    <2> QED BY <1>1, <1>2, <1>3, <2>2
<1>6. p.halo \in Nat /\ p.halo + s.halo <= k3 /\ Stacked(t3, k3)
    <2>1. Stacked(t2, k2)
        BY <1>5
    <2>2. /\ p.halo \in Nat /\ p.halo + s.halo <= k2 + s.halo
          /\ Stacked(t2 \cup Part(p.halo, s.halo), k2 + s.halo)
        BY <1>2, <1>4, <2>1, PartsStack
    <2> QED BY <1>1, <1>2, <1>3, <2>2
<1>7. p.partial \in Nat /\ p.partial + s.partial <= k4 /\ Stacked(t4, k4)
    <2>1. Stacked(t3, k3)
        BY <1>6
    <2>2. /\ p.partial \in Nat /\ p.partial + s.partial <= k3 + s.partial
          /\ Stacked(t3 \cup Part(p.partial, s.partial), k3 + s.partial)
        BY <1>2, <1>4, <2>1, PartsStack
    <2> QED BY <1>1, <1>2, <1>3, <2>2
<1>8. p.stripe \in Nat /\ p.stripe + s.stripe <= k4 + s.stripe
    <2>1. Stacked(t4, k4)
        BY <1>7
    <2>2. /\ p.stripe \in Nat /\ p.stripe + s.stripe <= k4 + s.stripe
          /\ Stacked(t4 \cup Part(p.stripe, s.stripe), k4 + s.stripe)
        BY <1>2, <1>4, <2>1, PartsStack
    <2> QED BY <1>1, <1>2, <1>3, <2>2
<1>9. FitsMemory(p, s)
    <2>1. /\ p.stage + s.stage <= cascade.tcdm /\ p.halo + s.halo <= cascade.tcdm
          /\ p.partial + s.partial <= cascade.tcdm /\ p.stripe + s.stripe <= cascade.tcdm
        BY <1>3, <1>4, <1>5, <1>6, <1>7, <1>8
    <2> QED BY <2>1 DEF FitsMemory, Ends
<1>10. t3 = cascade.live \cup (kept \cup KeptParts(p, s)) /\ k3 = k + s.stage + s.halo
    BY <1>1, <1>2, <1>3 DEF KeptParts
<1> QED BY <1>6, <1>9, <1>10

-----------------------------------------------------------------------------
(* Room for all workspaces.                                                *)

\* What is reserved for a cascade fits below the memory's end.
Reserved(c, h) ==
    /\ c.live = Part(0, LiveBytes(c))
    /\ LiveBytes(c) + Persistent(c) + Transient(c, h) <= c.tcdm

SumsOf(c) == CHOOSE f : StageSums(c, f) /\ Persistent(c) = f[Len(c.ops)]

\* How high the memory is filled when m operations have their workspaces.
Filled(c, h, m) == LiveBytes(c) + SumsOf(c)[m] + (IF m = 0 THEN 0 ELSE HaloSize(c, h))

\* The first m operations have run; each that needs a workspace has one.
RoomFor(m) ==
    /\ \A i \in Ops(cascade) : (next[i] = 0) <=> (m < i)
    /\ opIndex <= m + 1
    /\ Stacked(cascade.live \cup kept, Filled(cascade, stripe, m))
    /\ \A i \in Ops(cascade) :
          i <= m /\ Total(Sizes(i)) # 0 => place[i] # <<>> /\ FitsMemory(place[i], Sizes(i))
    /\ \A i \in Ops(cascade) : m < i => place[i] = <<>>

RoomInv ==
    /\ DOMAIN place = Ops(cascade)
    /\ Reserved(cascade, stripe) =>
          /\ ~refused
          /\ phase = "run" => \E m \in 0..Len(cascade.ops) : RoomFor(m)

\* Each operation adds what it keeps, and all of it stays below what the
\* largest of the others needs beside it.
LEMMA RoomAdds ==
    ASSUME NEW c, NEW h, IsWalk(c, h), HasSizes(c), Reserved(c, h)
    PROVE  /\ LiveBytes(c) \in Nat /\ HaloSize(c, h) \in Nat
           /\ \A m \in 0..Len(c.ops) : Filled(c, h, m) \in Nat
           /\ \A i \in Ops(c) :
                 /\ c.ops[i].stage \in Nat /\ c.ops[i].partial \in Nat /\ StripeSize(c, h, i) \in Nat
                 /\ Filled(c, h, i) = Filled(c, h, i - 1) + c.ops[i].stage
                                        + (IF i = 1 THEN HaloSize(c, h) ELSE 0)
                 /\ Filled(c, h, i) + c.ops[i].partial + StripeSize(c, h, i) <= c.tcdm
<1>1. PICK n, l, t, p, x : /\ n = Len(c.ops) /\ l = LiveBytes(c) /\ t = Transient(c, h)
                           /\ p = Persistent(c) /\ x = HaloSize(c, h)
    OBVIOUS
<1>2. PICK f : f = SumsOf(c) /\ StageSums(c, f) /\ p = f[n]
    <2>1. \E f : StageSums(c, f) /\ Persistent(c) = f[Len(c.ops)]
        BY SumsExist DEF IsWalk
    <2> QED BY <1>1, <2>1 DEF SumsOf
<1>3. /\ n \in Nat \ {0} /\ Ops(c) = 1..n /\ l \in Nat /\ t \in Nat /\ p \in Nat /\ c.tcdm \in Nat
      /\ l + p + t <= c.tcdm
      /\ \A m \in 0..n : f[m] \in Nat /\ f[m] <= p
    <2>1. n \in Nat \ {0} /\ Ops(c) = 1..n
        BY <1>1, OperationsOfWalk
    <2>2. l \in Nat
        BY <1>1, LiveStacked DEF Reserved
    <2>3. t \in Nat
        BY <1>1, TransientCovers
    <2>4. \A m \in 0..n : f[m] \in Nat /\ f[n] \in Nat /\ f[m] <= f[n]
        BY <1>1, <1>2, SumsGrow DEF IsWalk
    <2> QED BY <1>1, <1>2, <2>1, <2>2, <2>3, <2>4 DEF Reserved, HasSizes
<1>4. x \in Nat /\ l + p + x + t <= c.tcdm
    <2>1. PICK r : r = HaloRows(c) /\ r \in Nat
        <3>1. c.ops[1].kernel \in Nat /\ c.ops[1].stride \in Nat
            BY <1>3, OperationTyped, 1 \in Ops(c)
        <3> QED BY <3>1 DEF HaloRows, AtLeast
    <2>2. PICK left \in Int : left = c.tcdm - l - p - t /\ left >= 0
        <3>1. l \in Nat /\ t \in Nat /\ p \in Nat /\ c.tcdm \in Nat /\ l + p + t <= c.tcdm
            BY <1>3
        <3> QED BY <3>1
    <2>3. x = AtMost(r, AtLeast(0, left))
        BY <1>1, <2>1, <2>2 DEF HaloSize
    <2>4. AtLeast(0, left) = left
        BY <2>2 DEF AtLeast
    <2>5. x \in Nat /\ x <= left
        BY <2>1, <2>2, <2>3, <2>4 DEF AtMost
    <2>6. l \in Nat /\ t \in Nat /\ p \in Nat /\ c.tcdm \in Nat
        BY <1>3
    <2> QED BY <2>2, <2>5, <2>6
<1>5. ASSUME NEW m \in 0..n PROVE Filled(c, h, m) = l + f[m] + (IF m = 0 THEN 0 ELSE x)
    BY <1>1, <1>2 DEF Filled
<1>6. ASSUME NEW i \in 1..n
      PROVE  /\ c.ops[i].stage \in Nat /\ c.ops[i].partial \in Nat /\ StripeSize(c, h, i) \in Nat
             /\ Filled(c, h, i) = Filled(c, h, i - 1) + c.ops[i].stage + (IF i = 1 THEN x ELSE 0)
             /\ Filled(c, h, i) + c.ops[i].partial + StripeSize(c, h, i) <= c.tcdm
    <2>1. PICK g, q, z : g = c.ops[i].stage /\ q = c.ops[i].partial /\ z = StripeSize(c, h, i)
        OBVIOUS
    <2>2. g \in Nat /\ q \in Nat
        BY <1>3, <2>1 DEF HasSizes
    <2>3. z \in Nat /\ q + z <= t
        BY <1>1, <1>3, <2>1, TransientCovers
    <2>4. f[i] = f[i - 1] + g
        BY <1>2, <1>3, <2>1 DEF StageSums
    <2>5. i - 1 \in 0..n /\ i \in 0..n /\ i # 0 /\ (i - 1 = 0 <=> i = 1)
        BY <1>3
    <2>6. f[i - 1] \in Nat /\ f[i] \in Nat /\ f[i] <= p
        BY <1>3, <2>5
    <2>7. Filled(c, h, i) = l + f[i] + x
        BY <1>5, <2>5
    <2>8. Filled(c, h, i - 1) = l + f[i - 1] + (IF i = 1 THEN 0 ELSE x)
        BY <1>5, <2>5
    <2>9. PICK before, after : before = f[i - 1] /\ after = f[i]
        OBVIOUS
    <2>10. /\ before \in Nat /\ after = before + g /\ after <= p /\ p \in Nat /\ l \in Nat
           /\ x \in Nat /\ t \in Nat /\ c.tcdm \in Nat /\ l + p + x + t <= c.tcdm
        BY <1>3, <1>4, <2>4, <2>6, <2>9
    <2>11. Filled(c, h, i) = Filled(c, h, i - 1) + g + (IF i = 1 THEN x ELSE 0)
        <3>1. CASE i = 1
            BY <2>2, <2>7, <2>8, <2>9, <2>10, <3>1
        <3>2. CASE i # 1
            BY <2>2, <2>7, <2>8, <2>9, <2>10, <3>2
        <3> QED BY <3>1, <3>2
    <2>12. Filled(c, h, i) + q + z <= c.tcdm
        <3>1. Filled(c, h, i) = l + after + x
            BY <2>7, <2>9
        <3> QED BY <2>2, <2>3, <2>10, <3>1
    <2> QED BY <2>1, <2>2, <2>3, <2>11, <2>12
<1>7. ASSUME NEW m \in 0..n PROVE Filled(c, h, m) \in Nat
    <2>1. PICK v : v = f[m] /\ v \in Nat
        BY <1>3
    <2>2. Filled(c, h, m) = l + v + 0 \/ Filled(c, h, m) = l + v + x
        BY <1>5, <2>1
    <2>3. l \in Nat /\ x \in Nat
        BY <1>3, <1>4
    <2> QED BY <2>1, <2>2, <2>3
<1> QED BY <1>1, <1>3, <1>4, <1>6, <1>7

\* The order of the stripes is that of the walk, whatever the memory.
LEMMA WorkspacesWalk == WorkspaceSpec => Spec
<1>1. WorkspaceInit => Init
    BY DEF WorkspaceInit
<1>2. [WorkspaceNext]_<<vars, workspaceVars>> => [Next]_vars
    BY DEF WorkspaceNext, RunStripe, Next
<1> QED BY <1>1, <1>2, PTL DEF WorkspaceSpec, Spec

LEMMA WorkspacesBegin == WorkspaceInit /\ WalkInv => RoomInv
<1> SUFFICES ASSUME WorkspaceInit, WalkInv PROVE RoomInv
    OBVIOUS
<1>1. DOMAIN place = Ops(cascade) /\ ~refused /\ kept = {}
    BY DEF WorkspaceInit
<1>2. ASSUME Reserved(cascade, stripe) PROVE RoomFor(0) /\ 0 \in 0..Len(cascade.ops)
    <2>1. PICK c, h, n : c = cascade /\ h = stripe /\ n = Len(c.ops)
        OBVIOUS
    <2>2. IsWalk(c, h) /\ HasSizes(c) /\ n \in Nat \ {0} /\ Ops(c) = 1..n
        BY <2>1, SizesAssumption, OperationsOfWalk DEF WalkInv, WalkTyped
    <2>3. Filled(c, h, 0) = LiveBytes(c)
        <3>1. \E f : StageSums(c, f) /\ Persistent(c) = f[Len(c.ops)]
            BY <2>2, SumsExist DEF IsWalk
        <3>2. SumsOf(c)[0] = 0
            BY <3>1 DEF SumsOf, StageSums
        <3>3. LiveBytes(c) \in Nat
            BY <1>2, <2>1, <2>2, LiveStacked DEF Reserved
        <3> QED BY <3>2, <3>3 DEF Filled
    <2>4. Stacked(cascade.live \cup kept, Filled(c, h, 0))
        <3>1. Stacked(c.live, LiveBytes(c))
            BY <1>2, <2>1, <2>2, LiveStacked DEF Reserved
        <3>2. cascade.live \cup kept = c.live
            BY <1>1, <2>1
        <3> QED BY <2>3, <3>1, <3>2
    <2>5. /\ \A i \in Ops(cascade) : next[i] = 0 /\ place[i] = <<>> /\ 0 < i /\ ~(i <= 0)
          /\ opIndex = 1
        BY <2>1, <2>2 DEF WorkspaceInit, Init
    <2> QED BY <2>1, <2>2, <2>4, <2>5 DEF RoomFor
<1> QED BY <1>1, <1>2 DEF RoomInv

\* The sizes of the workspace of an operation.
LEMMA SizesTyped ==
    ASSUME NEW c, NEW h, c = cascade, h = stripe, IsWalk(c, h), HasSizes(c), Reserved(c, h),
           NEW i \in Ops(c), NEW s, s = Sizes(i)
    PROVE  /\ s.stage \in Nat /\ s.halo \in Nat /\ s.partial \in Nat /\ s.stripe \in Nat
           /\ Filled(c, h, i - 1) \in Nat
           /\ Filled(c, h, i) = Filled(c, h, i - 1) + s.stage + s.halo
           /\ Filled(c, h, i) + s.partial + s.stripe <= c.tcdm
<1>1. /\ s.stage = c.ops[i].stage /\ s.halo = IF i = 1 THEN HaloSize(c, h) ELSE 0
      /\ s.partial = c.ops[i].partial /\ s.stripe = StripeSize(c, h, i)
    BY DEF Sizes, Op
<1>2. i - 1 \in 0..Len(c.ops)
    BY OperationsOfWalk
<1> QED BY <1>1, <1>2, RoomAdds

\* The operation whose stripe is next has room, and leaves room for the others.
LEMMA StripeFindsRoom ==
    ASSUME WalkInv, DOMAIN place = Ops(cascade), Reserved(cascade, stripe),
           NEW m \in 0..Len(cascade.ops), RoomFor(m),
           NEW i, i = opIndex, NEW s, s = Sizes(i), Total(s) # 0,
           NEW p, p = IF place[i] = <<>> THEN Placement(i) ELSE place[i]
    PROVE  /\ FitsMemory(p, s)
           /\ place[i] = <<>> => i = m + 1
           /\ i = m + 1 => place[i] = <<>>
           /\ i = m + 1 => Stacked(cascade.live \cup (kept \cup KeptParts(p, s)), Filled(cascade, stripe, i))
<1>1. PICK c, h, n : c = cascade /\ h = stripe /\ n = Len(c.ops)
    OBVIOUS
<1>2. /\ IsWalk(c, h) /\ HasSizes(c) /\ n \in Nat \ {0} /\ Ops(c) = 1..n /\ i \in 1..n
      /\ c.tcdm \in Nat
    BY <1>1, SizesAssumption, OperationsOfWalk DEF WalkInv, WalkTyped, HasSizes
<1>3. /\ s.stage \in Nat /\ s.halo \in Nat /\ s.partial \in Nat /\ s.stripe \in Nat
      /\ Filled(c, h, i - 1) \in Nat
      /\ Filled(c, h, i) = Filled(c, h, i - 1) + s.stage + s.halo
      /\ Filled(c, h, i) + s.partial + s.stripe <= c.tcdm
    BY <1>1, <1>2, SizesTyped
<1>4. i <= m \/ i = m + 1
    BY <1>1, <1>2 DEF RoomFor
<1>5. CASE i <= m
    <2>1. place[i] # <<>> /\ FitsMemory(place[i], s)
        BY <1>1, <1>2, <1>5 DEF RoomFor
    <2> QED BY <1>2, <1>5, <2>1
<1>6. CASE i = m + 1
    <2>1. place[i] = <<>>
        BY <1>1, <1>2, <1>6 DEF RoomFor
    <2>2. p = Placement(i)
        BY <2>1
    <2>3. PICK k : k = Filled(c, h, m)
        OBVIOUS
    <2>4. m = i - 1
        BY <1>2, <1>6
    <2>5. k \in Nat /\ Filled(c, h, i) = k + s.stage + s.halo
        BY <1>3, <2>3, <2>4
    <2>6. Stacked(cascade.live \cup kept, k)
        BY <1>1, <2>3 DEF RoomFor
    <2>7. k + s.stage + s.halo + s.partial + s.stripe <= cascade.tcdm /\ cascade.tcdm \in Nat
        BY <1>1, <1>2, <1>3, <2>5
    <2>8. /\ FitsMemory(p, s)
          /\ Stacked(cascade.live \cup (kept \cup KeptParts(p, s)), k + s.stage + s.halo)
        BY <1>3, <2>2, <2>5, <2>6, <2>7, PlacementStacks
    <2> QED BY <1>1, <1>6, <2>1, <2>5, <2>8
<1> QED BY <1>4, <1>5, <1>6

LEMMA RunKeepsRoom == WalkInv /\ WalkInv' /\ RoomInv /\ RunStripe => RoomInv'
<1> SUFFICES ASSUME WalkInv, WalkInv', RoomInv, RunStripe PROVE RoomInv'
    OBVIOUS
<1>1. PICK c, h, n, i : c = cascade /\ h = stripe /\ n = Len(c.ops) /\ i = opIndex
    OBVIOUS
<1>2. phase = "run" /\ cascade' = c /\ stripe' = h
    BY <1>1 DEF RunStripe, EmitStripe, Emit, Refuse
<1>3. /\ IsWalk(c, h) /\ HasSizes(c) /\ n \in Nat \ {0} /\ Ops(c) = 1..n /\ i \in 1..n
      /\ next \in [1..n -> Nat]
    BY <1>1, SizesAssumption, OperationsOfWalk DEF WalkInv, WalkTyped
<1>4. PICK s, p : s = Sizes(i) /\ p = IF place[i] = <<>> THEN Placement(i) ELSE place[i]
    OBVIOUS
<1>5. \A j : Sizes(j)' = Sizes(j)
    BY <1>1, <1>2 DEF Sizes, Op
<1>6. \/ Total(s) = 0 /\ UNCHANGED workspaceVars
      \/ /\ Total(s) # 0 /\ ~FitsMemory(p, s)
         /\ refused' = TRUE /\ UNCHANGED <<place, kept>>
      \/ /\ Total(s) # 0 /\ FitsMemory(p, s)
         /\ place' = [place EXCEPT ![i] = p]
         /\ kept' = IF place[i] = <<>> THEN kept \cup KeptParts(p, s) ELSE kept
         /\ refused' = refused
    BY <1>1, <1>4 DEF RunStripe
<1>7. DOMAIN place' = Ops(cascade')
    BY <1>1, <1>2, <1>6 DEF RoomInv, workspaceVars
<1>8. ASSUME Reserved(cascade', stripe')
      PROVE  ~refused' /\ (phase' = "run" => \E m \in 0..n : RoomFor(m)')
    <2>1. Reserved(c, h) /\ ~refused /\ DOMAIN place = Ops(c)
        BY <1>1, <1>2, <1>8 DEF RoomInv
    <2>2. PICK m \in 0..n : RoomFor(m)
        BY <1>1, <1>2, <2>1 DEF RoomInv
    <2>3. Total(s) # 0 => /\ FitsMemory(p, s)
                          /\ place[i] = <<>> => i = m + 1
                          /\ i = m + 1 => place[i] = <<>>
                          /\ i = m + 1 => Stacked(c.live \cup (kept \cup KeptParts(p, s)), Filled(c, h, i))
        BY <1>1, <1>4, <2>1, <2>2, StripeFindsRoom
    <2>4. ~refused'
        BY <1>6, <2>1, <2>3 DEF workspaceVars
    <2>5. ASSUME phase' = "run" PROVE \E k \in 0..n : RoomFor(k)'
        <3>1. PICK k : k = IF i = m + 1 THEN i ELSE m
            OBVIOUS
        <3>2. i <= m \/ i = m + 1
            BY <1>1, <1>3, <2>2 DEF RoomFor
        <3>3. k \in 0..n /\ m <= k /\ i <= k
            BY <1>3, <2>2, <3>1, <3>2
        <3>4. /\ next'[i] = next[i] + 1 /\ opIndex' <= i + 1
              /\ \A j \in 1..n \ {i} : next'[j] = next[j]
            <4>1. Emit
                BY <2>5 DEF RunStripe, EmitStripe, Refuse
            <4>2. opIndex' = i \/ opIndex' = i + 1
                BY <1>1, <4>1 DEF Emit
            <4> QED BY <1>1, <1>3, <4>1, <4>2 DEF Emit
        <3>5. \A j \in 1..n : (next'[j] = 0) <=> (k < j)
            <4> SUFFICES ASSUME NEW j \in 1..n PROVE (next'[j] = 0) <=> (k < j)
                OBVIOUS
            <4>1. (next[j] = 0) <=> (m < j)
                BY <1>1, <1>3, <2>2 DEF RoomFor
            <4> QED BY <1>3, <2>2, <3>1, <3>2, <3>4, <4>1
        <3>6. opIndex' <= k + 1
            <4>1. opIndex' \in Nat
                BY <1>2, <1>3 DEF WalkInv, WalkTyped
            <4> QED BY <1>3, <3>3, <3>4, <4>1
        <3>7. Total(s) = 0 => s.stage = 0 /\ s.halo = 0
            <4>1. s.stage \in Nat /\ s.halo \in Nat /\ s.partial \in Nat /\ s.stripe \in Nat
                BY <1>1, <1>3, <1>4, <2>1, SizesTyped
            <4>2. PICK a, b, d, e : a = s.stage /\ b = s.halo /\ d = s.partial /\ e = s.stripe
                OBVIOUS
            <4>3. a \in Nat /\ b \in Nat /\ d \in Nat /\ e \in Nat /\ Total(s) = a + b + d + e
                BY <4>1, <4>2 DEF Total
            <4>4. a + b + d + e = 0 => a = 0 /\ b = 0
                BY <4>3
            <4> QED BY <4>2, <4>3, <4>4
        <3>8. Stacked(c.live \cup kept', Filled(c, h, k))
            <4>1. Stacked(c.live \cup kept, Filled(c, h, m))
                BY <1>1, <2>2 DEF RoomFor
            <4>2. CASE i # m + 1
                <5>1. kept' = kept /\ k = m
                    BY <1>6, <2>3, <3>1, <4>2 DEF workspaceVars
                <5> QED BY <4>1, <5>1
            <4>3. CASE i = m + 1 /\ Total(s) # 0
                BY <1>6, <2>3, <3>1, <4>3
            <4>4. CASE i = m + 1 /\ Total(s) = 0
                <5>1. kept' = kept /\ m = i - 1
                    BY <1>3, <1>6, <2>2, <4>4 DEF workspaceVars
                <5>2. Filled(c, h, i) = Filled(c, h, i - 1) + s.stage + s.halo /\ Filled(c, h, i - 1) \in Nat
                    BY <1>1, <1>3, <1>4, <2>1, SizesTyped
                <5>3. Filled(c, h, i) = Filled(c, h, m)
                    BY <3>7, <4>4, <5>1, <5>2
                <5> QED BY <3>1, <4>1, <4>4, <5>1, <5>3
            <4> QED BY <4>2, <4>3, <4>4
        <3>13. \A j \in 1..n \ {i} : place'[j] = place[j]
            BY <1>3, <1>6, <2>1 DEF workspaceVars
        <3>9. ASSUME NEW j \in 1..n, j <= k, Total(Sizes(j)) # 0
              PROVE  place'[j] # <<>> /\ FitsMemory(place'[j], Sizes(j))
            <4>1. CASE j # i
                <5>1. j <= m
                    BY <1>3, <2>2, <3>1, <3>9, <4>1
                <5>2. place'[j] = place[j]
                    BY <3>13, <4>1
                <5> QED BY <1>1, <1>3, <2>2, <3>9, <5>1, <5>2 DEF RoomFor
            <4>2. CASE j = i
                <5>1. Total(s) # 0 /\ place'[i] = p
                    BY <1>3, <1>4, <1>6, <2>1, <2>3, <3>9, <4>2
                <5>2. p # <<>>
                    BY <1>4 DEF Placement
                <5> QED BY <1>4, <2>3, <4>2, <5>1, <5>2
            <4> QED BY <4>1, <4>2
        <3>10. ASSUME NEW j \in 1..n, k < j PROVE place'[j] = <<>>
            <4>1. j # i /\ m < j
                BY <1>3, <2>2, <3>3, <3>10
            <4>2. place'[j] = place[j]
                BY <3>13, <4>1
            <4> QED BY <1>1, <1>3, <2>2, <4>1, <4>2 DEF RoomFor
        <3>11. \A j \in 1..n : FitsMemory(place[j], Sizes(j))' <=> FitsMemory(place'[j], Sizes(j))
            BY <1>1, <1>2, <1>5 DEF FitsMemory, Ends
        <3>12. RoomFor(k)'
            BY <1>1, <1>2, <1>3, <1>5, <3>5, <3>6, <3>8, <3>9, <3>10, <3>11 DEF RoomFor
        <3> QED BY <3>3, <3>12
    <2> QED BY <2>4, <2>5
<1> QED BY <1>1, <1>2, <1>7, <1>8 DEF RoomInv

LEMMA BackKeepsRoom == WalkInv /\ RoomInv /\ StepBack /\ UNCHANGED workspaceVars => RoomInv'
<1> SUFFICES ASSUME WalkInv, RoomInv, StepBack, UNCHANGED workspaceVars PROVE RoomInv'
    OBVIOUS
<1>1. /\ UNCHANGED <<cascade, stripe, next, phase>> /\ opIndex' = opIndex - 1
      /\ UNCHANGED <<place, kept, refused>> /\ opIndex \in Nat
    BY OperationsOfWalk DEF StepBack, workspaceVars, WalkInv, WalkTyped
<1>2. \A j : Sizes(j)' = Sizes(j)
    BY <1>1 DEF Sizes, Op
<1>3. ASSUME NEW m \in 0..Len(cascade.ops), RoomFor(m) PROVE RoomFor(m)'
    <2>1. opIndex' <= m + 1
        BY <1>1, <1>3, OperationsOfWalk DEF RoomFor, WalkInv, WalkTyped
    <2> QED BY <1>1, <1>2, <1>3, <2>1 DEF RoomFor, FitsMemory, Ends
<1> QED BY <1>1, <1>3 DEF RoomInv

\* Every operation of a cascade finds room for its workspace when what was
\* reserved for them fits, and kept rows take only what is left
\* (FitCascadeHaloWorkspaces, SelectWorkspace).
THEOREM ReservationHolds == WorkspaceSpec => []ReservationSuffices
<1>1. WorkspaceSpec => []WalkInv
    BY WorkspacesWalk, WalkCorrect, PTL
<1>2. WalkInv /\ WalkInv' /\ RoomInv /\ [WorkspaceNext]_<<vars, workspaceVars>> => RoomInv'
    <2> SUFFICES ASSUME WalkInv, WalkInv', RoomInv, [WorkspaceNext]_<<vars, workspaceVars>>
                 PROVE  RoomInv'
        OBVIOUS
    <2>1. CASE UNCHANGED <<vars, workspaceVars>>
        <3>1. \A j : Sizes(j)' = Sizes(j)
            BY <2>1 DEF Sizes, Op, vars
        <3>2. UNCHANGED <<cascade, stripe, next, phase, opIndex, place, kept, refused>>
            BY <2>1 DEF vars, workspaceVars
        <3>3. ASSUME NEW m, RoomFor(m) PROVE RoomFor(m)'
            BY <3>1, <3>2, <3>3 DEF RoomFor, FitsMemory, Ends
        <3> QED BY <3>2, <3>3 DEF RoomInv
    <2> QED BY <2>1, RunKeepsRoom, BackKeepsRoom DEF WorkspaceNext
<1>3. WorkspaceSpec => []RoomInv
    BY <1>1, <1>2, WorkspacesBegin, PTL DEF WorkspaceSpec
<1>4. RoomInv => ReservationSuffices
    BY DEF RoomInv, Reserved, ReservationSuffices
<1> QED BY <1>3, <1>4, PTL

\* The workspaces do not disturb the walk: with them too every stripe finds its
\* input, and the walk ends with every stripe run (SelectWorkspace).
THEOREM WorkspacesKeepWalk == WorkspaceSpec => [](InputIsHeld /\ WalkIsComplete)
BY WorkspacesWalk, InputHeld, WalkCompletes, PTL

-----------------------------------------------------------------------------
(* What the generator knows of the memory (CommandMemoryState): the spans  *)
(* say what the words hold, and the queries, which look at one span after  *)
(* the other, answer as the words do.                                      *)

-----------------------------------------------------------------------------
(* Spans and what they say of an address.                                  *)

Spans == [begin : Nat, end : Nat, content : Contents, offset : Nat]

Says(s, a, c, o) == s.begin <= a /\ a < s.end /\ s.content = c /\ o = s.offset + a - s.begin

\* Some span of a list, or of a set, says so.
ListSays(list, a, c, o) == \E k \in 1..Len(list) : Says(list[k], a, c, o)
SetSays(set, a, c, o)   == \E s \in set : Says(s, a, c, o)

\* In order and apart, none of them continued by the next.
IsMaximal(list) ==
    /\ list \in Seq(Spans)
    /\ \A k \in 1..Len(list) : list[k].begin < list[k].end
    /\ \A k \in 1..(Len(list) - 1) :
          list[k].end <= list[k + 1].begin /\ ~Continues(list[k], list[k + 1])

IsApart(set) ==
    /\ set \subseteq Spans
    /\ \A s \in set : s.begin < s.end
    /\ \A s, t \in set : s = t \/ s.end <= t.begin \/ t.end <= s.begin

LEMMA SpanTyped ==
    ASSUME NEW s \in Spans
    PROVE  /\ s.begin \in Nat /\ s.end \in Nat /\ s.offset \in Nat /\ s.content \in Contents
           /\ \A n \in Nat : [s EXCEPT !.end = n] \in Spans
           /\ \A n, m \in Nat : [s EXCEPT !.begin = n, !.offset = m] \in Spans
BY DEF Spans

\* What lies further on in a list lies further on in memory.
LEMMA MaximalOrdered ==
    ASSUME NEW list, IsMaximal(list), NEW i \in 1..Len(list), NEW j \in 1..Len(list), i < j
    PROVE  list[i].end <= list[j].begin
<1>0. PICK n \in Nat : n = Len(list) /\ i \in 1..n /\ j \in 1..n
    BY DEF IsMaximal
<1>1. \A k \in 1..n : /\ list[k].begin \in Nat /\ list[k].end \in Nat
                      /\ list[k].begin < list[k].end
    <2>1. \A k \in 1..n : list[k] \in Spans
        BY <1>0 DEF IsMaximal
    <2> QED BY <1>0, <2>1, SpanTyped DEF IsMaximal
<1>2. \A k \in 1..(n - 1) : list[k].end <= list[k + 1].begin
    BY <1>0 DEF IsMaximal
<1> DEFINE T == {k \in (i + 1)..n : ~(list[i].end <= list[k].begin)}
<1>3. T = {}
    <2> SUFFICES ASSUME T # {} PROVE FALSE
        OBVIOUS
    <2>1. PICK k \in T : \A x \in T : k <= x
        <3>1. T \in SUBSET Nat
            BY <1>0
        <3> HIDE DEF T
        <3> QED BY <3>1, LeastElement
    <2>2. k \in (i + 1)..n /\ ~(list[i].end <= list[k].begin)
        OBVIOUS
    <2>3. k # i + 1
        BY <1>0, <1>2, <2>2
    <2>4. k - 1 \in (i + 1)..n /\ k - 1 \notin T
        <3> HIDE DEF T
        <3> QED BY <1>0, <2>1, <2>2, <2>3
    <2>5. list[i].end <= list[k - 1].begin
        BY <2>4
    <2>6. list[k - 1].end <= list[k].begin
        BY <1>0, <1>2, <2>2, <2>4
    <2>7. k - 1 \in 1..n /\ k \in 1..n
        BY <1>0, <2>2, <2>4
    <2> HIDE DEF T
    <2> QED BY <1>0, <1>1, <2>2, <2>5, <2>6, <2>7
<1>4. j \in (i + 1)..n /\ j \notin T
    BY <1>0, <1>3
<1> QED BY <1>4

-----------------------------------------------------------------------------
(* Merging (the second half of Replace).                                   *)

\* One more span, behind all others.
LEMMA MergeKeeps ==
    ASSUME NEW list, IsMaximal(list), NEW s \in Spans, s.begin < s.end,
           list # <<>> => list[Len(list)].end <= s.begin,
           NEW r, r = Merge(list, s)
    PROVE  /\ IsMaximal(r)
           /\ Len(r) >= 1 /\ r[Len(r)].end = s.end
           /\ \A a \in Int : \A c, o : ListSays(r, a, c, o) <=> ListSays(list, a, c, o) \/ Says(s, a, c, o)
<1>0. PICK n \in Nat : n = Len(list)
    BY DEF IsMaximal
<1>1. /\ list \in Seq(Spans)
      /\ \A k \in 1..n : list[k] \in Spans /\ list[k].begin < list[k].end
      /\ \A k \in 1..(n - 1) : list[k].end <= list[k + 1].begin /\ ~Continues(list[k], list[k + 1])
    BY <1>0 DEF IsMaximal
<1>2. s.begin \in Nat /\ s.end \in Nat /\ s.offset \in Nat
    BY SpanTyped
<1>3. CASE list # <<>> /\ Continues(list[n], s)
    <2>1. n \in 1..n /\ list[n] \in Spans /\ list[n].end <= s.begin
        BY <1>0, <1>1, <1>3
    <2>2. /\ list[n].end = s.begin /\ list[n].content = s.content
          /\ list[n].offset + list[n].end - list[n].begin = s.offset
        BY <1>3 DEF Continues
    <2>3. PICK last : last = [list[n] EXCEPT !.end = s.end]
        OBVIOUS
    <2>4. /\ last \in Spans /\ last.begin = list[n].begin /\ last.end = s.end
          /\ last.content = list[n].content /\ last.offset = list[n].offset
        BY <1>2, <2>1, <2>3 DEF Spans
    <2>5. /\ list[n].begin \in Nat /\ list[n].end \in Nat /\ list[n].offset \in Nat
          /\ list[n].begin < list[n].end
        BY <1>1, <2>1, SpanTyped
    <2>6. r = [list EXCEPT ![n].end = s.end]
        BY <1>0, <1>3 DEF Merge
    <2>7. /\ r \in Seq(Spans) /\ Len(r) = n /\ r[n] = last
          /\ \A k \in 1..n : k # n => r[k] = list[k]
        <3>1. r = [list EXCEPT ![n] = last]
            BY <2>3, <2>6
        <3> QED BY <1>0, <1>1, <2>1, <2>4, <3>1
    <2>8. ASSUME NEW k \in 1..n PROVE r[k].begin < r[k].end
        <3>1. CASE k # n
            BY <1>1, <2>7, <3>1
        <3>2. CASE k = n
            <4>1. list[n].begin < s.end
                BY <1>2, <2>2, <2>5
            <4> QED BY <2>4, <2>7, <3>2, <4>1
        <3> QED BY <3>1, <3>2
    <2>9. ASSUME NEW k \in 1..(n - 1) PROVE r[k].end <= r[k + 1].begin /\ ~Continues(r[k], r[k + 1])
        <3>1. k \in 1..n /\ k # n /\ r[k] = list[k] /\ k + 1 \in 1..n
            BY <1>0, <2>7
        <3>2. r[k + 1].begin = list[k + 1].begin /\ r[k + 1].content = list[k + 1].content
              /\ r[k + 1].offset = list[k + 1].offset
            <4>1. CASE k + 1 = n
                BY <2>4, <2>7, <4>1
            <4>2. CASE k + 1 # n
                BY <2>7, <3>1, <4>2
            <4> QED BY <4>1, <4>2
        <3>3. list[k].end <= list[k + 1].begin /\ ~Continues(list[k], list[k + 1])
            BY <1>1
        <3> QED BY <3>1, <3>2, <3>3 DEF Continues
    <2>10. ASSUME NEW a \in Int, NEW c, NEW o
           PROVE  ListSays(r, a, c, o) <=> ListSays(list, a, c, o) \/ Says(s, a, c, o)
        <3>1. Says(last, a, c, o) <=> Says(list[n], a, c, o) \/ Says(s, a, c, o)
            <4>1. PICK b \in Nat, m \in Nat, e \in Nat, f \in Nat :
                      b = list[n].begin /\ m = s.begin /\ e = s.end /\ f = list[n].offset
                BY <1>2, <2>5
            <4>2. s.offset + a - s.begin = f + a - b
                <5>1. s.offset = f + m - b /\ s.begin = m
                    BY <2>2, <4>1
                <5> QED BY <5>1
            <4>3. b < m /\ m < e
                BY <2>2, <2>5, <4>1
            <4>4. Says(last, a, c, o) <=> b <= a /\ a < e /\ s.content = c /\ o = f + a - b
                BY <2>2, <2>4, <4>1 DEF Says
            <4>5. Says(list[n], a, c, o) <=> b <= a /\ a < m /\ s.content = c /\ o = f + a - b
                BY <2>2, <4>1 DEF Says
            <4>6. Says(s, a, c, o) <=> m <= a /\ a < e /\ s.content = c /\ o = f + a - b
                BY <4>1, <4>2 DEF Says
            <4>7. b <= a /\ a < e <=> (b <= a /\ a < m) \/ (m <= a /\ a < e)
                BY <4>3
            <4> QED BY <4>4, <4>5, <4>6, <4>7
        <3> QED BY <1>0, <2>1, <2>7, <3>1 DEF ListSays
    <2> QED BY <1>0, <2>1, <2>4, <2>7, <2>8, <2>9, <2>10 DEF IsMaximal
<1>4. CASE ~(list # <<>> /\ Continues(list[n], s))
    <2>1. r = Append(list, s)
        BY <1>0, <1>4 DEF Merge
    <2>2. /\ r \in Seq(Spans) /\ Len(r) = n + 1 /\ r[n + 1] = s
          /\ \A k \in 1..n : r[k] = list[k]
        BY <1>0, <1>1, <2>1
    <2>3. ASSUME NEW k \in 1..(n + 1) PROVE r[k].begin < r[k].end
        <3>1. k \in 1..n \/ k = n + 1
            BY <1>0
        <3> QED BY <1>1, <2>2, <3>1
    <2>4. ASSUME NEW k \in 1..n PROVE r[k].end <= r[k + 1].begin /\ ~Continues(r[k], r[k + 1])
        <3>1. CASE k = n
            <4>1. list # <<>>
                BY <1>0, <3>1
            <4> QED BY <1>0, <1>4, <2>2, <3>1, <4>1
        <3>2. CASE k # n
            <4>1. k \in 1..(n - 1) /\ k + 1 \in 1..n
                BY <1>0, <3>2
            <4> QED BY <1>1, <2>2, <4>1
        <3> QED BY <3>1, <3>2
    <2>5. ASSUME NEW a \in Int, NEW c, NEW o
          PROVE  ListSays(r, a, c, o) <=> ListSays(list, a, c, o) \/ Says(s, a, c, o)
        <3>1. \A k : k \in 1..(n + 1) <=> k \in 1..n \/ k = n + 1
            BY <1>0
        <3> QED BY <1>0, <2>2, <3>1 DEF ListSays
    <2> QED BY <1>0, <2>2, <2>3, <2>4, <2>5 DEF IsMaximal
<1> QED BY <1>3, <1>4

\* What the loop has merged and what it has left, of the spans of a set.
IsMerging(state, set) ==
    /\ IsMaximal(state.merged)
    /\ state.rest \subseteq set
    /\ state.merged # <<>> =>
          \A s \in state.rest : state.merged[Len(state.merged)].end <= s.begin
    /\ \A a \in Int : \A c, o :
          SetSays(set, a, c, o) <=> ListSays(state.merged, a, c, o) \/ SetSays(state.rest, a, c, o)

LEMMA EarliestSpan ==
    ASSUME NEW set, IsApart(set), set # {},
           NEW s, s = CHOOSE x \in set : \A t \in set : x.begin <= t.begin
    PROVE  s \in set /\ \A t \in set : t = s \/ s.end <= t.begin
<1> DEFINE B == {t.begin : t \in set}
<1>1. \A t \in set : t.begin \in Nat /\ t.end \in Nat /\ t.begin < t.end
    BY SpanTyped DEF IsApart
<1>2. B \in SUBSET Nat /\ B # {}
    BY <1>1
<1>3. PICK b \in B : \A x \in B : b <= x
    <2> HIDE DEF B
    <2> QED BY <1>2, LeastElement
<1>4. \E x \in set : \A t \in set : x.begin <= t.begin
    BY <1>3
<1>5. s \in set /\ \A t \in set : s.begin <= t.begin
    BY <1>4
<1>6. ASSUME NEW t \in set, t # s PROVE s.end <= t.begin
    <2>1. s.end <= t.begin \/ t.end <= s.begin
        BY <1>5, <1>6 DEF IsApart
    <2> QED BY <1>1, <1>5, <1>6, <2>1
<1> QED BY <1>5, <1>6

LEMMA MergeNextKeeps ==
    ASSUME NEW set, IsApart(set), NEW state, IsMerging(state, set), state.rest # {},
           NEW succ, succ = MergeNext(state)
    PROVE  /\ IsMerging(succ, set)
           /\ \E s \in state.rest : succ.rest = state.rest \ {s}
<1>1. PICK s : s = CHOOSE x \in state.rest : \A t \in state.rest : x.begin <= t.begin
    OBVIOUS
<1>2. IsApart(state.rest)
    BY DEF IsMerging, IsApart
<1>3. s \in state.rest /\ \A t \in state.rest : t = s \/ s.end <= t.begin
    BY <1>1, <1>2, EarliestSpan
<1>4. s \in Spans /\ s.begin < s.end
    BY <1>2, <1>3 DEF IsApart
<1>5. succ.rest = state.rest \ {s} /\ succ.merged = Merge(state.merged, s)
    BY <1>1 DEF MergeNext
<1>6. PICK list, r : list = state.merged /\ r = succ.merged /\ r = Merge(list, s)
    BY <1>5
<1>7. /\ IsMaximal(r) /\ Len(r) >= 1 /\ r[Len(r)].end = s.end
      /\ \A a \in Int : \A c, o : ListSays(r, a, c, o) <=> ListSays(list, a, c, o) \/ Says(s, a, c, o)
    <2>1. IsMaximal(list) /\ (list # <<>> => list[Len(list)].end <= s.begin)
        BY <1>3, <1>6 DEF IsMerging
    <2> QED BY <1>4, <1>6, <2>1, MergeKeeps
<1>8. \A t \in succ.rest : s.end <= t.begin
    BY <1>3, <1>5
<1>9. ASSUME NEW a \in Int, NEW c, NEW o
      PROVE  SetSays(set, a, c, o) <=> ListSays(r, a, c, o) \/ SetSays(succ.rest, a, c, o)
    <2>1. SetSays(set, a, c, o) <=> ListSays(list, a, c, o) \/ SetSays(state.rest, a, c, o)
        BY <1>6 DEF IsMerging
    <2>2. SetSays(state.rest, a, c, o) <=> Says(s, a, c, o) \/ SetSays(succ.rest, a, c, o)
        BY <1>3, <1>5 DEF SetSays
    <2> QED BY <1>7, <2>1, <2>2
<1> QED BY <1>3, <1>5, <1>6, <1>7, <1>8, <1>9 DEF IsMerging

\* All of them: what the spans say stays, and the list is as short as can be.
LEMMA MergedSays ==
    ASSUME NEW set, IsFiniteSet(set), IsApart(set)
    PROVE  /\ IsMaximal(Merged(set))
           /\ \A a \in Int : \A c, o : ListSays(Merged(set), a, c, o) <=> SetSays(set, a, c, o)
<1>1. PICK n \in Nat : n = Cardinality(set)
    BY FS_CardinalityType
<1> DEFINE start == [rest |-> set, merged |-> <<>>]
           Recursive(f, k) == f = [i \in 0..k |-> IF i = 0 THEN start ELSE MergeNext(f[i - 1])]
           Holding(state, k) == /\ IsMerging(state, set)
                               /\ IsFiniteSet(state.rest) /\ Cardinality(state.rest) = n - k
           T == {k \in 0..n : ~\E f : Recursive(f, k)}
<1>2. Holding(start, 0)
    <2>1. IsMaximal(<<>>)
        BY DEF IsMaximal
    <2>2. \A a, c, o : ~ListSays(<<>>, a, c, o)
        BY DEF ListSays
    <2> QED BY <1>1, <2>1, <2>2 DEF IsMerging
<1>3. T = {}
    <2> SUFFICES ASSUME T # {} PROVE FALSE
        OBVIOUS
    <2>1. PICK k \in T : \A j \in T : k <= j
        <3>1. T \in SUBSET Nat
            BY <1>1
        <3> HIDE DEF T
        <3> QED BY <3>1, LeastElement
    <2>2. k # 0
        <3>1. Recursive([i \in 0..0 |-> start], 0)
            OBVIOUS
        <3> QED BY <2>1, <3>1
    <2>3. k - 1 \in 0..n /\ k \in 1..n /\ k - 1 \notin T
        <3>1. k \in 0..n
            OBVIOUS
        <3> HIDE DEF T
        <3> QED BY <1>1, <2>1, <2>2, <3>1
    <2>4. PICK f : Recursive(f, k - 1)
        BY <2>3
    <2> DEFINE h == [i \in 0..k |-> IF i = k THEN MergeNext(f[k - 1]) ELSE f[i]]
    <2>5. Recursive(h, k)
        BY <1>1, <2>3, <2>4
    <2> QED BY <2>1, <2>5
<1>4. \E f : Recursive(f, n)
    <2>1. n \notin T /\ n \in 0..n
        BY <1>1, <1>3
    <2> QED BY <2>1
<1>5. PICK f : f = (CHOOSE h : Recursive(h, n)) /\ Recursive(f, n)
    BY <1>4
<1>6. Merged(set) = f[n].merged
    BY <1>1, <1>5 DEF Merged
<1>7. f[0] = start /\ \A k \in 1..n : f[k] = MergeNext(f[k - 1])
    BY <1>1, <1>5
<1> DEFINE D == {k \in 0..n : ~Holding(f[k], k)}
<1>8. D = {}
    <2> SUFFICES ASSUME D # {} PROVE FALSE
        OBVIOUS
    <2>1. PICK k \in D : \A j \in D : k <= j
        <3>1. D \in SUBSET Nat
            BY <1>1
        <3> HIDE DEF D
        <3> QED BY <3>1, LeastElement
    <2>2. k \in 0..n /\ ~Holding(f[k], k)
        OBVIOUS
    <2>3. k # 0
        BY <1>2, <1>7, <2>2
    <2>4. k - 1 \in 0..n /\ k \in 1..n /\ k - 1 \notin D
        <3> HIDE DEF D
        <3> QED BY <1>1, <2>1, <2>2, <2>3
    <2>5. IsMerging(f[k - 1], set) /\ IsFiniteSet(f[k - 1].rest) /\ Cardinality(f[k - 1].rest) = n - (k - 1)
        BY <2>4
    <2>6. PICK rest : rest = f[k - 1].rest /\ rest # {}
        <3>1. n - (k - 1) # 0
            BY <1>1, <2>4
        <3> QED BY <2>5, <3>1, FS_EmptySet
    <2>7. PICK succ : succ = f[k] /\ succ = MergeNext(f[k - 1])
        BY <1>7, <2>4
    <2>8. IsMerging(succ, set) /\ \E s \in rest : succ.rest = rest \ {s}
        <3> HIDE DEF D, Holding
        <3> QED BY <2>5, <2>6, <2>7, MergeNextKeeps
    <2>9. PICK s \in rest : succ.rest = rest \ {s}
        BY <2>8
    <2>10. IsFiniteSet(rest \ {s}) /\ Cardinality(rest \ {s}) = (n - (k - 1)) - 1
        <3>1. IsFiniteSet(rest) /\ Cardinality(rest) = n - (k - 1) /\ s \in rest
            BY <2>5, <2>6
        <3> HIDE DEF D, T, start
        <3> QED BY <3>1, FS_RemoveElement
    <2>11. Cardinality(succ.rest) = n - k
        BY <1>1, <2>4, <2>9, <2>10
    <2>12. Holding(f[k], k)
        BY <2>7, <2>8, <2>9, <2>10, <2>11
    <2> QED BY <2>2, <2>12
<1>9. IsMerging(f[n], set) /\ IsFiniteSet(f[n].rest) /\ Cardinality(f[n].rest) = 0
    <2>1. n \notin D /\ n \in 0..n /\ n - n = 0
        BY <1>1, <1>8
    <2> QED BY <2>1
<1>10. f[n].rest = {}
    BY <1>9, FS_EmptySet
<1> QED BY <1>6, <1>9, <1>10 DEF IsMerging, SetSays

-----------------------------------------------------------------------------
(* Cutting a range out (the first half of Replace).                        *)

\* What is left of one span.
LEMMA PiecesSay ==
    ASSUME NEW s \in Spans, s.begin < s.end, NEW begin \in Nat, NEW end \in Nat, begin < end,
           NEW pieces, pieces = Pieces(s, begin, end)
    PROVE  /\ IsFiniteSet(pieces) /\ IsApart(pieces)
           /\ \A t \in pieces : /\ s.begin <= t.begin /\ t.end <= s.end
                                /\ t.end <= begin \/ end <= t.begin
           /\ \A a \in Int : \A c, o :
                 SetSays(pieces, a, c, o) <=> Says(s, a, c, o) /\ ~(begin <= a /\ a < end)
<1>1. /\ s.begin \in Nat /\ s.end \in Nat /\ s.offset \in Nat /\ s.content \in Contents
    BY SpanTyped
<1>2. CASE ~(s.begin < end /\ begin < s.end)
    <2>1. pieces = {s}
        BY <1>2 DEF Pieces
    <2>2. s.end <= begin \/ end <= s.begin
        BY <1>1, <1>2
    <2>3. ASSUME NEW a \in Int, NEW c, NEW o
          PROVE  SetSays(pieces, a, c, o) <=> Says(s, a, c, o) /\ ~(begin <= a /\ a < end)
        <3>1. Says(s, a, c, o) => ~(begin <= a /\ a < end)
            BY <1>1, <2>2 DEF Says
        <3> QED BY <2>1, <3>1 DEF SetSays
    <2> QED BY <1>1, <2>1, <2>2, <2>3, FS_Singleton DEF IsApart
<1>3. CASE s.begin < end /\ begin < s.end
    <2>1. PICK left, right : left = [s EXCEPT !.end = begin]
                             /\ right = [s EXCEPT !.begin = end, !.offset = @ + end - s.begin]
        OBVIOUS
    <2>2. /\ left = [begin |-> s.begin, end |-> begin, content |-> s.content, offset |-> s.offset]
          /\ right = [begin |-> end, end |-> s.end, content |-> s.content,
                      offset |-> s.offset + end - s.begin]
        BY <2>1 DEF Spans
    <2>3. left \in Spans
        BY <1>1, <2>2 DEF Spans
    <2>4. right \in Spans
        <3>1. s.offset + end - s.begin \in Nat
            BY <1>1, <1>3
        <3> QED BY <1>1, <2>2, <3>1 DEF Spans
    <2>5. \A t : t \in pieces <=> (t = left /\ s.begin < begin) \/ (t = right /\ s.end > end)
        BY <1>3, <2>1 DEF Pieces, LeftOf, RightOf
    <2>6. IsFiniteSet(pieces)
        <3>1. pieces \in SUBSET {left, right}
            BY <2>5
        <3>2. IsFiniteSet({left, right})
            <4>1. IsFiniteSet({left} \cup {right})
                BY FS_Singleton, FS_AddElement
            <4>2. {left, right} = {left} \cup {right}
                OBVIOUS
            <4> QED BY <4>1, <4>2
        <3> QED BY <3>1, <3>2, FS_Subset
    <2>7. /\ left.begin = s.begin /\ left.end = begin
          /\ right.begin = end /\ right.end = s.end
        BY <2>2
    <2>8. ASSUME NEW t \in pieces
          PROVE  /\ t \in Spans /\ t.begin < t.end /\ s.begin <= t.begin /\ t.end <= s.end
                 /\ t.end <= begin \/ end <= t.begin
        BY <1>1, <1>3, <2>3, <2>4, <2>5, <2>7
    <2>9. IsApart(pieces)
        <3>1. \A t, u \in pieces : t = u \/ t.end <= u.begin \/ u.end <= t.begin
            BY <2>5, <2>7
        <3> QED BY <2>8, <3>1 DEF IsApart
    <2>10. ASSUME NEW a \in Int, NEW c, NEW o
           PROVE  SetSays(pieces, a, c, o) <=> Says(s, a, c, o) /\ ~(begin <= a /\ a < end)
        <3>1. Says(left, a, c, o) <=> s.begin <= a /\ a < begin /\ s.content = c /\ o = s.offset + a - s.begin
            BY <2>2 DEF Says
        <3>2. Says(right, a, c, o) <=> end <= a /\ a < s.end /\ s.content = c /\ o = s.offset + a - s.begin
            <4>1. (s.offset + end - s.begin) + a - end = s.offset + a - s.begin
                BY <1>1
            <4> QED BY <2>2, <4>1 DEF Says
        <3>3. SetSays(pieces, a, c, o) <=>
                 (Says(left, a, c, o) /\ s.begin < begin) \/ (Says(right, a, c, o) /\ s.end > end)
            BY <2>5 DEF SetSays
        <3>4. (s.begin <= a /\ a < begin /\ s.begin < begin) \/ (end <= a /\ a < s.end /\ s.end > end)
              <=> (s.begin <= a /\ a < s.end /\ ~(begin <= a /\ a < end))
            BY <1>1, <1>3
        <3> QED BY <3>1, <3>2, <3>3, <3>4 DEF Says
    <2> QED BY <2>6, <2>8, <2>9, <2>10
<1> QED BY <1>2, <1>3

LEMMA CutSays ==
    ASSUME IsMaximal(spans), NEW begin \in Nat, NEW end \in Nat, begin < end,
           NEW set, set = Cut(begin, end)
    PROVE  /\ IsFiniteSet(set) /\ IsApart(set)
           /\ \A s \in set : s.end <= begin \/ end <= s.begin
           /\ \A a \in Int : \A c, o :
                 SetSays(set, a, c, o) <=> ListSays(spans, a, c, o) /\ ~(begin <= a /\ a < end)
<1>1. PICK n \in Nat, list \in Seq(Spans) : n = Len(list) /\ list = spans
    BY DEF IsMaximal
<1>2. \A k \in 1..n : list[k] \in Spans /\ list[k].begin < list[k].end
    BY <1>1 DEF IsMaximal
<1>3. \A k \in 1..n : /\ list[k].begin \in Nat /\ list[k].end \in Nat
    BY <1>2, SpanTyped
<1>4. \A i, j \in 1..n : i < j => list[i].end <= list[j].begin
    BY <1>1, MaximalOrdered
<1> DEFINE P(k) == Pieces(list[k], begin, end)
<1>5. \A t : t \in set <=> \E k \in 1..n : t \in P(k)
    <2>1. \A s : s \in Range(spans) <=> \E k \in 1..n : s = list[k]
        BY <1>1 DEF Range
    <2> DEFINE parts == {Pieces(s, begin, end) : s \in Range(spans)}
    <2>2. \A p : p \in parts <=> \E s \in Range(spans) : p = Pieces(s, begin, end)
        OBVIOUS
    <2>3. set = UNION parts
        BY DEF Cut
    <2> HIDE DEF parts
    <2> QED BY <2>1, <2>2, <2>3
<1>6. ASSUME NEW k \in 1..n
      PROVE  /\ IsFiniteSet(P(k)) /\ IsApart(P(k))
             /\ \A t \in P(k) : /\ list[k].begin <= t.begin /\ t.end <= list[k].end
                                /\ t.end <= begin \/ end <= t.begin
             /\ \A a \in Int : \A c, o :
                   SetSays(P(k), a, c, o) <=> Says(list[k], a, c, o) /\ ~(begin <= a /\ a < end)
    BY <1>2, PiecesSay
<1> HIDE DEF P
<1>7. IsFiniteSet(set)
    <2> DEFINE f == [k \in 1..n |-> P(k)]
    <2>1. IsFiniteSet({f[k] : k \in 1..n})
        <3>1. IsFiniteSet(1..n)
            BY IndicesCounted
        <3> HIDE DEF f
        <3> QED BY <3>1, FiniteImage
    <2>2. \A T \in {f[k] : k \in 1..n} : IsFiniteSet(T)
        BY <1>6
    <2>3. set = UNION {f[k] : k \in 1..n}
        BY <1>5
    <2> HIDE DEF f
    <2> QED BY <2>1, <2>2, <2>3, FS_UNION
<1>8. ASSUME NEW t \in set
      PROVE  t \in Spans /\ t.begin < t.end /\ (t.end <= begin \/ end <= t.begin)
    BY <1>5, <1>6 DEF IsApart
<1>9. ASSUME NEW t \in set, NEW u \in set
      PROVE  t = u \/ t.end <= u.begin \/ u.end <= t.begin
    <2>1. PICK i \in 1..n, j \in 1..n : t \in P(i) /\ u \in P(j)
        BY <1>5
    <2>2. CASE i = j
        BY <1>6, <2>1, <2>2 DEF IsApart
    <2>3. ASSUME NEW k \in 1..n, NEW l \in 1..n, NEW x \in P(k), NEW y \in P(l), k < l
          PROVE  x.end <= y.begin
        <3>1. /\ x.end <= list[k].end /\ list[k].end <= list[l].begin /\ list[l].begin <= y.begin
            BY <1>4, <1>6, <2>3
        <3>2. x.end \in Nat /\ y.begin \in Nat
            BY <1>6, SpanTyped DEF IsApart
        <3> QED BY <1>3, <3>1, <3>2
    <2>4. i = j \/ i < j \/ j < i
        OBVIOUS
    <2> QED BY <2>1, <2>2, <2>3, <2>4
<1>10. ASSUME NEW a \in Int, NEW c, NEW o
       PROVE  SetSays(set, a, c, o) <=> ListSays(spans, a, c, o) /\ ~(begin <= a /\ a < end)
    <2>1. SetSays(set, a, c, o) <=> \E k \in 1..n : SetSays(P(k), a, c, o)
        BY <1>5 DEF SetSays
    <2> QED BY <1>1, <1>6, <2>1 DEF ListSays
<1> QED BY <1>7, <1>8, <1>9, <1>10 DEF IsApart

LEMMA ReplacedSays ==
    ASSUME IsMaximal(spans), NEW begin \in Nat, NEW end \in Nat, begin < end, NEW new,
           \/ new = {}
           \/ \E s \in Spans : new = {s} /\ s.begin = begin /\ s.end = end
    PROVE  /\ IsMaximal(Replaced(begin, end, new))
           /\ \A a \in Int : \A c, o :
                 ListSays(Replaced(begin, end, new), a, c, o) <=>
                    \/ ListSays(spans, a, c, o) /\ ~(begin <= a /\ a < end)
                    \/ SetSays(new, a, c, o)
<1>1. PICK cut, set : cut = Cut(begin, end) /\ set = cut \cup new
    OBVIOUS
<1>2. /\ IsFiniteSet(cut) /\ IsApart(cut)
      /\ \A s \in cut : s.end <= begin \/ end <= s.begin
      /\ \A a \in Int : \A c, o :
            SetSays(cut, a, c, o) <=> ListSays(spans, a, c, o) /\ ~(begin <= a /\ a < end)
    BY <1>1, CutSays
<1>3. IsFiniteSet(new)
    BY FS_EmptySet, FS_Singleton
<1>4. IsFiniteSet(set)
    BY <1>1, <1>2, <1>3, FS_Union
<1>5. IsApart(set)
    BY <1>1, <1>2 DEF IsApart
<1>6. \A a \in Int : \A c, o : SetSays(set, a, c, o) <=> SetSays(cut, a, c, o) \/ SetSays(new, a, c, o)
    BY <1>1 DEF SetSays
<1>7. Replaced(begin, end, new) = Merged(set)
    BY <1>1 DEF Replaced
<1> QED BY <1>2, <1>4, <1>5, <1>6, <1>7, MergedSays

-----------------------------------------------------------------------------
(* The spans say what the words hold.                                      *)

\* The list says of every word what it holds, and nothing of other addresses.
IsTrueOf(list, memory) ==
    /\ \A k \in 1..Len(list) : list[k].end <= Words
    /\ \A a \in 0..(Words - 1) : \A c, o : memory[a] = <<c, o>> <=> ListSays(list, a, c, o)

MemoryInv ==
    /\ words = [a \in 0..(Words - 1) |-> words[a]]
    /\ IsMaximal(spans)
    /\ IsTrueOf(spans, words)

\* A list that says no more than another and a range of the memory do stays in it.
LEMMA SaysWithin ==
    ASSUME Words \in Nat, NEW list, IsMaximal(list),
           \A a \in Int : \A c, o : ListSays(list, a, c, o) => a < Words
    PROVE  \A k \in 1..Len(list) : list[k].end <= Words
<1> SUFFICES ASSUME NEW k \in 1..Len(list) PROVE list[k].end <= Words
    OBVIOUS
<1>1. list[k] \in Spans /\ list[k].begin < list[k].end
    BY DEF IsMaximal
<1>2. PICK s, a, o : s = list[k] /\ a = s.end - 1 /\ o = s.offset + a - s.begin
    OBVIOUS
<1>3. s.begin \in Nat /\ s.end \in Nat
    BY <1>1, <1>2, SpanTyped
<1>4. a \in Int /\ s.begin <= a /\ a < s.end
    BY <1>1, <1>2, <1>3
<1>5. ListSays(list, a, s.content, o)
    BY <1>2, <1>4 DEF ListSays, Says
<1> QED BY <1>2, <1>3, <1>4, <1>5

\* The words from begin to end hold what the new spans say, the others what they did.
IsOverwritten(memory, begin, end, new) ==
    \A a \in 0..(Words - 1) : \A c, o :
        memory[a] = <<c, o>> <=>
           \/ words[a] = <<c, o>> /\ ~(begin <= a /\ a < end)
           \/ SetSays(new, a, c, o)

LEMMA ReplaceKeepsMemory ==
    ASSUME Words \in Nat, MemoryInv, NEW begin \in Nat, NEW size \in Nat, begin + size <= Words, size # 0,
           NEW new, \/ new = {}
                    \/ \E s \in Spans : new = {s} /\ s.begin = begin /\ s.end = begin + size,
           NEW end \in Nat, end = begin + size,
           NEW list, list = Replaced(begin, end, new), NEW m, IsOverwritten(m, begin, end, new)
    PROVE  IsMaximal(list) /\ IsTrueOf(list, m)
<1>1. begin < end /\ end <= Words
    OBVIOUS
<1>2. /\ IsMaximal(list)
      /\ \A a \in Int : \A c, o :
            ListSays(list, a, c, o) <=>
               \/ ListSays(spans, a, c, o) /\ ~(begin <= a /\ a < end)
               \/ SetSays(new, a, c, o)
    BY <1>1, ReplacedSays DEF MemoryInv
<1>3. ASSUME NEW a \in Int, NEW c, NEW o, ListSays(list, a, c, o) PROVE a < Words
    <2>1. CASE ListSays(spans, a, c, o)
        <3>1. PICK k \in 1..Len(spans) : Says(spans[k], a, c, o)
            BY <2>1 DEF ListSays
        <3>2. spans[k].end \in Nat /\ spans[k].end <= Words
            <4>1. spans[k] \in Spans
                BY DEF MemoryInv, IsMaximal
            <4> QED BY <4>1, SpanTyped DEF MemoryInv, IsTrueOf
        <3> QED BY <3>1, <3>2 DEF Says
    <2>2. CASE SetSays(new, a, c, o)
        <3>1. PICK s \in new : Says(s, a, c, o)
            BY <2>2 DEF SetSays
        <3>2. s.end = end
            BY <1>1
        <3> QED BY <1>1, <3>1, <3>2 DEF Says
    <2> QED BY <1>2, <1>3, <2>1, <2>2
<1>4. \A k \in 1..Len(list) : list[k].end <= Words
    BY <1>2, <1>3, SaysWithin
<1>5. ASSUME NEW a \in 0..(Words - 1), NEW c, NEW o PROVE m[a] = <<c, o>> <=> ListSays(list, a, c, o)
    <2>1. words[a] = <<c, o>> <=> ListSays(spans, a, c, o)
        BY DEF MemoryInv, IsTrueOf
    <2>2. a \in Int
        OBVIOUS
    <2> QED BY <1>1, <1>2, <2>1, <2>2 DEF IsOverwritten
<1>6. IsTrueOf(list, m)
    BY <1>4, <1>5 DEF IsTrueOf
<1> QED BY <1>2, <1>6

LEMMA WriteKeepsMemory ==
    ASSUME Words \in Nat, Offsets \subseteq Nat, MemoryInv, NEW r \in Ranges, NEW content \in Contents,
           NEW offset \in Offsets, WriteContent(r[1], r[2], content, offset)
    PROVE  MemoryInv'
<1>1. PICK begin \in Nat, size \in Nat : begin = r[1] /\ size = r[2] /\ begin + size <= Words
    BY DEF Ranges
<1>2. /\ spans' = IF size = 0 THEN spans
                  ELSE Replaced(begin, begin + size,
                                       {Span(begin, begin + size, content, offset)})
      /\ words' = [a \in DOMAIN words |->
                      IF a \in begin..(begin + size - 1) THEN <<content, offset + a - begin>> ELSE words[a]]
    BY <1>1 DEF WriteContent
<1>3. DOMAIN words = 0..(Words - 1) /\ words' = [a \in 0..(Words - 1) |-> words'[a]]
    <2>1. DOMAIN words = 0..(Words - 1)
        BY DEF MemoryInv
    <2> QED BY <1>2, <2>1
<1>4. CASE size = 0
    <2>1. spans' = spans
        BY <1>2, <1>4
    <2>2. words' = words
        <3>1. \A a \in DOMAIN words : a \notin begin..(begin + size - 1)
            BY <1>3, <1>4
        <3>2. words' = [a \in DOMAIN words |-> words[a]]
            BY <1>2, <3>1
        <3> QED BY <1>3, <3>2 DEF MemoryInv
    <2> QED BY <2>1, <2>2 DEF MemoryInv
<1>5. CASE size # 0
    <2>1. PICK s \in Spans : /\ s = Span(begin, begin + size, content, offset)
                             /\ s.begin = begin /\ s.end = begin + size
                             /\ s.content = content /\ s.offset = offset
        <3>1. Span(begin, begin + size, content, offset) \in Spans
            BY DEF Span, Spans
        <3> QED BY <3>1 DEF Span
    <2>2. ASSUME NEW a \in 0..(Words - 1), NEW c, NEW o
          PROVE  words'[a] = <<c, o>> <=>
                    \/ words[a] = <<c, o>> /\ ~(begin <= a /\ a < begin + size)
                    \/ SetSays({s}, a, c, o)
        <3>1. SetSays({s}, a, c, o) <=>
                 begin <= a /\ a < begin + size /\ c = content /\ o = offset + a - begin
            BY <2>1 DEF SetSays, Says
        <3>2. CASE begin <= a /\ a < begin + size
            <4>1. words'[a] = <<content, offset + a - begin>>
                BY <1>2, <1>3, <3>2
            <4> QED BY <3>1, <3>2, <4>1
        <3>3. CASE ~(begin <= a /\ a < begin + size)
            <4>1. words'[a] = words[a]
                BY <1>2, <1>3, <3>3
            <4> QED BY <3>1, <3>3, <4>1
        <3> QED BY <3>2, <3>3
    <2>3. PICK new : new = {s}
        OBVIOUS
    <2>4. PICK list, m, end : list = spans' /\ m = words' /\ end = begin + size /\ end \in Nat
        OBVIOUS
    <2>5. list = Replaced(begin, end, new)
        BY <1>2, <1>5, <2>1, <2>3, <2>4
    <2>6. IsOverwritten(m, begin, end, new)
        BY <2>2, <2>3, <2>4 DEF IsOverwritten
    <2>7. \E t \in Spans : new = {t} /\ t.begin = begin /\ t.end = begin + size
        BY <2>1, <2>3
    <2>8. IsMaximal(list) /\ IsTrueOf(list, m)
        BY <1>1, <1>5, <2>5, <2>6, <2>7, <2>4, ReplaceKeepsMemory
    <2> QED BY <1>3, <2>4, <2>8 DEF MemoryInv
<1> QED BY <1>4, <1>5

LEMMA InvalidateKeepsMemory ==
    ASSUME Words \in Nat, MemoryInv, NEW r \in Ranges, InvalidateRange(r[1], r[2])
    PROVE  MemoryInv'
<1>1. PICK begin \in Nat, size \in Nat : begin = r[1] /\ size = r[2] /\ begin + size <= Words
    BY DEF Ranges
<1>2. /\ spans' = IF size = 0 THEN spans ELSE Replaced(begin, begin + size, {})
      /\ words' = [a \in DOMAIN words |-> IF a \in begin..(begin + size - 1) THEN <<>> ELSE words[a]]
    BY <1>1 DEF InvalidateRange
<1>3. DOMAIN words = 0..(Words - 1) /\ words' = [a \in 0..(Words - 1) |-> words'[a]]
    <2>1. DOMAIN words = 0..(Words - 1)
        BY DEF MemoryInv
    <2> QED BY <1>2, <2>1
<1>4. CASE size = 0
    <2>1. spans' = spans
        BY <1>2, <1>4
    <2>2. words' = words
        <3>1. \A a \in DOMAIN words : a \notin begin..(begin + size - 1)
            BY <1>3, <1>4
        <3>2. words' = [a \in DOMAIN words |-> words[a]]
            BY <1>2, <3>1
        <3> QED BY <1>3, <3>2 DEF MemoryInv
    <2> QED BY <2>1, <2>2 DEF MemoryInv
<1>5. CASE size # 0
    <2>1. ASSUME NEW a \in 0..(Words - 1), NEW c, NEW o
          PROVE  words'[a] = <<c, o>> <=>
                    \/ words[a] = <<c, o>> /\ ~(begin <= a /\ a < begin + size)
                    \/ SetSays({}, a, c, o)
        <3>1. ~SetSays({}, a, c, o) /\ <<>> # <<c, o>>
            BY DEF SetSays
        <3>2. words'[a] = IF begin <= a /\ a < begin + size THEN <<>> ELSE words[a]
            BY <1>2, <1>3
        <3> QED BY <3>1, <3>2
    <2>2. PICK new : new = {}
        OBVIOUS
    <2>3. PICK list, m, end : list = spans' /\ m = words' /\ end = begin + size /\ end \in Nat
        OBVIOUS
    <2>4. list = Replaced(begin, end, new)
        BY <1>2, <1>5, <2>2, <2>3
    <2>5. IsOverwritten(m, begin, end, new)
        BY <2>1, <2>2, <2>3 DEF IsOverwritten
    <2>6. IsMaximal(list) /\ IsTrueOf(list, m)
        BY <1>1, <1>5, <2>2, <2>4, <2>5, <2>3, ReplaceKeepsMemory
    <2> QED BY <1>3, <2>3, <2>6 DEF MemoryInv
<1> QED BY <1>4, <1>5

\* Whatever is written, invalidated and cleared, the spans stay maximal, within
\* the memory, and say what the words hold (Replace).
THEOREM MemoryCorrect == MemorySpec => []MemoryInv
<1>0. Words \in Nat /\ Offsets \subseteq Nat
    BY MemoryAssumption
<1>1. MemoryInit => MemoryInv
    <2> SUFFICES ASSUME MemoryInit PROVE MemoryInv
        OBVIOUS
    <2>1. IsMaximal(<<>>)
        BY DEF IsMaximal
    <2>2. IsTrueOf(<<>>, words)
        BY DEF MemoryInit, IsTrueOf, ListSays
    <2> QED BY <2>1, <2>2 DEF MemoryInv, MemoryInit
<1>2. MemoryInv /\ [MemoryNext]_memoryVars => MemoryInv'
    <2> SUFFICES ASSUME MemoryInv, [MemoryNext]_memoryVars PROVE MemoryInv'
        OBVIOUS
    <2>1. ASSUME NEW r \in Ranges, NEW c \in Contents, NEW o \in Offsets,
                 WriteContent(r[1], r[2], c, o)
          PROVE  MemoryInv'
        BY <1>0, <2>1, WriteKeepsMemory
    <2>2. ASSUME NEW r \in Ranges, InvalidateRange(r[1], r[2]) PROVE MemoryInv'
        BY <1>0, <2>2, InvalidateKeepsMemory
    <2>3. CASE Clear
        <3>1. PICK m : m = words' /\ m = [a \in 0..(Words - 1) |-> <<>>]
            BY <2>3 DEF Clear, MemoryInv
        <3>2. IsMaximal(<<>>)
            BY DEF IsMaximal
        <3>3. IsTrueOf(<<>>, m)
            BY <3>1 DEF IsTrueOf, ListSays
        <3>4. spans' = <<>>
            BY <2>3 DEF Clear
        <3> QED BY <3>1, <3>2, <3>3, <3>4 DEF MemoryInv
    <2>4. CASE UNCHANGED memoryVars
        BY <2>4 DEF memoryVars, MemoryInv
    <2> QED BY <2>1, <2>2, <2>3, <2>4 DEF MemoryNext
<1> QED BY <1>1, <1>2, PTL DEF MemorySpec

-----------------------------------------------------------------------------
(* What holds a content lies in one span.                                  *)

Reaches(s, a) == s.begin <= a /\ a < s.end

Covers(s, a, size, c, o) ==
    s.begin <= a /\ a + size <= s.end /\ s.content = c /\ o = s.offset + a - s.begin

LEMMA MaximalTyped ==
    ASSUME NEW list, IsMaximal(list)
    PROVE  /\ Len(list) \in Nat /\ DOMAIN list = 1..Len(list)
           /\ \A k \in 1..Len(list) : /\ list[k].begin \in Nat /\ list[k].end \in Nat
                                      /\ list[k].offset \in Nat /\ list[k].begin < list[k].end
<1>1. Len(list) \in Nat /\ DOMAIN list = 1..Len(list)
    BY DEF IsMaximal
<1>2. ASSUME NEW k \in 1..Len(list)
      PROVE  /\ list[k].begin \in Nat /\ list[k].end \in Nat
             /\ list[k].offset \in Nat /\ list[k].begin < list[k].end
    <2>1. list[k] \in Spans /\ list[k].begin < list[k].end
        BY DEF IsMaximal
    <2> QED BY <2>1, SpanTyped
<1> QED BY <1>1, <1>2

\* No address lies in two spans.
LEMMA OneReaches ==
    ASSUME NEW list, IsMaximal(list), NEW i \in 1..Len(list), NEW j \in 1..Len(list),
           NEW a \in Int, Reaches(list[i], a), Reaches(list[j], a)
    PROVE  i = j
<1>1. ASSUME NEW k \in 1..Len(list), NEW m \in 1..Len(list), k < m,
             Reaches(list[k], a), Reaches(list[m], a)
      PROVE  FALSE
    <2>1. list[k].end <= list[m].begin
        BY <1>1, MaximalOrdered
    <2>2. list[k].end \in Nat /\ list[m].begin \in Nat
        BY MaximalTyped
    <2> QED BY <1>1, <2>1, <2>2 DEF Reaches
<1>2. Len(list) \in Nat
    BY MaximalTyped
<1>3. ~(i < j) /\ ~(j < i)
    BY <1>1
<1> QED BY <1>2, <1>3

\* What holds a content lies in one span, because no two could be one.
LEMMA OneSpanSays ==
    ASSUME NEW list, IsMaximal(list), NEW a \in Nat, NEW size \in Nat \ {0}, NEW c, NEW o \in Int,
           \A k \in 0..(size - 1) : ListSays(list, a + k, c, o + k)
    PROVE  \E i \in 1..Len(list) : Covers(list[i], a, size, c, o)
<1>1. PICK i \in 1..Len(list) : Says(list[i], a, c, o)
    <2>1. ListSays(list, a + 0, c, o + 0)
        BY 0 \in 0..(size - 1)
    <2>2. a + 0 = a /\ o + 0 = o
        OBVIOUS
    <2> QED BY <2>1, <2>2 DEF ListSays
<1>2. PICK n \in Nat : n = Len(list) /\ i \in 1..n
    BY MaximalTyped
<1>3. PICK b, e, f : b = list[i].begin /\ e = list[i].end /\ f = list[i].offset
    OBVIOUS
<1>4. b \in Nat /\ e \in Nat /\ f \in Nat /\ b <= a /\ a < e /\ list[i].content = c /\ o = f + a - b
    BY <1>1, <1>3, MaximalTyped DEF Says
<1>5. a + size <= e
    <2> SUFFICES ASSUME e < a + size PROVE FALSE
        BY <1>4
    <2>1. PICK k \in 0..(size - 1) : a + k = e
        <3>1. e - a \in 0..(size - 1) /\ a + (e - a) = e
            BY <1>4
        <3> QED BY <3>1
    <2>2. PICK j \in 1..n : Says(list[j], e, c, o + k)
        BY <1>2, <2>1 DEF ListSays
    <2>3. PICK x, y, z : x = list[j].begin /\ y = list[j].end /\ z = list[j].offset
        OBVIOUS
    <2>4. /\ x \in Nat /\ y \in Nat /\ z \in Nat /\ x <= e /\ e < y
          /\ list[j].content = c /\ o + k = z + e - x
        BY <1>2, <2>2, <2>3, MaximalTyped DEF Says
    <2>5. i < j
        <3>1. j # i
            BY <1>3, <2>3, <2>4
        <3>2. ~(j < i)
            <4> SUFFICES ASSUME j < i PROVE FALSE
                OBVIOUS
            <4>1. y <= b
                BY <1>2, <1>3, <2>3, MaximalOrdered
            <4> QED BY <1>4, <2>4, <4>1
        <3> QED BY <1>2, <3>1, <3>2
    <2>6. PICK succ \in 1..n : succ = i + 1 /\ i \in 1..(n - 1)
        BY <1>2, <2>5
    <2>7. PICK g, h : g = list[succ].begin /\ h = list[succ].end
        OBVIOUS
    <2>8. e <= g /\ ~Continues(list[i], list[succ]) /\ g \in Nat /\ h \in Nat /\ g < h
        BY <1>2, <1>3, <2>6, <2>7, MaximalTyped DEF IsMaximal
    <2>9. j = succ
        <3> SUFFICES ASSUME succ < j PROVE FALSE
            BY <1>2, <2>5, <2>6
        <3>1. h <= x
            BY <1>2, <2>3, <2>7, MaximalOrdered
        <3>2. e <= g /\ g < h /\ x <= e
            BY <2>4, <2>8
        <3> QED BY <1>4, <2>4, <2>8, <3>1, <3>2
    <2>10. x = e
        <3>1. x = g
            BY <2>3, <2>7, <2>9
        <3> QED BY <1>4, <2>4, <2>8, <3>1
    <2>11. f + e - b = z
        BY <1>4, <2>1, <2>4, <2>10
    <2>12. Continues(list[i], list[j])
        BY <1>3, <1>4, <2>3, <2>4, <2>10, <2>11 DEF Continues
    <2> QED BY <2>8, <2>9, <2>12
<1> QED BY <1>3, <1>4, <1>5 DEF Covers

\* A range of the memory holds a content if and only if one span says so.
LEMMA HoldsInSpan ==
    ASSUME Words \in Nat, MemoryInv, NEW a \in Nat, NEW size \in Nat \ {0}, NEW c, NEW o \in Int
    PROVE  WordsHold(a, size, c, o) <=> \E i \in 1..Len(spans) : Covers(spans[i], a, size, c, o)
<1>1. PICK list : list = spans /\ IsMaximal(list) /\ IsTrueOf(list, words) /\ DOMAIN words = 0..(Words - 1)
    BY DEF MemoryInv
<1>2. ASSUME WordsHold(a, size, c, o) PROVE \E i \in 1..Len(spans) : Covers(spans[i], a, size, c, o)
    <2>1. ASSUME NEW k \in 0..(size - 1) PROVE ListSays(list, a + k, c, o + k)
        <3>1. a + k \in 0..(Words - 1) /\ words[a + k] = <<c, o + k>>
            BY <1>1, <1>2 DEF WordsHold
        <3> QED BY <1>1, <3>1 DEF IsTrueOf
    <2> QED BY <1>1, <2>1, OneSpanSays
<1>3. ASSUME NEW i \in 1..Len(spans), Covers(spans[i], a, size, c, o) PROVE WordsHold(a, size, c, o)
    <2> SUFFICES ASSUME NEW k \in 0..(size - 1)
                 PROVE  a + k \in DOMAIN words /\ words[a + k] = <<c, o + k>>
        BY DEF WordsHold
    <2>1. PICK b, e, f : b = list[i].begin /\ e = list[i].end /\ f = list[i].offset
        OBVIOUS
    <2>2. b \in Nat /\ e \in Nat /\ f \in Nat /\ e <= Words
        BY <1>1, <2>1, MaximalTyped DEF IsTrueOf
    <2>3. b <= a /\ a + size <= e /\ list[i].content = c /\ o = f + a - b
        BY <1>1, <1>3, <2>1 DEF Covers
    <2>4. a + k \in 0..(Words - 1)
        BY <2>2, <2>3
    <2>5. ListSays(list, a + k, c, o + k)
        <3>1. b <= a + k /\ a + k < e /\ o + k = f + (a + k) - b
            BY <2>2, <2>3
        <3> QED BY <1>1, <2>1, <2>3, <3>1 DEF ListSays, Says
    <2> QED BY <1>1, <2>4, <2>5 DEF IsTrueOf
<1> QED BY <1>2, <1>3

-----------------------------------------------------------------------------
(* The queries (Contains, Find, FindExtent, MatchedPrefix).                *)

\* The cursor after each span, and the answer at the end.
IsContainsWalk(f, address, size, c, o) ==
    /\ f[0] = address
    /\ \A k \in 1..Len(spans) : f[k] = NextCursor(f[k - 1], spans[k], address, address + size, c, o)
    /\ ContainsRange(address, size, c, o) <=> f[Len(spans)] = address + size

\* The walk of Contains over the spans exists.
LEMMA CursorsExist ==
    ASSUME IsMaximal(spans), NEW address, NEW size, size # 0, NEW end, end = address + size, NEW c, NEW o
    PROVE  \E f : IsContainsWalk(f, address, size, c, o)
<1>1. PICK n \in Nat : n = Len(spans)
    BY MaximalTyped
<1> DEFINE Recursive(f, k) ==
               f = [i \in 0..k |->
                       IF i = 0 THEN address ELSE NextCursor(f[i - 1], spans[i], address, end, c, o)]
           T == {k \in 0..n : ~\E f : Recursive(f, k)}
<1>2. T = {}
    <2> SUFFICES ASSUME T # {} PROVE FALSE
        OBVIOUS
    <2>1. PICK k \in T : \A j \in T : k <= j
        <3>1. T \in SUBSET Nat
            BY <1>1
        <3> HIDE DEF T
        <3> QED BY <3>1, LeastElement
    <2>2. k # 0
        <3>1. Recursive([i \in 0..0 |-> address], 0)
            OBVIOUS
        <3> QED BY <2>1, <3>1
    <2>3. k - 1 \in 0..n /\ k \in 1..n /\ k - 1 \notin T
        <3>1. k \in 0..n
            OBVIOUS
        <3> HIDE DEF T
        <3> QED BY <1>1, <2>1, <2>2, <3>1
    <2>4. PICK f : Recursive(f, k - 1)
        BY <2>3
    <2>5. PICK v : v = NextCursor(f[k - 1], spans[k], address, end, c, o)
        OBVIOUS
    <2> DEFINE h == [i \in 0..k |-> IF i = k THEN v ELSE f[i]]
    <2>6. \A i \in 0..(k - 1) : f[i] = IF i = 0 THEN address
                                       ELSE NextCursor(f[i - 1], spans[i], address, end, c, o)
        BY <2>4
    <2>7. ASSUME NEW i \in 0..k
          PROVE  h[i] = IF i = 0 THEN address ELSE NextCursor(h[i - 1], spans[i], address, end, c, o)
        <3>1. CASE i = k
            <4>1. h[i] = v /\ i # 0 /\ i - 1 \in 0..k /\ i - 1 # k
                BY <2>2, <2>3, <3>1
            <4>2. h[i - 1] = f[i - 1]
                BY <4>1
            <4> HIDE DEF h
            <4> QED BY <2>5, <3>1, <4>1, <4>2
        <3>2. CASE i # k
            <4>1. h[i] = f[i] /\ i \in 0..(k - 1)
                BY <2>3, <3>2
            <4>2. ASSUME i # 0 PROVE h[i - 1] = f[i - 1]
                <5>1. i - 1 \in 0..k /\ i - 1 # k
                    BY <2>3, <4>1, <4>2
                <5> QED BY <5>1
            <4> HIDE DEF h
            <4> QED BY <2>6, <4>1, <4>2
        <3> QED BY <3>1, <3>2
    <2>8. Recursive(h, k)
        <3>1. h = [i \in 0..k |-> h[i]]
            OBVIOUS
        <3> HIDE DEF h
        <3> QED BY <2>7, <3>1
    <2>9. k \in T
        OBVIOUS
    <2>10. \A f1 : ~Recursive(f1, k)
        BY <2>9
    <2> HIDE DEF Recursive, h
    <2> QED BY <2>8, <2>10
<1>3. \E f : Recursive(f, n)
    <2>1. n \in 0..n
        BY <1>1
    <2>2. n \notin T
        <3> HIDE DEF T
        <3> QED BY <1>2
    <2> HIDE DEF Recursive
    <2> QED BY <2>1, <2>2
<1>4. PICK f : f = (CHOOSE h : Recursive(h, n)) /\ Recursive(f, n)
    BY <1>3
<1>5. ContainsRange(address, size, c, o) <=> f[n] = end
    BY <1>1, <1>4 DEF ContainsRange
<1>6. \A i \in 0..n : f[i] = IF i = 0 THEN address
                             ELSE NextCursor(f[i - 1], spans[i], address, end, c, o)
    BY <1>4
<1>7. f[0] = address
    BY <1>1, <1>6, 0 \in 0..n
<1>8. ASSUME NEW k \in 1..n PROVE f[k] = NextCursor(f[k - 1], spans[k], address, end, c, o)
    <2>1. k \in 0..n /\ k # 0
        BY <1>1
    <2> QED BY <1>6, <2>1
<1> HIDE DEF Recursive, T
<1> QED BY <1>1, <1>5, <1>7, <1>8 DEF IsContainsWalk

\* What the walk has passed holds the content, and it passes a span that
\* covers the range to the end (Contains).
LEMMA ContainsExact ==
    ASSUME Words \in Nat, MemoryInv, NEW address \in Nat, NEW size \in Nat, NEW c, NEW o \in Nat
    PROVE  ContainsRange(address, size, c, o) <=> WordsHold(address, size, c, o)
<1>1. CASE size = 0
    BY <1>1 DEF ContainsRange, WordsHold
<1>2. CASE size # 0
    <2>1. PICK end \in Nat, n \in Nat : end = address + size /\ n = Len(spans) /\ IsMaximal(spans)
        BY MaximalTyped DEF MemoryInv
    <2>2. PICK f : /\ ContainsRange(address, size, c, o) <=> f[n] = end
                   /\ f[0] = address
                   /\ \A k \in 1..n : f[k] = NextCursor(f[k - 1], spans[k], address, end, c, o)
        <3>1. PICK f : IsContainsWalk(f, address, size, c, o)
            BY <1>2, <2>1, CursorsExist
        <3> QED BY <2>1, <3>1 DEF IsContainsWalk
    <2>3. \A k \in 1..n : /\ spans[k].begin \in Nat /\ spans[k].end \in Nat
                          /\ spans[k].offset \in Nat /\ spans[k].begin < spans[k].end
        BY <2>1, MaximalTyped
    <2> DEFINE Passed(x) == x # -1 =>
                   /\ x \in address..end
                   /\ \A a \in address..(x - 1) : ListSays(spans, a, c, o + a - address)
               D == {k \in 0..n : ~Passed(f[k])}
    <2>4. D = {}
        <3> SUFFICES ASSUME D # {} PROVE FALSE
            OBVIOUS
        <3>1. PICK k \in D : \A j \in D : k <= j
            <4>1. D \in SUBSET Nat
                BY <2>1
            <4> HIDE DEF D
            <4> QED BY <4>1, LeastElement
        <3>2. k \in 0..n /\ ~Passed(f[k])
            OBVIOUS
        <3>3. k # 0
            <4>1. Passed(address)
                BY <2>1
            <4> HIDE DEF Passed
            <4> QED BY <2>2, <3>2, <4>1
        <3>4. k - 1 \in 0..n /\ k \in 1..n /\ k - 1 \notin D
            <4> HIDE DEF D, Passed
            <4> QED BY <2>1, <3>1, <3>2, <3>3
        <3>5. PICK x, s : x = f[k - 1] /\ s = spans[k] /\ Passed(x)
            BY <3>4
        <3>6. PICK y : y = f[k] /\ y = NextCursor(x, s, address, end, c, o)
            BY <2>2, <3>4, <3>5
        <3>7. y \in {x, -1} \/
              /\ x # -1 /\ ~(s.end <= x) /\ s.begin <= x /\ s.content = c
              /\ s.offset + x - s.begin = o + x - address
              /\ y = IF s.end < end THEN s.end ELSE end
            <4>1. CASE x = -1
                BY <3>6, <4>1 DEF NextCursor
            <4>2. CASE x # -1
                <5>1. x \in Int /\ s.begin \in Nat
                    BY <2>3, <3>4, <3>5, <4>2
                <5>2. \/ y \in {x, -1}
                      \/ /\ ~(s.end <= x) /\ ~(s.begin > x) /\ s.content = c
                         /\ s.offset + x - s.begin = o + x - address
                         /\ y = IF s.end < end THEN s.end ELSE end
                    <6> HIDE DEF Passed, D
                    <6> QED BY <3>6, <4>2 DEF NextCursor
                <5> QED BY <4>2, <5>1, <5>2
            <4> QED BY <4>1, <4>2
        <3>8. CASE y \in {x, -1}
            BY <3>2, <3>5, <3>6, <3>8
        <3>9. CASE /\ x # -1 /\ ~(s.end <= x) /\ s.begin <= x /\ s.content = c
                   /\ s.offset + x - s.begin = o + x - address
                   /\ y = IF s.end < end THEN s.end ELSE end
            <4>1. x \in address..end /\ s.begin \in Nat /\ s.end \in Nat /\ s.offset \in Nat
                BY <2>3, <3>4, <3>5, <3>9
            <4>2. y \in address..end /\ y <= s.end
                BY <2>1, <3>9, <4>1
            <4>3. ASSUME NEW a \in address..(y - 1) PROVE ListSays(spans, a, c, o + a - address)
                <5>1. CASE a < x
                    <6>1. a \in address..(x - 1)
                        BY <4>1, <5>1
                    <6> QED BY <3>5, <3>9, <6>1
                <5>2. CASE x <= a
                    <6>1. s.begin <= a /\ a < s.end
                        BY <3>9, <4>1, <4>2, <5>2
                    <6>2. o + a - address = s.offset + a - s.begin
                        BY <3>9, <4>1
                    <6> QED BY <2>1, <3>4, <3>5, <3>9, <6>1, <6>2 DEF ListSays, Says
                <5> QED BY <4>1, <5>1, <5>2
            <4>4. Passed(y)
                BY <4>2, <4>3
            <4> HIDE DEF Passed
            <4> QED BY <3>2, <3>6, <4>4
        <3> QED BY <3>7, <3>8, <3>9
    <2>5. ASSUME f[n] = end PROVE WordsHold(address, size, c, o)
        <3>1. n \in 0..n /\ n \notin D
            <4> HIDE DEF D
            <4> QED BY <2>1, <2>4
        <3>2. Passed(end)
            BY <2>5, <3>1
        <3>3. end # -1
            BY <2>1
        <3>4. ASSUME NEW a \in address..(end - 1) PROVE ListSays(spans, a, c, o + a - address)
            BY <3>2, <3>3
        <3>5. ASSUME NEW k \in 0..(size - 1) PROVE ListSays(spans, address + k, c, o + k)
            <4>1. address + k \in address..(end - 1) /\ o + (address + k) - address = o + k
                BY <2>1
            <4>2. PICK a \in address..(end - 1) : a = address + k /\ o + a - address = o + k
                BY <4>1
            <4>3. ListSays(spans, a, c, o + a - address)
                BY <3>4
            <4> QED BY <4>2, <4>3
        <3>6. \E i \in 1..Len(spans) : Covers(spans[i], address, size, c, o)
            <4>1. PICK list : list = spans /\ IsMaximal(list) /\ size \in Nat \ {0} /\ o \in Int
                BY <1>2, <2>1
            <4>2. \A k \in 0..(size - 1) : ListSays(list, address + k, c, o + k)
                BY <3>5, <4>1
            <4> QED BY <4>1, <4>2, OneSpanSays
        <3> QED BY <1>2, <3>6, HoldsInSpan
    <2>6. ASSUME WordsHold(address, size, c, o) PROVE f[n] = end
        <3>1. PICK i \in 1..n : Covers(spans[i], address, size, c, o)
            BY <1>2, <2>1, <2>6, HoldsInSpan
        <3> DEFINE W == {k \in 0..n : f[k] # IF k < i THEN address ELSE end}
        <3>2. W = {}
            <4> SUFFICES ASSUME W # {} PROVE FALSE
                OBVIOUS
            <4>1. PICK k \in W : \A j \in W : k <= j
                <5>1. W \in SUBSET Nat
                    BY <2>1
                <5> HIDE DEF W
                <5> QED BY <5>1, LeastElement
            <4>2. k \in 0..n /\ f[k] # IF k < i THEN address ELSE end
                OBVIOUS
            <4>3. k # 0
                BY <2>2, <4>2
            <4>4. k - 1 \in 0..n /\ k \in 1..n /\ k - 1 \notin W
                <5> HIDE DEF W
                <5> QED BY <2>1, <4>1, <4>2, <4>3
            <4>5. f[k - 1] = IF k - 1 < i THEN address ELSE end
                BY <4>4
            <4> HIDE DEF W
            <4>6. PICK x, s : /\ x = f[k - 1] /\ s = spans[k]
                              /\ f[k] = NextCursor(x, s, address, end, c, o)
                BY <2>2, <4>4
            <4>7. /\ s.begin \in Nat /\ s.end \in Nat /\ s.offset \in Nat /\ s.begin < s.end
                BY <2>3, <4>4, <4>6
            <4>8. CASE k < i
                <5>1. x = address
                    BY <2>1, <4>4, <4>5, <4>6, <4>8
                <5>2. s.end <= spans[i].begin
                    BY <2>1, <4>4, <4>6, <4>8, MaximalOrdered
                <5>3. spans[i].begin \in Nat /\ spans[i].begin <= address
                    BY <2>3, <3>1 DEF Covers
                <5>4. s.end <= x
                    BY <4>7, <5>1, <5>2, <5>3
                <5>5. f[k] = x
                    BY <4>6, <5>4 DEF NextCursor
                <5> QED BY <4>2, <4>8, <5>1, <5>5
            <4>9. CASE k = i
                <5>1. x = address /\ s = spans[i]
                    BY <2>1, <4>4, <4>5, <4>6, <4>9
                <5>2. /\ s.begin <= address /\ address + size <= s.end /\ s.content = c
                      /\ o = s.offset + address - s.begin
                    BY <3>1, <5>1 DEF Covers
                <5>3. x \notin {-1, end} /\ ~(s.end <= x) /\ ~(s.begin > x) /\ ~(s.end < end)
                    BY <1>2, <2>1, <4>7, <5>1, <5>2
                <5>4. s.offset + x - s.begin = o + x - address
                    BY <4>7, <5>1, <5>2
                <5>5. f[k] = end
                    <6>1. end <= s.end
                        BY <2>1, <4>7, <5>3
                    <6> QED BY <4>6, <5>2, <5>3, <5>4 DEF NextCursor
                <5> QED BY <2>1, <4>2, <4>9, <5>5
            <4>10. CASE i < k
                <5>1. x = end
                    BY <2>1, <4>4, <4>5, <4>6, <4>10
                <5>2. f[k] = end
                    BY <4>6, <5>1 DEF NextCursor
                <5> QED BY <2>1, <4>2, <4>4, <4>10, <5>2
            <4> QED BY <2>1, <4>4, <4>8, <4>9, <4>10
        <3>3. n \in 0..n /\ n \notin W /\ ~(n < i)
            <4> HIDE DEF W
            <4> QED BY <2>1, <3>2
        <3> QED BY <3>3
    <2> QED BY <2>2, <2>5, <2>6
<1> QED BY <1>1, <1>2

\* Find returns a place that holds the content, and finds one that there is.
LEMMA FindExact ==
    ASSUME Words \in Nat, MemoryInv, NEW c, NEW o \in Nat, NEW size \in Nat \ {0},
           NEW a, a = FindContent(c, o, size)
    PROVE  IF a = -1 THEN \A r \in Ranges : r[2] = size => ~WordsHold(r[1], size, c, o)
           ELSE WordsHold(a, size, c, o)
<1>1. PICK n \in Nat : n = Len(spans) /\ DOMAIN spans = 1..n /\ IsMaximal(spans)
    BY MaximalTyped DEF MemoryInv
<1>2. \A k \in 1..n : /\ spans[k].begin \in Nat /\ spans[k].end \in Nat
                      /\ spans[k].offset \in Nat /\ spans[k].begin < spans[k].end
    BY <1>1, MaximalTyped
<1> DEFINE found == {k \in DOMAIN spans : /\ spans[k].content = c
                                         /\ o >= spans[k].offset
                                         /\ o + size <= spans[k].offset + spans[k].end - spans[k].begin}
<1>3. a = IF found = {} THEN -1 ELSE AddressOf(spans[Min(found)], o)
    BY DEF FindContent
<1>4. CASE found = {}
    <2>1. a = -1
        <3> HIDE DEF found
        <3> QED BY <1>3, <1>4
    <2>2. ASSUME NEW r \in Ranges, r[2] = size, WordsHold(r[1], size, c, o) PROVE FALSE
        <3>1. PICK b \in Nat : b = r[1]
            BY DEF Ranges
        <3>2. PICK k \in 1..n : Covers(spans[k], b, size, c, o)
            BY <1>1, <2>2, <3>1, HoldsInSpan
        <3>3. PICK s : /\ s = spans[k] /\ s.begin \in Nat /\ s.end \in Nat /\ s.offset \in Nat
                       /\ s.begin <= b /\ b + size <= s.end /\ s.content = c /\ o = s.offset + b - s.begin
            BY <1>2, <3>2 DEF Covers
        <3>4. o >= s.offset /\ o + size <= s.offset + s.end - s.begin
            BY <3>1, <3>3
        <3>5. k \in found
            BY <1>1, <3>3, <3>4
        <3> HIDE DEF found
        <3> QED BY <1>4, <3>5
    <2> QED BY <2>1, <2>2
<1>5. CASE found # {}
    <2>1. found \in SUBSET Nat
        BY <1>1
    <2>2. PICK k : k = Min(found) /\ k \in found
        <3> HIDE DEF found
        <3> QED BY <1>5, <2>1, LeastNatural
    <2>3. PICK s : /\ s = spans[k] /\ s.begin \in Nat /\ s.end \in Nat /\ s.offset \in Nat
                   /\ s.content = c /\ o >= s.offset /\ o + size <= s.offset + s.end - s.begin
        BY <1>1, <1>2, <2>2
    <2>4. k \in 1..n
        BY <1>1, <2>2
    <2>5. a = s.begin + o - s.offset
        <3> HIDE DEF found
        <3> QED BY <1>3, <1>5, <2>2, <2>3 DEF AddressOf
    <2>6. a \in Nat /\ a + size <= s.end /\ s.begin <= a /\ o = s.offset + a - s.begin
        BY <2>3, <2>5
    <2>7. \E i \in 1..Len(spans) : Covers(spans[i], a, size, c, o)
        BY <1>1, <2>3, <2>4, <2>6 DEF Covers
    <2>8. WordsHold(a, size, c, o)
        <3> HIDE DEF found
        <3> QED BY <2>6, <2>7, HoldsInSpan
    <2>9. a # -1
        BY <2>6
    <2> HIDE DEF found
    <2> QED BY <2>8, <2>9
<1> QED BY <1>4, <1>5

\* FindExtent returns a place that holds the content, up to where it ends or to
\* the limit of the caller, and finds one that there is.
LEMMA FindExtentExact ==
    ASSUME Words \in Nat, MemoryInv, NEW c, NEW o \in Nat, NEW size \in Nat \ {0},
           NEW e, e = FindExtent(c, o, size)
    PROVE  IF e = <<>> THEN \A a \in DOMAIN words : ~WordsHold(a, 1, c, o)
           ELSE /\ WordsHold(e[1], e[2], c, o)
                /\ e[2] = size \/ ~WordsHold(e[1], e[2] + 1, c, o)
<1>1. PICK n \in Nat : n = Len(spans) /\ DOMAIN spans = 1..n /\ IsMaximal(spans)
    BY MaximalTyped DEF MemoryInv
<1>2. \A k \in 1..n : /\ spans[k].begin \in Nat /\ spans[k].end \in Nat
                      /\ spans[k].offset \in Nat /\ spans[k].begin < spans[k].end
    BY <1>1, MaximalTyped
<1> DEFINE found == {k \in DOMAIN spans : HasOffset(spans[k], c, o)}
           first == spans[Min(found)]
           left == first.offset + first.end - first.begin - o
<1>3. e = IF found = {} THEN <<>>
          ELSE <<AddressOf(first, o), IF left < size THEN left ELSE size>>
    BY DEF FindExtent
<1>4. CASE found = {}
    <2>1. e = <<>>
        <3> HIDE DEF found, first, left
        <3> QED BY <1>3, <1>4
    <2>2. ASSUME NEW a \in DOMAIN words, WordsHold(a, 1, c, o) PROVE FALSE
        <3>1. a \in Nat
            BY DEF MemoryInv
        <3>2. PICK k \in 1..n : Covers(spans[k], a, 1, c, o)
            BY <1>1, <2>2, <3>1, HoldsInSpan
        <3>3. PICK s : /\ s = spans[k] /\ s.begin \in Nat /\ s.end \in Nat /\ s.offset \in Nat
                       /\ s.begin <= a /\ a + 1 <= s.end /\ s.content = c /\ o = s.offset + a - s.begin
            BY <1>2, <3>2 DEF Covers
        <3>4. o >= s.offset /\ o < s.offset + s.end - s.begin
            BY <3>1, <3>3
        <3>5. k \in found
            BY <1>1, <3>3, <3>4 DEF HasOffset
        <3> HIDE DEF found
        <3> QED BY <1>4, <3>5
    <2> QED BY <2>1, <2>2
<1>5. CASE found # {}
    <2>1. found \in SUBSET Nat
        BY <1>1
    <2>2. PICK k : k = Min(found) /\ k \in found
        <3> HIDE DEF found
        <3> QED BY <1>5, <2>1, LeastNatural
    <2>3. k \in 1..n /\ HasOffset(spans[k], c, o)
        BY <1>1, <2>2
    <2>4. PICK s : /\ s = first /\ s = spans[k] /\ s.begin \in Nat /\ s.end \in Nat /\ s.offset \in Nat
                   /\ s.content = c /\ o >= s.offset /\ o < s.offset + s.end - s.begin
        <3>1. first = spans[k]
            <4> HIDE DEF found
            <4> QED BY <2>2
        <3> HIDE DEF first, found
        <3> QED BY <1>2, <2>3, <3>1 DEF HasOffset
    <2>5. PICK a \in Nat, l \in Nat : /\ a = s.begin + o - s.offset /\ l = s.offset + s.end - s.begin - o
                                      /\ s.begin <= a /\ a + l = s.end /\ l # 0
                                      /\ o = s.offset + a - s.begin
        <3>1. s.begin + o - s.offset \in Nat /\ s.offset + s.end - s.begin - o \in Nat
            BY <2>4
        <3> HIDE DEF found, first
        <3> QED BY <2>4, <3>1
    <2>6. PICK m \in Nat \ {0} : m = (IF l < size THEN l ELSE size) /\ m <= l
        <3> HIDE DEF found, first
        <3> QED BY <2>5
    <2>7. e = <<a, m>>
        <3>1. AddressOf(first, o) = a /\ left = l
            <4> HIDE DEF found, first
            <4> QED BY <2>4, <2>5 DEF AddressOf
        <3> HIDE DEF found, first, left
        <3> QED BY <1>3, <1>5, <2>6, <3>1
    <2>8. WordsHold(a, m, c, o)
        <3>1. a + m <= s.end
            <4> HIDE DEF found, first
            <4> QED BY <2>4, <2>5, <2>6
        <3>2. \E i \in 1..Len(spans) : Covers(spans[i], a, m, c, o)
            <4> HIDE DEF found, first
            <4> QED BY <1>1, <2>3, <2>4, <2>5, <3>1 DEF Covers
        <3> HIDE DEF found, first
        <3> QED BY <3>2, HoldsInSpan
    <2>9. ASSUME m # size, WordsHold(a, m + 1, c, o) PROVE FALSE
        <3>1. m = l
            <4> HIDE DEF found, first
            <4> QED BY <2>6, <2>9
        <3>2. m + 1 \in Nat \ {0} /\ o \in Int
            OBVIOUS
        <3>3. PICK i \in 1..n : Covers(spans[i], a, m + 1, c, o)
            <4> HIDE DEF found, first
            <4> QED BY <1>1, <2>9, <3>2, HoldsInSpan
        <3>4. spans[i].begin <= a /\ a + (m + 1) <= spans[i].end /\ spans[i].end \in Nat
            BY <1>2, <3>3 DEF Covers
        <3> HIDE DEF found, first
        <3>5. Reaches(spans[i], a) /\ Reaches(spans[k], a)
            BY <2>4, <2>5, <3>4 DEF Reaches
        <3>6. i = k
            BY <1>1, <2>3, <3>5, OneReaches
        <3>7. a + (m + 1) <= s.end
            BY <2>4, <3>4, <3>6
        <3>8. a + l = s.end /\ a \in Nat /\ m \in Nat
            BY <2>5
        <3> QED BY <3>1, <3>7, <3>8
    <2>10. e # <<>> /\ e[1] = a /\ e[2] = m
        <3> HIDE DEF found, first
        <3> QED BY <2>7
    <2> HIDE DEF found, first
    <2> QED BY <2>8, <2>9, <2>10
<1> QED BY <1>4, <1>5

\* A round of the loop stays in the limit and passes only words that hold the
\* content, and one at least if the next does (the loop of MatchedPrefix).
LEMMA AdvanceKeeps ==
    ASSUME Words \in Nat, MemoryInv, NEW address \in Nat, NEW maxSize \in Nat, NEW c, NEW o \in Nat,
           NEW matched \in 0..maxSize, NEW r, r = Advance(address, maxSize, c, o, matched)
    PROVE  /\ r \in matched..maxSize
           /\ \A k \in matched..(r - 1) : ListSays(spans, address + k, c, o + k)
           /\ r = matched => \/ matched = maxSize
                             \/ ~ListSays(spans, address + matched, c, o + matched)
<1>1. PICK n \in Nat : n = Len(spans) /\ DOMAIN spans = 1..n /\ IsMaximal(spans)
    BY MaximalTyped DEF MemoryInv
<1>2. \A k \in 1..n : /\ spans[k].begin \in Nat /\ spans[k].end \in Nat
                      /\ spans[k].offset \in Nat /\ spans[k].begin < spans[k].end
    BY <1>1, MaximalTyped
<1>3. PICK cursor \in Nat : cursor = address + matched
    OBVIOUS
<1> DEFINE at == {k \in DOMAIN spans : spans[k].begin <= cursor /\ cursor < spans[k].end}
           s == spans[Min(at)]
           gain == IF matched + s.end - cursor < maxSize THEN matched + s.end - cursor ELSE maxSize
           other == s.content # c \/ s.offset + cursor - s.begin # o + matched
<1>4. r = IF matched = maxSize \/ at = {} THEN matched ELSE IF other THEN matched ELSE gain
    BY <1>3 DEF Advance
<1>5. CASE matched = maxSize
    <2>1. r = matched
        <3> HIDE DEF at, s, gain, other
        <3> QED BY <1>4, <1>5
    <2> HIDE DEF at, s, gain, other
    <2> QED BY <1>5, <2>1
<1>6. CASE matched # maxSize /\ at = {}
    <2>1. r = matched
        <3> HIDE DEF at, s, gain, other
        <3> QED BY <1>4, <1>6
    <2>2. ASSUME ListSays(spans, cursor, c, o + matched) PROVE FALSE
        <3>1. PICK k \in 1..n : Says(spans[k], cursor, c, o + matched)
            BY <1>1, <2>2 DEF ListSays
        <3>2. k \in at
            BY <1>1, <3>1 DEF Says
        <3> HIDE DEF at
        <3> QED BY <1>6, <3>2
    <2> HIDE DEF at, s, gain, other
    <2> QED BY <1>3, <2>1, <2>2
<1>7. CASE matched # maxSize /\ at # {}
    <2>1. at \in SUBSET Nat
        BY <1>1
    <2>2. PICK i : i = Min(at) /\ i \in at
        <3> HIDE DEF at, s, gain, other
        <3> QED BY <1>7, <2>1, LeastNatural
    <2>3. i \in 1..n /\ spans[i].begin <= cursor /\ cursor < spans[i].end
        BY <1>1, <2>2
    <2>4. s = spans[i]
        <3> HIDE DEF at
        <3> QED BY <2>2
    <2>5. PICK b \in Nat, e \in Nat, f \in Nat :
              b = spans[i].begin /\ e = spans[i].end /\ f = spans[i].offset /\ b <= cursor /\ cursor < e
        <3> HIDE DEF at, s, gain, other
        <3> QED BY <1>2, <2>3
    <2>6. CASE other
        <3>1. r = matched
            <4> HIDE DEF at, s, gain, other
            <4> QED BY <1>4, <1>7, <2>6
        <3>2. spans[i].content # c \/ f + cursor - b # o + matched
            <4>1. s.content # c \/ s.offset + cursor - s.begin # o + matched
                BY <2>6
            <4> HIDE DEF at, s, gain, other
            <4> QED BY <2>4, <2>5, <4>1
        <3> HIDE DEF at, s, gain, other
        <3>3. ASSUME ListSays(spans, cursor, c, o + matched) PROVE FALSE
            <4>1. PICK k \in 1..n : Says(spans[k], cursor, c, o + matched)
                BY <1>1, <3>3 DEF ListSays
            <4>2. Reaches(spans[k], cursor) /\ Reaches(spans[i], cursor)
                BY <2>3, <4>1 DEF Says, Reaches
            <4>3. k = i
                BY <1>1, <2>3, <4>2, OneReaches
            <4>4. spans[i].content = c /\ o + matched = spans[i].offset + cursor - spans[i].begin
                BY <4>1, <4>3 DEF Says
            <4> QED BY <2>5, <3>2, <4>4
        <3> QED BY <1>3, <3>1, <3>3
    <2>7. CASE ~other
        <3>1. spans[i].content = c /\ f + cursor - b = o + matched
            <4>1. s.content = c /\ s.offset + cursor - s.begin = o + matched
                BY <2>7
            <4> HIDE DEF at, s, gain, other
            <4> QED BY <2>4, <2>5, <4>1
        <3>2. r = IF matched + e - cursor < maxSize THEN matched + e - cursor ELSE maxSize
            <4>1. r = gain
                <5> HIDE DEF at, s, gain, other
                <5> QED BY <1>4, <1>7, <2>7
            <4>2. gain = IF matched + e - cursor < maxSize THEN matched + e - cursor ELSE maxSize
                <5> HIDE DEF at, s, other
                <5> QED BY <2>4, <2>5
            <4> HIDE DEF at, s, gain, other
            <4> QED BY <4>1, <4>2
        <3> HIDE DEF at, s, gain, other
        <3>3. r \in (matched + 1)..maxSize /\ r <= matched + e - cursor
            BY <1>7, <2>5, <3>2
        <3>4. ASSUME NEW k \in matched..(r - 1) PROVE ListSays(spans, address + k, c, o + k)
            <4>1. b <= address + k /\ address + k < e /\ o + k = f + (address + k) - b
                BY <1>3, <2>5, <3>1, <3>3
            <4> QED BY <1>1, <2>3, <2>5, <3>1, <4>1 DEF ListSays, Says
        <3> QED BY <3>3, <3>4
    <2> QED BY <2>6, <2>7
<1> QED BY <1>5, <1>6, <1>7

\* The rounds of MatchedPrefix, and its answer at the end.
IsMatching(f, address, maxSize, c, o) ==
    /\ f[0] = 0
    /\ \A k \in 1..maxSize : f[k] = Advance(address, maxSize, c, o, f[k - 1])
    /\ MatchedPrefix(address, maxSize, c, o) = f[maxSize]

LEMMA RoundsExist ==
    ASSUME NEW address, NEW n \in Nat, NEW c, NEW o
    PROVE  \E f : IsMatching(f, address, n, c, o)
<1> DEFINE Recursive(f, k) ==
               f = [i \in 0..k |-> IF i = 0 THEN 0 ELSE Advance(address, n, c, o, f[i - 1])]
           T == {k \in 0..n : ~\E f : Recursive(f, k)}
<1>2. T = {}
    <2> SUFFICES ASSUME T # {} PROVE FALSE
        OBVIOUS
    <2>1. PICK k \in T : \A j \in T : k <= j
        <3>1. T \in SUBSET Nat
            OBVIOUS
        <3> HIDE DEF T
        <3> QED BY <3>1, LeastElement
    <2>2. k # 0
        <3>1. Recursive([i \in 0..0 |-> 0], 0)
            OBVIOUS
        <3> QED BY <2>1, <3>1
    <2>3. k - 1 \in 0..n /\ k \in 1..n /\ k - 1 \notin T
        <3>1. k \in 0..n
            OBVIOUS
        <3> HIDE DEF T
        <3> QED BY <2>1, <2>2, <3>1
    <2>4. PICK f : Recursive(f, k - 1)
        BY <2>3
    <2>5. PICK v : v = Advance(address, n, c, o, f[k - 1])
        OBVIOUS
    <2> DEFINE h == [i \in 0..k |-> IF i = k THEN v ELSE f[i]]
    <2>6. \A i \in 0..(k - 1) : f[i] = IF i = 0 THEN 0 ELSE Advance(address, n, c, o, f[i - 1])
        BY <2>4
    <2>7. ASSUME NEW i \in 0..k PROVE h[i] = IF i = 0 THEN 0 ELSE Advance(address, n, c, o, h[i - 1])
        <3>1. CASE i = k
            <4>1. h[i] = v /\ i # 0 /\ i - 1 \in 0..k /\ i - 1 # k
                BY <2>2, <2>3, <3>1
            <4>2. h[i - 1] = f[i - 1]
                BY <4>1
            <4> HIDE DEF h
            <4> QED BY <2>5, <3>1, <4>1, <4>2
        <3>2. CASE i # k
            <4>1. h[i] = f[i] /\ i \in 0..(k - 1)
                BY <2>3, <3>2
            <4>2. ASSUME i # 0 PROVE h[i - 1] = f[i - 1]
                <5>1. i - 1 \in 0..k /\ i - 1 # k
                    BY <2>3, <4>1, <4>2
                <5> QED BY <5>1
            <4> HIDE DEF h
            <4> QED BY <2>6, <4>1, <4>2
        <3> QED BY <3>1, <3>2
    <2>8. Recursive(h, k)
        <3>1. h = [i \in 0..k |-> h[i]]
            OBVIOUS
        <3> HIDE DEF h
        <3> QED BY <2>7, <3>1
    <2>9. \A f1 : ~Recursive(f1, k)
        OBVIOUS
    <2> HIDE DEF Recursive, h
    <2> QED BY <2>8, <2>9
<1>3. \E f : Recursive(f, n)
    <2>1. n \notin T
        <3> HIDE DEF T
        <3> QED BY <1>2
    <2> HIDE DEF Recursive
    <2> QED BY <2>1
<1>4. PICK f : f = (CHOOSE h : Recursive(h, n)) /\ Recursive(f, n)
    BY <1>3
<1>5. MatchedPrefix(address, n, c, o) = f[n]
    BY <1>4 DEF MatchedPrefix
<1>6. \A i \in 0..n : f[i] = IF i = 0 THEN 0 ELSE Advance(address, n, c, o, f[i - 1])
    BY <1>4
<1>7. f[0] = 0
    BY <1>6, 0 \in 0..n
<1>8. ASSUME NEW k \in 1..n PROVE f[k] = Advance(address, n, c, o, f[k - 1])
    <2>1. k \in 0..n /\ k # 0
        OBVIOUS
    <2> QED BY <1>6, <2>1
<1> HIDE DEF Recursive, T
<1> QED BY <1>5, <1>7, <1>8 DEF IsMatching

\* What is matched holds the content, and a longer range does not.
LEMMA MatchedPrefixExact ==
    ASSUME Words \in Nat, MemoryInv, NEW address \in Nat, NEW size \in Nat, NEW c, NEW o \in Nat,
           NEW m, m = MatchedPrefix(address, size, c, o)
    PROVE  WordsHold(address, m, c, o) /\ (m = size \/ ~WordsHold(address, m + 1, c, o))
<1>1. PICK f : IsMatching(f, address, size, c, o)
    BY RoundsExist
<1>2. /\ f[0] = 0 /\ m = f[size]
      /\ \A k \in 1..size : f[k] = Advance(address, size, c, o, f[k - 1])
    BY <1>1 DEF IsMatching
<1>3. IsMaximal(spans) /\ IsTrueOf(spans, words) /\ DOMAIN words = 0..(Words - 1)
    BY DEF MemoryInv
<1> DEFINE Stuck(x) == x = size \/ ~ListSays(spans, address + x, c, o + x)
           Matches(x, k) == /\ x \in 0..size
                            /\ \A i \in 0..(x - 1) : ListSays(spans, address + i, c, o + i)
                            /\ x >= k \/ Stuck(x)
           D == {k \in 0..size : ~Matches(f[k], k)}
<1>4. D = {}
    <2> SUFFICES ASSUME D # {} PROVE FALSE
        OBVIOUS
    <2>1. PICK k \in D : \A j \in D : k <= j
        <3>1. D \in SUBSET Nat
            OBVIOUS
        <3> HIDE DEF D
        <3> QED BY <3>1, LeastElement
    <2>2. k \in 0..size /\ ~Matches(f[k], k)
        OBVIOUS
    <2>3. k # 0
        <3>1. Matches(0, 0)
            OBVIOUS
        <3> HIDE DEF Matches
        <3> QED BY <1>2, <2>2, <3>1
    <2>4. k - 1 \in 0..size /\ k \in 1..size /\ k - 1 \notin D
        <3> HIDE DEF D, Matches
        <3> QED BY <2>1, <2>2, <2>3
    <2>5. PICK x, y : x = f[k - 1] /\ y = f[k] /\ Matches(x, k - 1)
        BY <2>4
    <2>6. y = Advance(address, size, c, o, x)
        BY <1>2, <2>4, <2>5
    <2>7. /\ x \in 0..size
          /\ \A i \in 0..(x - 1) : ListSays(spans, address + i, c, o + i)
          /\ x >= k - 1 \/ Stuck(x)
        BY <2>5
    <2>8. /\ y \in x..size
          /\ \A i \in x..(y - 1) : ListSays(spans, address + i, c, o + i)
          /\ y = x => Stuck(x)
        <3>1. /\ y \in x..size
              /\ \A i \in x..(y - 1) : ListSays(spans, address + i, c, o + i)
              /\ y = x => x = size \/ ~ListSays(spans, address + x, c, o + x)
            <4> HIDE DEF Stuck, Matches, D
            <4> QED BY <2>6, <2>7, AdvanceKeeps
        <3> QED BY <3>1
    <2>9. y \in 0..size
        <3> HIDE DEF Stuck, Matches, D
        <3> QED BY <2>7, <2>8
    <2>10. ASSUME NEW i \in 0..(y - 1) PROVE ListSays(spans, address + i, c, o + i)
        <3>1. i \in 0..(x - 1) \/ i \in x..(y - 1)
            <4> HIDE DEF Stuck, Matches, D
            <4> QED BY <2>7, <2>8
        <3> HIDE DEF Stuck, Matches, D
        <3> QED BY <2>7, <2>8, <3>1
    <2>11. y >= k \/ Stuck(y)
        <3>1. CASE y = x
            <4> HIDE DEF Stuck, Matches, D
            <4> QED BY <2>8, <3>1
        <3>2. CASE y # x
            <4>1. y > x /\ x \in Int /\ y \in Int /\ k \in Int
                <5> HIDE DEF Stuck, Matches, D
                <5> QED BY <2>4, <2>7, <2>8, <3>2
            <4>2. CASE x >= k - 1
                <5> HIDE DEF Stuck, Matches, D
                <5> QED BY <4>1, <4>2
            <4>3. CASE x = size
                <5> HIDE DEF Stuck, Matches, D
                <5> QED BY <2>8, <4>1, <4>3
            <4>4. CASE x # size /\ ~ListSays(spans, address + x, c, o + x)
                <5>1. x \in x..(y - 1)
                    <6> HIDE DEF Stuck, Matches, D
                    <6> QED BY <4>1
                <5> HIDE DEF Stuck, Matches, D
                <5> QED BY <2>8, <4>4, <5>1
            <4> QED BY <2>7, <4>2, <4>3, <4>4
        <3> QED BY <3>1, <3>2
    <2>12. Matches(y, k)
        BY <2>9, <2>10, <2>11
    <2> HIDE DEF Matches
    <2> QED BY <2>2, <2>5, <2>12
<1>5. Matches(m, size)
    <2>1. size \in 0..size /\ size \notin D
        <3> HIDE DEF D
        <3> QED BY <1>4
    <2>2. Matches(f[size], size)
        BY <2>1
    <2> HIDE DEF Matches
    <2> QED BY <1>2, <2>2
<1>6. /\ m \in 0..size /\ \A i \in 0..(m - 1) : ListSays(spans, address + i, c, o + i)
      /\ m = size \/ ~ListSays(spans, address + m, c, o + m)
    <2>1. m \in 0..size /\ (m >= size \/ Stuck(m))
        BY <1>5
    <2>2. \A i \in 0..(m - 1) : ListSays(spans, address + i, c, o + i)
        BY <1>5
    <2>3. m = size \/ Stuck(m)
        <3> HIDE DEF Stuck, Matches, D
        <3> QED BY <2>1
    <2> QED BY <2>1, <2>2, <2>3
<1> HIDE DEF Stuck, Matches, D
<1>7. WordsHold(address, m, c, o)
    <2>1. CASE m = 0
        BY <2>1 DEF WordsHold
    <2>2. CASE m # 0
        <3>1. PICK list : list = spans /\ IsMaximal(list) /\ m \in Nat \ {0} /\ o \in Int
            BY <1>3, <1>6, <2>2
        <3>2. \E i \in 1..Len(list) : Covers(list[i], address, m, c, o)
            <4>1. \A i \in 0..(m - 1) : ListSays(list, address + i, c, o + i)
                BY <1>6, <3>1
            <4> QED BY <3>1, <4>1, OneSpanSays
        <3> QED BY <3>1, <3>2, HoldsInSpan
    <2> QED BY <2>1, <2>2
<1>8. ASSUME m # size, WordsHold(address, m + 1, c, o) PROVE FALSE
    <2>1. m \in 0..((m + 1) - 1)
        BY <1>6
    <2>2. address + m \in 0..(Words - 1) /\ words[address + m] = <<c, o + m>>
        BY <1>3, <1>8, <2>1 DEF WordsHold
    <2>3. ListSays(spans, address + m, c, o + m)
        BY <1>3, <2>2 DEF IsTrueOf
    <2> QED BY <1>6, <1>8, <2>3
<1> QED BY <1>7, <1>8

\* Whatever the sizes of the memory, the contents and the offsets, the queries
\* answer as a memory of single words would (CommandMemoryState).
THEOREM QueriesExact == MemorySpec => []QueriesAreExact
<1>0. Words \in Nat /\ Offsets \subseteq Nat
    BY MemoryAssumption
<1>1. MemoryInv => QueriesAreExact
    <2> SUFFICES ASSUME MemoryInv PROVE QueriesAreExact
        OBVIOUS
    <2>1. ContainsIsExact
        <3> SUFFICES ASSUME NEW r \in Ranges, NEW c \in Contents, NEW o \in 0..Words
                     PROVE  ContainsRange(r[1], r[2], c, o) <=> WordsHold(r[1], r[2], c, o)
            BY DEF ContainsIsExact
        <3>1. r[1] \in Nat /\ r[2] \in Nat /\ o \in Nat
            BY DEF Ranges
        <3> QED BY <1>0, <3>1, ContainsExact
    <2>2. FindIsExact
        <3> SUFFICES ASSUME NEW c \in Contents, NEW o \in 0..Words, NEW size \in 1..Words
                     PROVE  /\ LET a == FindContent(c, o, size)
                               IN  IF a = -1 THEN \A r \in Ranges :
                                                     r[2] = size => ~WordsHold(r[1], size, c, o)
                                   ELSE WordsHold(a, size, c, o)
                            /\ LET e == FindExtent(c, o, size)
                               IN  IF e = <<>> THEN \A a \in DOMAIN words : ~WordsHold(a, 1, c, o)
                                   ELSE /\ WordsHold(e[1], e[2], c, o)
                                        /\ e[2] = size \/ ~WordsHold(e[1], e[2] + 1, c, o)
            BY DEF FindIsExact
        <3>1. o \in Nat /\ size \in Nat \ {0}
            OBVIOUS
        <3>2. PICK a, e : a = FindContent(c, o, size) /\ e = FindExtent(c, o, size)
            OBVIOUS
        <3>3. IF a = -1 THEN \A r \in Ranges : r[2] = size => ~WordsHold(r[1], size, c, o)
              ELSE WordsHold(a, size, c, o)
            BY <1>0, <3>1, <3>2, FindExact
        <3>4. IF e = <<>> THEN \A x \in DOMAIN words : ~WordsHold(x, 1, c, o)
              ELSE /\ WordsHold(e[1], e[2], c, o)
                   /\ e[2] = size \/ ~WordsHold(e[1], e[2] + 1, c, o)
            BY <1>0, <3>1, <3>2, FindExtentExact
        <3> QED BY <3>2, <3>3, <3>4
    <2>3. MatchedPrefixIsLongest
        <3> SUFFICES ASSUME NEW r \in Ranges, NEW c \in Contents, NEW o \in 0..Words,
                            NEW m, m = MatchedPrefix(r[1], r[2], c, o)
                     PROVE  WordsHold(r[1], m, c, o) /\ (m = r[2] \/ ~WordsHold(r[1], m + 1, c, o))
            BY DEF MatchedPrefixIsLongest
        <3>1. PICK address \in Nat, size \in Nat : address = r[1] /\ size = r[2]
            BY DEF Ranges
        <3>2. o \in Nat /\ m = MatchedPrefix(address, size, c, o)
            BY <3>1
        <3> QED BY <1>0, <3>1, <3>2, MatchedPrefixExact
    <2>4. SpansAreMaximal
        BY MaximalTyped DEF SpansAreMaximal, MemoryInv, IsMaximal
    <2> QED BY <2>1, <2>2, <2>3, <2>4 DEF QueriesAreExact
<1> QED BY <1>1, MemoryCorrect, PTL

=============================================================================
