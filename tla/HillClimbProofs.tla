--------------------------- MODULE HillClimbProofs --------------------------
(***************************************************************************)
(* The hill climbing search implements the allocator's promise: whatever   *)
(* it tries, undoes and keeps, the addresses it ends with let no two       *)
(* ranges that are alive together share a byte.                            *)
(***************************************************************************)
EXTENDS HillClimb, FiniteSetLemmas

-----------------------------------------------------------------------------
(* The heuristic order.                                                    *)

\* The list of ranges has finitely many numbers.
LEMMA RangeFacts ==
    ASSUME ranges \in RangeSets
    PROVE  /\ ranges \in Seq(LiveRange) /\ Len(ranges) \in Nat /\ Ids = 1..Len(ranges)
           /\ IsFiniteSet(Ids) /\ Cardinality(Ids) = Len(ranges)
           /\ \A i \in Ids : /\ ranges[i].startTime \in Nat /\ ranges[i].endTime \in Int
                             /\ ranges[i].size \in Nat
<1>1. ranges \in Seq(LiveRange)
    BY HillClimbAssumption
<1>2. Len(ranges) \in Nat /\ Ids = 1..Len(ranges)
    BY <1>1 DEF Ids
<1>3. IsFiniteSet(Ids) /\ Cardinality(Ids) = Len(ranges)
    <2>1. PICK n : n = Len(ranges) /\ n \in Nat /\ Ids = 1..n
        BY <1>2
    <2>2. IsFiniteSet(1..n) /\ Cardinality(1..n) = n
        BY <2>1, IndicesCounted
    <2> QED BY <2>1, <2>2
<1>4. \A i \in Ids : ranges[i] \in LiveRange
    BY <1>1, <1>2
<1> QED BY <1>1, <1>2, <1>3, <1>4 DEF LiveRange

\* The demand at a time, and with it the urgency of a range, is a natural.
LEMMA UrgencyTyped ==
    ASSUME ranges \in RangeSets, NEW i \in Ids
    PROVE  Urgency(i) \in Nat
<1>1. ASSUME NEW t PROVE SizeAtTime(t) \in Nat
    <2> DEFINE S == {j \in Ids : t \in Lifetime(j)}
               g == [j \in S |-> ranges[j].size]
               Adds(f) == f = [s \in SUBSET S |->
                                  IF s = {} THEN 0 ELSE ranges[First(s)].size + f[s \ {First(s)}]]
               sum == CHOOSE f : Adds(f)
    <2>1. SizeAtTime(t) = sum[S]
        BY DEF SizeAtTime, MapThenSumSet, MapThenFoldSet, First
    <2>2. IsFiniteSet(S) /\ g \in [S -> Nat]
        BY RangeFacts, FS_Subset
    <2>3. \A f : Adds(f) <=> AddsUp(f, g, S)
        <3>1. \A s \in SUBSET S : s # {} => ranges[First(s)].size = g[First(s)]
            BY FirstIsMember
        <3> HIDE DEF g, S
        <3>2. ASSUME NEW f
              PROVE  [s \in SUBSET S |->
                         IF s = {} THEN 0 ELSE ranges[First(s)].size + f[s \ {First(s)}]]
                     = [s \in SUBSET S |-> IF s = {} THEN 0 ELSE g[First(s)] + f[s \ {First(s)}]]
            BY <3>1
        <3> QED BY <3>2 DEF AddsUp
    <2> HIDE DEF Adds, S, g
    <2>4. Adds(sum)
        BY <2>2, <2>3, SumExists
    <2> QED BY <2>1, <2>2, <2>3, <2>4, SumsAreNatural
<1> DEFINE demand == [t \in Lifetime(i) |-> SizeAtTime(t)]
           demands == {demand[t] : t \in Lifetime(i)}
<1>2. IsFiniteSet(Lifetime(i))
    <2>1. ranges[i].startTime \in Int /\ ranges[i].endTime \in Int
        BY RangeFacts
    <2> QED BY <2>1, FS_Interval DEF Lifetime
<1>3. IsFiniteSet(demands)
    <2> HIDE DEF demand
    <2> QED BY <1>2, FiniteImage
<1>4. IsFiniteSet(demands \cup {0}) /\ demands \cup {0} \in SUBSET Nat
    BY <1>1, <1>3, FS_AddElement
<1>5. Max(demands \cup {0}) \in Nat
    BY <1>4, GreatestNatural
<1>6. demands = {SizeAtTime(t) : t \in Lifetime(i)}
    OBVIOUS
<1> QED BY <1>5, <1>6 DEF Urgency

\* Of two ranges one is allocated before the other (SortPredicate: the index
\* breaks the last tie).
LEMMA BeforeOrders ==
    ASSUME ranges \in RangeSets
    PROVE  /\ \A i \in Ids : ~Before(i, i)
           /\ \A i, j \in Ids : i # j => Before(i, j) \/ Before(j, i)
           /\ \A i, j, k \in Ids : Before(i, j) /\ Before(j, k) => Before(i, k)
<1>1. \A i \in Ids : /\ Urgency(i) \in Nat /\ Duration(i) \in Int /\ i \in Int
                     /\ ranges[i].startTime \in Int /\ ranges[i].size \in Int
    BY RangeFacts, UrgencyTyped DEF Duration
<1>2. \A i \in Ids : ~Before(i, i)
    BY <1>1 DEF Before
<1>3. \A i, j \in Ids : i # j => Before(i, j) \/ Before(j, i)
    BY <1>1 DEF Before
<1>4. \A i, j, k \in Ids : Before(i, j) /\ Before(j, k) => Before(i, k)
    BY <1>1 DEF Before
<1> QED BY <1>2, <1>3, <1>4

\* The heuristic order names every range once (SortPredicate, Allocate).
LEMMA PrioritiesPermute ==
    ASSUME ranges \in RangeSets
    PROVE  SortedOnPrio \in Bijection(Ids, Ids)
<1> DEFINE R == {p \in Ids \X Ids : Before(p[1], p[2])}
           earlier(i) == {j \in Ids : <<j, i>> \in R}
<1>1. \A i, j \in Ids : <<i, j>> \in R <=> Before(i, j)
    OBVIOUS
<1>2. /\ \A i \in Ids : <<i, i>> \notin R
      /\ \A i, j \in Ids : i # j => <<i, j>> \in R \/ <<j, i>> \in R
      /\ \A i, j, k \in Ids : <<i, j>> \in R /\ <<j, k>> \in R => <<i, k>> \in R
    <2> HIDE DEF R
    <2> QED BY <1>1, BeforeOrders
<1>3. /\ SortedOnPrio = [k \in Ids |-> SortedOnPrio[k]]
      /\ \A k \in Ids, i \in Ids :
            Cardinality(earlier(i)) = k - 1 =>
               SortedOnPrio[k] \in Ids /\ Cardinality(earlier(SortedOnPrio[k])) = k - 1
    <2>1. \A i \in Ids : earlier(i) = {j \in Ids : Before(j, i)}
        BY <1>1
    <2> DEFINE count(i) == Cardinality({j \in Ids : Before(j, i)})
    <2>2. SortedOnPrio = [k \in Ids |-> CHOOSE i \in Ids : count(i) = k - 1]
        BY DEF SortedOnPrio
    <2>3. \A i \in Ids : count(i) = Cardinality(earlier(i))
        BY <2>1
    <2> HIDE DEF R, earlier, count
    <2>4. ASSUME NEW k \in Ids, NEW i \in Ids, count(i) = k - 1
          PROVE  SortedOnPrio[k] \in Ids /\ count(SortedOnPrio[k]) = k - 1
        BY <2>2, <2>4
    <2>5. SortedOnPrio = [k \in Ids |-> SortedOnPrio[k]]
        BY <2>2
    <2> QED BY <2>3, <2>4, <2>5
<1>4. PICK n : n = Cardinality(Ids) /\ Ids = 1..n
    BY RangeFacts
<1>5. IsFiniteSet(Ids)
    BY RangeFacts
<1>6. SortedOnPrio \in Bijection(1..n, Ids)
    <2> HIDE DEF R
    <2> QED BY <1>2, <1>3, <1>4, <1>5, SortingPermutes, ZenonT(40)
<1> QED BY <1>4, <1>6

-----------------------------------------------------------------------------
(* What the search maintains.                                              *)

Allocated == [address : Nat \cup {NotAllocated}, endAddress : Nat,
              predecessor : Ids \cup {NoPredecessor}, turn : Nat]

\* The ranges of A are placed below the bound, neighbours apart, each with the
\* turn it was placed in; the others are not placed.
Solution(places, bound, A) ==
    /\ places \in [Ids -> Allocated]
    /\ \A i \in Ids : places[i].address # NotAllocated <=> i \in A
    /\ \A i \in A : /\ places[i].endAddress = places[i].address + ranges[i].size
                    /\ places[i].endAddress <= bound
                    /\ places[i].turn \in Ids
    /\ \A i \in A : \A j \in A \cap Neighbours(i) :
          \/ places[i].endAddress <= places[j].address
          \/ places[j].endAddress <= places[i].address

\* A pass cannot outgrow MAX_ADDRESS, the bound of the first one.
PassFits ==
    \E largest \in 0..Infinite :
        /\ \A i \in Ids : ranges[i].size <= largest
        /\ Len(ranges) * largest <= Infinite
        /\ size <= (turn - 1) * largest

InPass == {indices[k] : k \in 1..(turn - 1)}

SearchInv ==
    /\ TypeOK
    /\ phase = "start" => Begins
    /\ phase = "allocate" => Solution(lrs, size, InPass) /\ PassFits
    /\ phase \in {"allocate", "search"} /\ iteration > 0 => iteration <= MaxIterations
    /\ iteration = 0 => best.size = Infinite
    /\ iteration > 0 => Solution(best.lrs, best.size, Ids)
    /\ phase \in {"search", "done"} =>
          iteration > 0 /\ lrs = best.lrs /\ indices = best.indices

\* Placing depends on the input alone, which no step changes.
LEMMA SolutionKeeps ==
    ASSUME NEW places, NEW bound, NEW A, ranges' = ranges, Solution(places, bound, A)
    PROVE  Solution(places, bound, A)'
BY DEF Solution, Allocated, Ids, Neighbours, IsNeighbour

\* The address at which AllocateLr stops is that of the area or the end of a
\* neighbour, and nothing placed and alive with the range overlaps it there.
LEMMA LowestIsFree ==
    ASSUME ranges \in RangeSets, size \in Nat, NEW A \in SUBSET Ids, Solution(lrs, size, A),
           NEW i \in Ids
    PROVE  /\ LowestFree(i) \in Candidates(i) /\ LowestFree(i) \in 0..size
           /\ Free(i, LowestFree(i))
<1>1. \A j \in Ids : IsAllocated(j) => j \in A /\ lrs[j].endAddress \in 0..size
    BY DEF Solution, Allocated, IsAllocated
<1>2. Neighbours(i) \subseteq Ids
    BY DEF Neighbours
<1>3. Candidates(i) \in SUBSET (0..size) /\ 0 \in Candidates(i)
    BY <1>1, <1>2 DEF Candidates
<1>4. PICK c \in Candidates(i) : \A d \in Candidates(i) : d <= c
    BY <1>3, GreatestElement
<1>5. Free(i, c)
    <2>1. ASSUME NEW j \in Neighbours(i), IsAllocated(j) PROVE ~(c < lrs[j].endAddress)
        <3>1. lrs[j].endAddress \in Candidates(i)
            BY <2>1 DEF Candidates
        <3> QED BY <1>3, <1>4, <3>1
    <2> QED BY <2>1 DEF Free, Overlaps
<1> DEFINE F == {a \in Candidates(i) : Free(i, a)}
<1>6. F \in SUBSET Nat /\ F # {}
    BY <1>3, <1>4, <1>5
<1>7. Min(F) \in F
    BY <1>6, LeastNatural
<1> QED BY <1>3, <1>7 DEF LowestFree

\* The greater of two addresses.
LEMMA MaxOfTwo ==
    ASSUME NEW a \in Nat, NEW b \in Nat
    PROVE  Max({a, b}) \in {a, b} /\ a <= Max({a, b}) /\ b <= Max({a, b})
<1>1. IsFiniteSet({a}) /\ {a, b} = {a} \cup {b}
    BY FS_Singleton
<1>2. IsFiniteSet({a, b})
    BY <1>1, FS_AddElement
<1> QED BY <1>2, GreatestNatural

\* Swapping two turns leaves an order in which each range comes once.
LEMMA SwappedPermutes ==
    ASSUME NEW order \in Bijection(Ids, Ids), NEW a \in Ids, NEW b \in Ids
    PROVE  Swapped(order, a, b) \in Bijection(Ids, Ids)
<1>1. /\ order \in [Ids -> Ids]
      /\ \A k, l \in Ids : order[k] = order[l] => k = l
      /\ \A i \in Ids : \E k \in Ids : order[k] = i
    BY DEF Bijection, Injection, Surjection, IsInjective
<1> DEFINE new == Swapped(order, a, b)
<1>2. /\ new \in [Ids -> Ids]
      /\ \A k \in Ids : new[k] = IF k = b THEN order[a] ELSE IF k = a THEN order[b] ELSE order[k]
    BY <1>1 DEF Swapped
<1> HIDE DEF new
<1>3. \A k, l \in Ids : new[k] = new[l] => k = l
    BY <1>1, <1>2
<1>4. \A i \in Ids : \E k \in Ids : new[k] = i
    BY <1>1, <1>2
<1>5. new \in Bijection(Ids, Ids)
    BY <1>2, <1>3, <1>4 DEF Bijection, Injection, Surjection, IsInjective
<1> QED BY <1>5 DEF new

\* However often AttemptBottleneckFix swaps, an order stays a permutation.
LEMMA SwapsPermute ==
    ASSUME NEW order \in Bijection(Ids, Ids), NEW turns \in SUBSET Ids, NEW last \in Ids,
           NEW new \in Swaps(order, turns, last)
    PROVE  new \in Bijection(Ids, Ids)
BY SwappedPermutes DEF Swaps

\* The turns the search picks from are turns of the last pass.
LEMMA TurnsAreTurns ==
    ASSUME ranges \in RangeSets, NEW bound, Solution(lrs, bound, Ids), NEW S \in SUBSET Ids
    PROVE  Turns(S) \in SUBSET Ids
BY DEF Turns, Solution

-----------------------------------------------------------------------------
(* The search maintains it.                                                *)

\* The first pass ends below MAX_ADDRESS, and so places every range.
LEMMA FirstPassEnds ==
    ASSUME SearchInv, PassFits
    PROVE  size <= Infinite
<1>1. PICK largest \in 0..Infinite :
          Len(ranges) * largest <= Infinite /\ size <= (turn - 1) * largest
    BY DEF PassFits
<1>2. /\ Len(ranges) \in Nat /\ turn - 1 \in 0..Len(ranges) /\ largest \in Nat
      /\ Infinite \in Nat /\ size \in Nat
    BY RangeFacts, HillClimbAssumption DEF SearchInv, TypeOK
<1>3. \A n, t, m \in Nat : t <= n => t * m <= n * m
    OBVIOUS
<1>4. /\ (turn - 1) * largest <= Len(ranges) * largest
      /\ (turn - 1) * largest \in Nat /\ Len(ranges) * largest \in Nat
    BY <1>2, <1>3
<1> QED BY <1>1, <1>2, <1>4

\* A pass that reached the last turn placed every range.
LEMMA PassIsComplete ==
    ASSUME SearchInv, phase = "allocate", size <= best.size, ~PassContinues
    PROVE  Solution(lrs, size, Ids)
<1>1. Ids = 1..Len(ranges) /\ Len(ranges) \in Nat
    BY RangeFacts DEF SearchInv, TypeOK
<1>2. turn = Len(ranges) + 1
    BY <1>1 DEF SearchInv, TypeOK, PassContinues
<1>3. indices \in [Ids -> Ids] /\ \A i \in Ids : \E k \in Ids : indices[k] = i
    BY DEF SearchInv, TypeOK, Bijection, Injection, Surjection
<1>4. InPass = Ids
    <2>1. 1..(turn - 1) = Ids
        BY <1>1, <1>2
    <2> QED BY <1>3, <2>1 DEF InPass
<1> QED BY <1>4 DEF SearchInv

\* Nothing is placed at first.
LEMMA SearchBegins == Init => SearchInv
<1> SUFFICES ASSUME Init PROVE SearchInv
    OBVIOUS
<1>1. Len(ranges) \in Nat
    BY RangeFacts DEF Init
<1>2. TypeOK
    BY <1>1, HillClimbAssumption DEF Init, Begins, NoSolution, TypeOK
<1> QED BY <1>2 DEF Init, Begins, NoSolution, SearchInv

\* The first order is a permutation of the ranges (SortIndicesOnPrio).
LEMMA SetLiveRangesKeeps == SearchInv /\ SetLiveRanges => SearchInv'
<1> SUFFICES ASSUME SearchInv, SetLiveRanges PROVE SearchInv'
    OBVIOUS
<1>1. /\ ranges \in RangeSets /\ turn = 1 /\ size = 0 /\ iteration = 0 /\ best.size = Infinite
      /\ Len(ranges) \in Nat
    BY RangeFacts DEF SearchInv, TypeOK, SetLiveRanges, Begins, NoSolution
<1>2. Solution([i \in Ids |-> Unallocated], 0, {})
    BY DEF Solution, Allocated, Unallocated, NotAllocated
<1>3. Solution(lrs, 0, {})'
    BY <1>2, SolutionKeeps DEF SetLiveRanges
<1>4. InPass' = {}
    BY <1>1 DEF InPass, SetLiveRanges
<1>5. PassFits'
    <2>1. PICK largest \in 0..Infinite :
              Len(ranges) * largest <= Infinite /\ \A i \in Ids : ranges[i].size <= largest
        BY <1>1, AddressesAssumption DEF Ids
    <2>2. 0 <= (1 - 1) * largest
        BY <2>1, HillClimbAssumption
    <2> QED BY <1>1, <2>1, <2>2 DEF SetLiveRanges, PassFits, Ids
<1>6. TypeOK'
    <2>1. indices' \in Bijection(Ids, Ids)
        BY <1>1, PrioritiesPermute DEF SetLiveRanges
    <2>2. lrs' \in [Ids -> Allocated]
        BY DEF SetLiveRanges, Allocated, Unallocated
    <2> QED BY <1>1, <2>1, <2>2 DEF SearchInv, TypeOK, SetLiveRanges, Ids, Allocated
<1>7. Solution(lrs, size, InPass)'
    BY <1>1, <1>3, <1>4 DEF SetLiveRanges
<1> QED BY <1>1, <1>5, <1>6, <1>7 DEF SetLiveRanges, SearchInv

\* A range is placed free of its neighbours and inside the addresses, so the
\* ranges placed in this pass stay free of overlap (AllocateLr).
LEMMA AllocateLrKeeps == SearchInv /\ AllocateLr => SearchInv'
<1> SUFFICES ASSUME SearchInv, AllocateLr PROVE SearchInv'
    OBVIOUS
<1>1. /\ Ids = 1..Len(ranges) /\ Len(ranges) \in Nat /\ Ids' = Ids
      /\ \A i \in Ids : ranges[i].size \in Nat
    BY RangeFacts DEF SearchInv, TypeOK, AllocateLr, Ids
<1>2. /\ turn \in Ids /\ size \in Nat /\ ranges \in RangeSets
      /\ Solution(lrs, size, InPass) /\ PassFits
    BY <1>1 DEF SearchInv, TypeOK, AllocateLr, PassContinues
<1>3. /\ indices \in [Ids -> Ids]
      /\ \A k, l \in Ids : indices[k] = indices[l] => k = l
    BY DEF SearchInv, TypeOK, AllocateLr, Bijection, Injection, IsInjective
<1>4. PICK i, a : i = indices[turn] /\ a = LowestFree(i)
    OBVIOUS
<1>5. InPass \in SUBSET Ids /\ i \in Ids /\ i \notin InPass
    BY <1>1, <1>2, <1>3, <1>4 DEF InPass
<1>6. a \in Candidates(i) /\ a \in 0..size /\ Free(i, a)
    BY <1>2, <1>4, <1>5, LowestIsFree
<1>7. PICK p \in Predecessors(i, a) :
          lrs' = [lrs EXCEPT ![i] = [address |-> a, endAddress |-> a + ranges[i].size,
                                     predecessor |-> p, turn |-> turn]]
    BY <1>4 DEF AllocateLr
<1>8. p \in Ids \cup {NoPredecessor}
    BY <1>7 DEF Predecessors, Neighbours
<1>9. PICK L, z : L = lrs' /\ z = size'
    OBVIOUS
<1>10. /\ L \in [Ids -> Allocated]
       /\ \A j \in Ids : j # i => L[j] = lrs[j]
       /\ L[i].address = a /\ L[i].endAddress = a + ranges[i].size /\ L[i].turn = turn
    <2>1. lrs \in [Ids -> Allocated]
        BY <1>2 DEF Solution
    <2>2. [address |-> a, endAddress |-> a + ranges[i].size, predecessor |-> p, turn |-> turn]
          \in Allocated
        BY <1>1, <1>2, <1>5, <1>6, <1>8 DEF Allocated
    <2> QED BY <1>5, <1>7, <1>9, <2>1, <2>2
<1>11. z \in Nat /\ size <= z /\ a + ranges[i].size <= z /\ z \in {size, a + ranges[i].size}
    <2>1. z = Max({size, a + ranges[i].size})
        BY <1>4, <1>9 DEF AllocateLr
    <2>2. a + ranges[i].size \in Nat
        BY <1>1, <1>5, <1>6
    <2> QED BY <1>2, <2>1, <2>2, MaxOfTwo
<1>12. Solution(L, z, InPass \cup {i})
    <2> DEFINE A == InPass \cup {i}
               Apart(M, j, k) ==
                   M[j].endAddress <= M[k].address \/ M[k].endAddress <= M[j].address
    <2>1. \A j \in Ids : L[j].address # NotAllocated <=> j \in A
        BY <1>2, <1>6, <1>10 DEF Solution, NotAllocated
    <2>2. \A j \in A : /\ L[j].endAddress = L[j].address + ranges[j].size
                       /\ L[j].endAddress <= z /\ L[j].turn \in Ids
        <3>1. ASSUME NEW j \in InPass
              PROVE  /\ lrs[j].endAddress = lrs[j].address + ranges[j].size
                     /\ lrs[j].endAddress \in Nat /\ lrs[j].endAddress <= size
                     /\ lrs[j].turn \in Ids /\ L[j] = lrs[j]
            BY <1>2, <1>5, <1>10, <3>1 DEF Solution, Allocated
        <3> QED BY <1>2, <1>10, <1>11, <3>1
    <2>3. ASSUME NEW j \in Ids, j \in InPass, j \in Neighbours(i)
          PROVE  Apart(L, i, j)
        <3>1. IsAllocated(j) /\ lrs[j].address \in Int /\ lrs[j].endAddress \in Int
            BY <1>2, <2>3 DEF Solution, IsAllocated, Allocated, NotAllocated
        <3>2. ~Overlaps(j, a, ranges[i].size)
            BY <1>6, <2>3, <3>1 DEF Free
        <3>3. L[j] = lrs[j]
            BY <1>5, <1>10, <2>3
        <3> QED BY <1>1, <1>5, <1>6, <1>10, <3>1, <3>2, <3>3 DEF Overlaps
    <2>4. \A j, k \in Ids : j \in Neighbours(k) <=> k \in Neighbours(j)
        BY DEF Neighbours, IsNeighbour
    <2>5. ASSUME NEW j \in InPass, NEW k \in InPass, k \in Neighbours(j)
          PROVE  Apart(L, j, k)
        <3>1. Apart(lrs, j, k)
            BY <1>2, <2>5 DEF Solution
        <3>2. L[j] = lrs[j] /\ L[k] = lrs[k]
            BY <1>5, <1>10
        <3> QED BY <3>1, <3>2
    <2>6. \A j \in A : \A k \in A \cap Neighbours(j) : Apart(L, j, k)
        <3> SUFFICES ASSUME NEW j \in A, NEW k \in A, k \in Neighbours(j) PROVE Apart(L, j, k)
            OBVIOUS
        <3>1. k # j /\ j \in Ids /\ k \in Ids
            BY <1>5 DEF Neighbours
        <3>2. CASE j \in InPass /\ k \in InPass
            BY <2>5, <3>2
        <3>3. CASE j = i /\ k \in InPass
            BY <2>3, <3>1, <3>3
        <3>4. CASE k = i /\ j \in InPass
            BY <2>3, <2>4, <3>1, <3>4
        <3> QED BY <3>1, <3>2, <3>3, <3>4
    <2> QED BY <1>10, <2>1, <2>2, <2>6 DEF Solution
<1>13. InPass' = InPass \cup {i}
    <2>1. 1..(turn' - 1) = 1..(turn - 1) \cup {turn} /\ indices' = indices
        BY <1>1, <1>2 DEF AllocateLr
    <2> QED BY <1>4, <2>1 DEF InPass
<1>14. Solution(lrs, size, InPass)'
    <2>1. PICK A : A = InPass \cup {i}
        OBVIOUS
    <2>2. Solution(L, z, A)'
        BY <1>12, <2>1, SolutionKeeps DEF AllocateLr
    <2> QED BY <1>9, <1>13, <2>1, <2>2
<1>15. PassFits'
    <2>1. PICK largest \in 0..Infinite :
              /\ \A j \in Ids : ranges[j].size <= largest
              /\ Len(ranges) * largest <= Infinite
              /\ size <= (turn - 1) * largest
        BY <1>2 DEF PassFits
    <2>2. largest \in Nat /\ turn - 1 \in Nat
        BY <1>1, <1>2, <2>1, HillClimbAssumption
    <2>3. turn' - 1 = turn /\ (turn - 1) * largest + largest = turn * largest
        BY <1>1, <1>2, <2>2 DEF AllocateLr
    <2>4. z <= (turn - 1) * largest + largest
        <3>1. ranges[i].size <= largest /\ (turn - 1) * largest \in Nat
            BY <1>5, <2>1, <2>2
        <3> QED BY <1>1, <1>2, <1>5, <1>6, <1>11, <2>1, <2>2, <3>1
    <2>5. size' <= (turn' - 1) * largest
        BY <1>9, <2>3, <2>4
    <2>6. ranges' = ranges
        BY DEF AllocateLr
    <2> QED BY <1>1, <2>1, <2>5, <2>6 DEF PassFits
<1>16. TypeOK'
    <2>1. lrs' \in [Ids' -> Allocated] /\ Ids' = Ids /\ size' \in Nat
        BY <1>1, <1>9, <1>10, <1>11
    <2>2. turn' \in 1..(Len(ranges') + 1)
        BY <1>1, <1>2 DEF AllocateLr
    <2> QED BY <2>1, <2>2 DEF SearchInv, TypeOK, AllocateLr, Allocated
<1>17. best' = best /\ iteration' = iteration /\ phase' = "allocate"
    BY DEF AllocateLr
<1>18. iteration > 0 => Solution(best.lrs, best.size, Ids)'
    BY <1>1, <1>17, SolutionKeeps DEF SearchInv, AllocateLr
<1> QED BY <1>14, <1>15, <1>16, <1>17, <1>18 DEF SearchInv, AllocateLr

\* The heuristic pass is never cut short: the limit it runs under is the largest
\* address (bestSize = MAX_ADDRESS in Allocate).
LEMMA EndHeuristicKeeps == SearchInv /\ EndHeuristic => SearchInv'
<1> SUFFICES ASSUME SearchInv, EndHeuristic PROVE SearchInv'
    OBVIOUS
<1>1. /\ ranges' = ranges /\ lrs' = lrs /\ indices' = indices /\ size' = size /\ turn' = turn
      /\ best' = [size |-> size, indices |-> indices, lrs |-> lrs] /\ iteration' = 1
      /\ lastImprovement' = 1 /\ phase' \in {"done", "search"}
      /\ phase' = "search" => MaxIterations # 0
    BY DEF EndHeuristic
<1>2. phase = "allocate" /\ PassFits /\ size <= best.size /\ ~PassContinues
    BY FirstPassEnds DEF SearchInv, EndHeuristic
<1>3. Solution(lrs, size, Ids)
    BY <1>2, PassIsComplete
<1>4. Ids' = Ids
    BY <1>1 DEF Ids
<1>5. Solution(best.lrs, best.size, Ids)'
    BY <1>1, <1>3, <1>4, SolutionKeeps
<1>6. TypeOK'
    BY <1>1, <1>2, <1>4, HillClimbAssumption DEF SearchInv, TypeOK
<1> QED BY <1>1, <1>5, <1>6, HillClimbAssumption DEF SearchInv

\* A pass becomes the best one only if it was completed (Search).
LEMMA EndPassKeeps == SearchInv /\ EndPass => SearchInv'
<1> SUFFICES ASSUME SearchInv, EndPass PROVE SearchInv'
    OBVIOUS
<1>1. /\ ranges' = ranges /\ size' = size /\ turn' = turn /\ iteration' = iteration + 1
      /\ phase' \in {"done", "search"} /\ Ids' = Ids
      /\ iteration \in Nat /\ iteration > 0 /\ iteration <= MaxIterations
      /\ phase' = "search" => iteration # MaxIterations
      /\ size \in Nat /\ best.size \in Nat /\ MaxIterations \in Nat
    BY HillClimbAssumption DEF EndPass, StopsAfter, SearchInv, TypeOK, Ids
<1>2. /\ lastImprovement' \in 0..iteration /\ iteration' \in 0..(MaxIterations + 1)
      /\ phase' = "search" => iteration' <= MaxIterations
    BY <1>1 DEF EndPass, SearchInv, TypeOK
<1>3. /\ indices' = best'.indices /\ lrs' = best'.lrs
      /\ best'.indices \in Bijection(Ids, Ids)
      /\ best'.size \in Nat /\ Solution(best'.lrs, best'.size, Ids)
    <2>1. CASE IsWorse(size)
        BY <2>1, <1>1 DEF EndPass, Undone, SearchInv, TypeOK
    <2>2. CASE ~IsWorse(size)
        <3>1. best' = [size |-> size, indices |-> indices, lrs |-> lrs]
              /\ indices' = indices /\ lrs' = lrs /\ phase = "allocate"
            BY <2>2 DEF EndPass
        <3>2. Solution(lrs, size, Ids)
            BY <1>1, <2>2, PassIsComplete DEF IsWorse, EndPass
        <3> QED BY <1>1, <3>1, <3>2 DEF SearchInv, TypeOK
    <2> QED BY <2>1, <2>2
<1>4. Solution(best.lrs, best.size, Ids)'
    BY <1>1, <1>3, SolutionKeeps
<1>5. TypeOK'
    <2>1. best'.lrs \in [Ids -> Allocated]
        BY <1>3 DEF Solution
    <2> QED BY <1>1, <1>2, <1>3, <2>1 DEF SearchInv, TypeOK, Allocated
<1> QED BY <1>1, <1>2, <1>3, <1>4, <1>5 DEF SearchInv

\* A fix of the bottleneck permutes the order and begins a pass from nothing.
LEMMA AttemptKeeps == SearchInv /\ AttemptBottleneckFix => SearchInv'
<1> SUFFICES ASSUME SearchInv, AttemptBottleneckFix PROVE SearchInv'
    OBVIOUS
<1>1. /\ ranges' = ranges /\ best' = best /\ iteration' = iteration /\ Ids' = Ids
      /\ lastImprovement' = lastImprovement /\ phase' = "allocate" /\ lrs' = Cleared
      /\ turn' = 1 /\ size' = 0 /\ ranges \in RangeSets /\ Len(ranges) \in Nat
      /\ iteration > 0 /\ iteration <= MaxIterations
    BY RangeFacts DEF AttemptBottleneckFix, SearchInv, TypeOK, Ids
<1>2. indices \in Bijection(Ids, Ids) /\ Solution(lrs, best.size, Ids)
    BY <1>1 DEF SearchInv, TypeOK, AttemptBottleneckFix
<1>3. indices' \in Bijection(Ids, Ids)
    <2>1. /\ AffectingTurns \in SUBSET Ids
          /\ Turns(Component) \in SUBSET Ids
        <3>1. \A i : Support(i) \in SUBSET Ids
            BY DEF Support, Reached
        <3>2. Component \in SUBSET Ids
            BY DEF Component, Reached
        <3> QED BY <1>1, <1>2, <3>1, <3>2, TurnsAreTurns DEF AffectingTurns
    <2>2. \A S \in SUBSET Ids : S # {} => Max(S) \in Ids
        <3> SUFFICES ASSUME NEW S \in SUBSET Ids, S # {} PROVE Max(S) \in Ids
            OBVIOUS
        <3>1. IsFiniteSet(S) /\ S \in SUBSET Nat
            BY <1>1, RangeFacts, FS_Subset
        <3> QED BY <3>1, GreatestNatural
    <2>3. PICK once \in Swaps(indices, AffectingTurns, Max(AffectingTurns)) :
              IF iteration - lastImprovement > MaxStuck
              THEN LET more == AffectingTurns \cup Turns(Component)
                   IN  \E last \in IF more = AffectingTurns THEN {Max(more)} ELSE more \ AffectingTurns :
                           indices' \in Swaps(once, more, last)
              ELSE indices' = once
        BY DEF AttemptBottleneckFix
    <2>4. AffectingTurns # {}
        BY <2>3 DEF Swaps
    <2>5. once \in Bijection(Ids, Ids)
        BY <1>2, <2>1, <2>2, <2>3, <2>4, SwapsPermute
    <2>6. CASE iteration - lastImprovement > MaxStuck
        <3> DEFINE more == AffectingTurns \cup Turns(Component)
        <3>1. more \in SUBSET Ids /\ more # {}
            BY <2>1, <2>4
        <3>2. PICK last \in IF more = AffectingTurns THEN {Max(more)} ELSE more \ AffectingTurns :
                  indices' \in Swaps(once, more, last)
            BY <2>3, <2>6
        <3>3. last \in Ids
            BY <2>2, <3>1, <3>2
        <3> HIDE DEF more
        <3> QED BY <2>5, <3>1, <3>2, <3>3, SwapsPermute
    <2>7. CASE ~(iteration - lastImprovement > MaxStuck)
        BY <2>3, <2>5, <2>7
    <2> QED BY <2>6, <2>7
<1>4. Cleared \in [Ids -> Allocated] /\ Solution(Cleared, 0, {})
    <2>1. lrs \in [Ids -> Allocated]
        BY <1>2 DEF Solution
    <2>2. /\ Cleared \in [Ids -> Allocated]
          /\ \A i \in Ids : Cleared[i].address = NotAllocated
        BY <2>1 DEF Cleared, Allocated
    <2> QED BY <2>2 DEF Solution
<1>5. Solution(lrs, size, InPass)'
    <2>1. InPass' = {}
        BY <1>1 DEF InPass
    <2>2. PICK L : L = Cleared
        OBVIOUS
    <2>3. Solution(L, 0, {})'
        BY <1>1, <1>4, <2>2, SolutionKeeps
    <2> QED BY <1>1, <2>1, <2>2, <2>3
<1>6. PassFits'
    <2>1. PICK largest \in 0..Infinite :
              Len(ranges) * largest <= Infinite /\ \A i \in Ids : ranges[i].size <= largest
        BY <1>1, AddressesAssumption DEF Ids
    <2>2. 0 <= (1 - 1) * largest
        BY <2>1, HillClimbAssumption
    <2> QED BY <1>1, <2>1, <2>2 DEF PassFits
<1>7. TypeOK'
    BY <1>1, <1>3, <1>4 DEF SearchInv, TypeOK, Allocated
<1>8. Solution(best.lrs, best.size, Ids)'
    BY <1>1, SolutionKeeps DEF SearchInv
<1> QED BY <1>1, <1>5, <1>6, <1>7, <1>8 DEF SearchInv

\* In every state of the search the best solution so far is complete and legal,
\* and what is being placed is legal as far as it goes (Search, AllocateIndices).
THEOREM SearchCorrect == Spec => []SearchInv
<1>1. SearchInv /\ [Next]_vars => SearchInv'
    <2> SUFFICES ASSUME SearchInv, [Next]_vars PROVE SearchInv'
        OBVIOUS
    <2>1. CASE SetLiveRanges
        BY <2>1, SetLiveRangesKeeps
    <2>2. CASE AllocateLr
        BY <2>2, AllocateLrKeeps
    <2>3. CASE EndHeuristic
        BY <2>3, EndHeuristicKeeps
    <2>4. CASE EndPass
        BY <2>4, EndPassKeeps
    <2>5. CASE AttemptBottleneckFix
        BY <2>5, AttemptKeeps
    <2>6. CASE UNCHANGED vars
        <3>1. Ids' = Ids /\ InPass' = InPass
            BY <2>6 DEF vars, Ids, InPass
        <3>2. TypeOK' /\ (PassFits => PassFits') /\ (Begins => Begins')
            BY <2>6, <3>1 DEF vars, SearchInv, TypeOK, PassFits, Begins
        <3>3. /\ Solution(lrs, size, InPass) => Solution(lrs, size, InPass)'
              /\ Solution(best.lrs, best.size, Ids) => Solution(best.lrs, best.size, Ids)'
            BY <2>6, <3>1, SolutionKeeps DEF vars
        <3> QED BY <2>6, <3>2, <3>3 DEF vars, SearchInv
    <2> QED BY <2>1, <2>2, <2>3, <2>4, <2>5, <2>6 DEF Next
<1> QED BY <1>1, SearchBegins, PTL DEF Spec

\* The allocator's working data keep their types: no index outside the ranges,
\* no iteration beyond MAX_ITERATIONS.
THEOREM SearchTypeCorrect == Spec => []TypeOK
<1>1. SearchInv => TypeOK
    BY DEF SearchInv
<1> QED BY <1>1, SearchCorrect, PTL

Result == [i \in Ids |-> lrs[i].address]

FoundIsLegal == Found => Abstract!IsLegal(ranges, Result, best.size) /\ ranges \in Seq(Abstract!LiveRange)

\* The search implements the allocator's promise: the addresses it ends with
\* let no two ranges that are alive together share a byte, and its size bounds
\* them (HillClimbAllocator::Search, HillClimbAllocateLiveRanges).
THEOREM SearchImplementsAllocation == Spec => ImplementsAllocation
<1>1. Init => Abstract!Init
    BY DEF Init, Begins, Found, Abstract!Init
<1>2. SearchInv => FoundIsLegal
    <2> SUFFICES ASSUME SearchInv, Found PROVE FoundIsLegal
        BY DEF FoundIsLegal
    <2>1. /\ Solution(lrs, best.size, Ids) /\ best.size \in Nat
          /\ ranges \in Seq(LiveRange) /\ DOMAIN ranges = Ids
          /\ \A i \in Ids : ranges[i].size \in Nat
        BY RangeFacts DEF SearchInv, TypeOK, Found, Ids
    <2>2. \A i \in Ids : /\ lrs[i].address \in Nat /\ lrs[i].address >= 0
                         /\ lrs[i].address + ranges[i].size <= best.size
                         /\ lrs[i].endAddress = lrs[i].address + ranges[i].size
        BY <2>1 DEF Solution, Allocated, NotAllocated
    <2>3. ASSUME NEW i \in Ids, NEW j \in Ids, i # j, Abstract!AliveTogether(ranges[i], ranges[j])
          PROVE  Abstract!Disjoint(lrs[i].address, ranges[i].size, lrs[j].address, ranges[j].size)
        <3>1. j \in Neighbours(i)
            BY <2>3 DEF Neighbours, IsNeighbour, Abstract!AliveTogether
        <3> QED BY <2>1, <2>2, <3>1 DEF Solution, Abstract!Disjoint
    <2>4. Abstract!IsLegal(ranges, Result, best.size)
        BY <2>1, <2>2, <2>3 DEF Abstract!IsLegal, Result
    <2>5. ranges \in Seq(Abstract!LiveRange)
        BY <2>1 DEF LiveRange, Abstract!LiveRange
    <2> QED BY <2>4, <2>5 DEF FoundIsLegal
<1>3. FoundIsLegal' /\ [Next]_vars =>
          [Abstract!Place]_<<IF Found THEN ranges ELSE <<>>,
                             IF Found THEN [i \in Ids |-> lrs[i].address] ELSE <<>>,
                             IF Found THEN best.size ELSE 0, Found>>
    <2> SUFFICES ASSUME FoundIsLegal', [Next]_vars
                 PROVE  [Abstract!Place]_<<IF Found THEN ranges ELSE <<>>,
                             IF Found THEN [i \in Ids |-> lrs[i].address] ELSE <<>>,
                             IF Found THEN best.size ELSE 0, Found>>
        OBVIOUS
    <2>1. CASE UNCHANGED vars
        BY <2>1 DEF vars, Found, Ids
    <2>2. CASE Next
        <3>1. phase # "done"
            BY <2>2 DEF Next, SetLiveRanges, AllocateLr, EndHeuristic, EndPass, AttemptBottleneckFix
        <3>2. CASE phase' = "done"
            BY <3>1, <3>2 DEF FoundIsLegal, Found, Result, Abstract!Place
        <3>3. CASE phase' # "done"
            BY <3>1, <3>3 DEF Found
        <3> QED BY <3>2, <3>3
    <2> QED BY <2>1, <2>2
<1> QED BY <1>1, <1>2, <1>3, SearchCorrect, PTL DEF Spec, ImplementsAllocation, Abstract!Spec

=============================================================================
