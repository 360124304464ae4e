------------------------------ MODULE HillClimb -----------------------------
(***************************************************************************)
(* HillClimbAllocator (hillclimb_allocator.cpp): live ranges are placed    *)
(* one after the other at the lowest free address; a search then permutes  *)
(* the order around the highest range until the peak demand is reached.    *)
(* The random choices are every choice.  Sizes are rounded already.        *)
(***************************************************************************)
EXTENDS Integers, Sequences, FiniteSets, FiniteSetsExt, Functions

CONSTANTS
    RangeSets,       \* the lists of live ranges
    Infinite,        \* MAX_ADDRESS
    SizeLimit,       \* maxAllowedSize
    MaxIterations,   \* MAX_ITERATIONS
    MaxStuck,        \* MAX_ITERATIONS_STUCK
    MinImprove       \* MIN_ITERATIONS_IMPROVE

NoPredecessor == 0
NotAllocated  == -1

LiveRange == [startTime : Nat, endTime : Int, size : Nat]

ASSUME HillClimbAssumption ==
    /\ RangeSets \subseteq Seq(LiveRange)
    /\ Infinite \in Nat /\ SizeLimit \in Nat
    /\ MaxIterations \in Nat /\ MaxStuck \in Nat /\ MinImprove \in Nat

\* Sizes and the number of ranges are ints, addresses have 64 bits.
ASSUME AddressesAssumption ==
    \A list \in RangeSets : \E largest \in 0..Infinite :
        /\ Len(list) * largest <= Infinite
        /\ \A i \in DOMAIN list : list[i].size <= largest

VARIABLES
    ranges,      \* the input
    phase,       \* "start", "allocate" while AllocateIndices runs, "search", "done"
    indices,     \* the order of allocation
    lrs,         \* per range: address, endAddress, predecessor and turn
    turn, size,  \* of AllocateIndices
    best,        \* bestSize, bestIndices and bestLrs
    iteration,   \* of Search; 0 is the heuristic allocation
    lastImprovement

vars == <<ranges, phase, indices, lrs, turn, size, best, iteration, lastImprovement>>

Ids == DOMAIN ranges

IsNeighbour(i, j) ==
    /\ ranges[i].startTime <= ranges[j].endTime
    /\ ranges[j].startTime <= ranges[i].endTime

Neighbours(i) == {j \in Ids \ {i} : IsNeighbour(i, j)}

-----------------------------------------------------------------------------
(* SetLiveRanges                                                           *)

Lifetime(i) == ranges[i].startTime..ranges[i].endTime

SizeAtTime(t) == MapThenSumSet(LAMBDA i : ranges[i].size, {i \in Ids : t \in Lifetime(i)})

Urgency(i) == Max({SizeAtTime(t) : t \in Lifetime(i)} \cup {0})

\* The demand at the busiest time, which the search stops at.
TargetSize == Max({Urgency(i) : i \in Ids} \cup {0})

-----------------------------------------------------------------------------
(* Allocate: the heuristic order                                           *)

Duration(i) == ranges[i].endTime - ranges[i].startTime

Before(i, j) ==
    \/ Urgency(i) > Urgency(j)
    \/ /\ Urgency(i) = Urgency(j)
       /\ \/ Duration(i) > Duration(j)
          \/ /\ Duration(i) = Duration(j)
             /\ \/ ranges[i].startTime < ranges[j].startTime
                \/ /\ ranges[i].startTime = ranges[j].startTime
                   /\ \/ ranges[i].size > ranges[j].size
                      \/ ranges[i].size = ranges[j].size /\ i < j

\* Before is a strict total order.
SortedOnPrio == [k \in Ids |-> CHOOSE i \in Ids : Cardinality({j \in Ids : Before(j, i)}) = k - 1]

Unallocated == [address |-> NotAllocated, endAddress |-> 0, predecessor |-> NoPredecessor, turn |-> 0]

NoSolution == [size |-> Infinite, indices |-> <<>>, lrs |-> <<>>]

\* Nothing is known of the ranges but that they are given.
Begins ==
    /\ phase = "start"
    /\ indices = <<>> /\ lrs = <<>>
    /\ turn = 1 /\ size = 0
    /\ best = NoSolution
    /\ iteration = 0 /\ lastImprovement = 0

Init == ranges \in RangeSets /\ Begins

\* SetLiveRanges, and the order of the first pass.
SetLiveRanges ==
    /\ phase = "start"
    /\ phase' = "allocate"
    /\ indices' = SortedOnPrio
    /\ lrs' = [i \in Ids |-> Unallocated]
    /\ UNCHANGED <<ranges, turn, size, best, iteration, lastImprovement>>

-----------------------------------------------------------------------------
(* AllocateIndices                                                         *)

IsAllocated(i) == lrs[i].address # NotAllocated

Overlaps(j, address, length) ==
    lrs[j].address < address + length /\ address < lrs[j].endAddress

Free(i, address) ==
    \A j \in Neighbours(i) : IsAllocated(j) => ~Overlaps(j, address, ranges[i].size)

Candidates(i) == {0} \cup {lrs[j].endAddress : j \in {k \in Neighbours(i) : IsAllocated(k)}}

\* The loop of AllocateLr raises the address to the end of an overlapping
\* neighbour until nothing overlaps: it stops at the lowest free address.
LowestFree(i) == Min({a \in Candidates(i) : Free(i, a)})

\* Of several neighbours that end there, which is met first depends on the
\* order in neighbours.
Predecessors(i, address) ==
    IF address = 0 THEN {NoPredecessor}
    ELSE {j \in Neighbours(i) : IsAllocated(j) /\ lrs[j].endAddress = address}

PassContinues == size <= best.size /\ turn <= Len(ranges)

AllocateLr ==
    /\ phase = "allocate" /\ PassContinues
    /\ LET i == indices[turn]
           address == LowestFree(i)
       IN  /\ \E p \in Predecessors(i, address) :
                 lrs' = [lrs EXCEPT ![i] = [address |-> address,
                                            endAddress |-> address + ranges[i].size,
                                            predecessor |-> p, turn |-> turn]]
           /\ size' = Max({size, address + ranges[i].size})
    /\ turn' = turn + 1
    /\ UNCHANGED <<ranges, phase, indices, best, iteration, lastImprovement>>

-----------------------------------------------------------------------------
(* Search                                                                  *)

IsWorse(newSize) == newSize > best.size

ReachesTarget(newSize) == newSize <= TargetSize

\* mutated: an attempt that is given up leaves its addresses behind
NotUndone == lrs

Undone == best.lrs

\* The end of the heuristic pass, whatever its size.
EndHeuristic ==
    /\ phase = "allocate" /\ ~PassContinues /\ iteration = 0
    /\ best' = [size |-> size, indices |-> indices, lrs |-> lrs]
    /\ phase' = IF ReachesTarget(size) \/ MaxIterations = 0 THEN "done" ELSE "search"
    /\ iteration' = 1 /\ lastImprovement' = 1
    /\ UNCHANGED <<ranges, indices, lrs, turn, size>>

StopsAfter(newBest, improvement) ==
    \/ iteration = MaxIterations
    \/ newBest <= SizeLimit /\ iteration - improvement > MinImprove

EndPass ==
    /\ phase = "allocate" /\ ~PassContinues /\ iteration > 0
    /\ IF IsWorse(size)
       THEN /\ indices' = best.indices /\ lrs' = Undone
            /\ UNCHANGED <<best, lastImprovement>>
            /\ phase' = IF StopsAfter(best.size, lastImprovement) THEN "done" ELSE "search"
       ELSE /\ best' = [size |-> size, indices |-> indices, lrs |-> lrs]
            /\ lastImprovement' = IF size < best.size THEN iteration ELSE lastImprovement
            /\ phase' = IF ReachesTarget(size) \/ StopsAfter(size, lastImprovement')
                        THEN "done" ELSE "search"
            /\ UNCHANGED <<indices, lrs>>
    /\ iteration' = iteration + 1
    /\ UNCHANGED <<ranges, turn, size>>

\* The first of the ranges with the highest end.
Bottleneck ==
    Min({i \in Ids : \A j \in Ids : lrs[j].endAddress <= lrs[i].endAddress})

\* What lies behind the root in the graph: the least closed set around it.
Reached(root, next) ==
    {j \in Ids : \A S \in SUBSET Ids :
        root \in S /\ (\A k \in S : next[k] \subseteq S) => j \in S}

\* The range and what it stands on, directly and indirectly.
Support(i) == Reached(i, [k \in Ids |-> {lrs[k].predecessor} \ {NoPredecessor}])

Turns(S) == {lrs[i].turn : i \in S}

\* turns and turnList of AttemptBottleneckFix
AffectingTurns == Turns(UNION {Support(i) : i \in {Bottleneck} \cup Neighbours(Bottleneck)})

\* The ranges connected to the bottleneck through neighbours.
Component == Reached(Bottleneck, [k \in Ids |-> Neighbours(k)])

Swapped(order, a, b) == [order EXCEPT ![a] = order[b], ![b] = order[a]]

\* Two equal picks become the pick and the last turn listed.
Swaps(order, turns, last) ==
    {Swapped(order, a, IF a = b THEN last ELSE b) : a, b \in turns}

Cleared == [i \in Ids |-> [lrs[i] EXCEPT !.address = NotAllocated]]

AttemptBottleneckFix ==
    /\ phase = "search"
    /\ \E once \in Swaps(indices, AffectingTurns, Max(AffectingTurns)) :
          IF iteration - lastImprovement > MaxStuck
          THEN LET more == AffectingTurns \cup Turns(Component)
               IN  \E last \in IF more = AffectingTurns THEN {Max(more)} ELSE more \ AffectingTurns :
                       indices' \in Swaps(once, more, last)
          ELSE indices' = once
    /\ phase' = "allocate"
    /\ lrs' = Cleared
    /\ turn' = 1 /\ size' = 0
    /\ UNCHANGED <<ranges, best, iteration, lastImprovement>>

Next == SetLiveRanges \/ AllocateLr \/ EndHeuristic \/ EndPass \/ AttemptBottleneckFix

Spec == Init /\ [][Next]_vars

-----------------------------------------------------------------------------
(* Properties                                                              *)

\* Type correctness of the allocator's working data.
TypeOK ==
    /\ ranges \in RangeSets
    /\ phase \in {"start", "allocate", "search", "done"}
    /\ phase # "start" => indices \in Bijection(Ids, Ids)
    /\ phase # "start" => lrs \in [Ids -> [address : Nat \cup {NotAllocated}, endAddress : Nat,
                        predecessor : Ids \cup {NoPredecessor}, turn : Nat]]
    /\ turn \in 1..(Len(ranges) + 1) /\ size \in Nat
    /\ best.size \in Nat /\ (iteration > 0 => best.indices \in Bijection(Ids, Ids))
    /\ iteration \in 0..(MaxIterations + 1) /\ lastImprovement \in 0..iteration

Found == phase = "done"

Abstract ==
    INSTANCE Allocation WITH
        ranges  <- IF Found THEN ranges ELSE <<>>,
        address <- IF Found THEN [i \in Ids |-> lrs[i].address] ELSE <<>>,
        total   <- IF Found THEN best.size ELSE 0,
        placed  <- Found

\* Whatever the search tries, undoes and keeps, it ends with addresses at
\* which no two ranges alive together share a byte and with a size that
\* bounds them all (HillClimbAllocator::Search).
ImplementsAllocation == Abstract!Spec

=============================================================================
