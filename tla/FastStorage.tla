----------------------------- MODULE FastStorage ----------------------------
(***************************************************************************)
(* Which live ranges stay in fast storage (faststorage_allocator.cpp): a   *)
(* first sweep evicts what cannot fit and keeps what always fits, and the  *)
(* rest is divided into components that are searched exhaustively.  Two    *)
(* usages per time are adjusted as ranges are kept, evicted and tried.     *)
(***************************************************************************)
EXTENDS Integers, Sequences, FiniteSets, FiniteSetsExt

CONSTANTS
    Workloads,          \* [lrs, fixed, switches, limit] to allocate
    MaxComponentSize,   \* MAX_COMPONENT_SIZE
    ScoreBits           \* the width of int, in which scores are added

ASSUME FastStorageAssumption == MaxComponentSize \in Nat /\ ScoreBits \in Nat \ {0}

\* A range begins no later than it ends, at times whose usage is recorded
\* (GetTemporalMemoryUsage); what is fixed is what the other ranges take.
IsWorkload(w) ==
    /\ w.lrs \in Seq([start : Nat, end : Nat, size : Nat, score : Nat])
    /\ w.fixed \in [DOMAIN w.fixed -> Nat] /\ w.limit \in Int
    /\ \A i \in DOMAIN w.lrs :
          /\ w.lrs[i].start <= w.lrs[i].end
          /\ w.lrs[i].start..w.lrs[i].end \subseteq DOMAIN w.fixed

ASSUME WorkloadsAssumption == \A w \in Workloads : IsWorkload(w)

VARIABLES
    load,        \* the workload: lrs are the movable ranges [start, end, size, score]
    base, peak,  \* _baseMemUsage and _maxMemUsage, per time
    place,       \* per range: "open", "kept", "evicted"
    component,   \* the competing ranges being searched, as a sequence
    waiting,     \* competingLrs not yet in a component
    path,        \* decisions of the recursion: [kept, always] per range entered
    mode,        \* "enter" and "leave" of the recursion, and the phases around it
    best         \* bestScore and evicted

vars == <<load, base, peak, place, component, waiting, path, mode, best>>

Lrs == DOMAIN load.lrs
Lr(i) == load.lrs[i]
Times == DOMAIN load.fixed
Life(i) == Lr(i).start..Lr(i).end

MaxOver(usage, i) == Max({usage[t] : t \in Life(i)})

Adjusted(usage, i, amount) == [t \in Times |-> IF t \in Life(i) THEN usage[t] + amount ELSE usage[t]]

\* A 64-bit score is converted to int before it is added.
IntOf(n) == ((n + 2 ^ (ScoreBits - 1)) % 2 ^ ScoreBits) - 2 ^ (ScoreBits - 1)

SizeAt(S, t) == MapThenSumSet(LAMBDA i : Lr(i).size, {i \in S : t \in Life(i)})

Placed(where) == {i \in Lrs : place[i] = where}

-----------------------------------------------------------------------------
(* AllocateFeatureMaps                                                     *)

CrossesSwitch(i) == load.switches \cap Life(i) # {}

Init ==
    /\ load \in Workloads
    /\ base = load.fixed
    /\ peak = [t \in Times |-> load.fixed[t] + SizeAt(Lrs, t)]
    /\ place = [i \in Lrs |-> "open"]
    /\ component = <<>> /\ waiting = <<>> /\ path = <<>>
    /\ mode = "switches"
    /\ best = [score |-> 0, evicted |-> {}]

Remaining(usage, S) == [t \in Times |-> usage[t] - SizeAt(S, t)]
Increased(usage, S) == [t \in Times |-> usage[t] + SizeAt(S, t)]

\* Evict the ranges that live across an operator of the CPU or control flow;
\* if everything fitted before that, the others simply stay.
EvictAcrossSwitches ==
    /\ mode = "switches"
    /\ LET crossing == {i \in Lrs : CrossesSwitch(i)}
           fits == \A t \in Times : peak[t] <= load.limit
       IN  /\ peak' = Remaining(peak, crossing)
           /\ place' = [i \in Lrs |-> IF i \in crossing THEN "evicted" ELSE IF fits THEN "kept" ELSE "open"]
           /\ mode' = IF fits THEN "done" ELSE "sweep"
    /\ UNCHANGED <<load, base, component, waiting, path, best>>

\* The ranges in the order they were created in.
InOrder(S) == [k \in 1..Cardinality(S) |-> CHOOSE i \in S : Cardinality({j \in S : j < i}) = k - 1]

CannotFit(i) == MaxOver(base, i) + Lr(i).size > load.limit

\* mutated: what always fits is judged without the range itself
AlwaysFitsAlone(usage, i) == MaxOver(usage, i) - Lr(i).size <= load.limit

AlwaysFits(usage, i) == MaxOver(usage, i) <= load.limit

Sweep ==
    /\ mode = "sweep"
    /\ LET tooBig == {i \in Placed("open") : CannotFit(i)}
           lower == Remaining(peak, tooBig)
           sure == {i \in Placed("open") \ tooBig : AlwaysFits(lower, i)}
           competing == Placed("open") \ (tooBig \cup sure)
       IN  /\ peak' = lower
           /\ base' = Increased(base, sure)
           /\ place' = [i \in Lrs |-> IF i \in tooBig THEN "evicted" ELSE IF i \in sure THEN "kept" ELSE place[i]]
           /\ waiting' = InOrder(competing)
    /\ mode' = "divide"
    /\ UNCHANGED <<load, component, path, best>>

\* The longest prefix of the waiting ranges that starts before all ranges
\* ahead of it have ended, and has at most MaxComponentSize + 1 members.
Connected(n) ==
    /\ n - 1 <= MaxComponentSize
    /\ \A k \in 2..n : Lr(waiting[k]).start <= Max({Lr(waiting[j]).end : j \in 1..(k - 1)})

ComponentSize == Max({n \in 1..Len(waiting) : Connected(n)})

WaitingAfter == SubSeq(waiting, ComponentSize + 1, Len(waiting))

NextComponent ==
    /\ mode = "divide" /\ waiting # <<>>
    /\ component' = SubSeq(waiting, 1, ComponentSize)
    /\ waiting' = WaitingAfter
    /\ best' = [score |-> 0, evicted |-> {}]
    /\ mode' = "enter"
    /\ UNCHANGED <<load, base, peak, place, path>>

AllDivided ==
    /\ mode = "divide" /\ waiting = <<>>
    /\ mode' = "done"
    /\ UNCHANGED <<load, base, peak, place, component, waiting, path, best>>

-----------------------------------------------------------------------------
(* AllocateExhaustive: path is the recursion's stack                       *)

Depth == Len(path)
Top == component[Depth]
Coming == component[Depth + 1]

TriedEvicted == {component[k] : k \in {d \in 1..Depth : ~path[d].kept}}
TriedKept == {component[k] : k \in {d \in 1..Depth : path[d].kept}}

Score == MapThenSumSet(LAMBDA i : IntOf(Lr(i).score), TriedKept)

EnterKeep ==
    /\ mode = "enter" /\ Depth < Len(component) /\ ~CannotFit(Coming)
    /\ path' = Append(path, [kept |-> TRUE, always |-> AlwaysFits(peak, Coming)])
    /\ base' = Adjusted(base, Coming, Lr(Coming).size)
    /\ UNCHANGED <<load, peak, place, component, waiting, mode, best>>

EnterEvict ==
    /\ mode = "enter" /\ Depth < Len(component) /\ CannotFit(Coming)
    /\ path' = Append(path, [kept |-> FALSE, always |-> FALSE])
    /\ peak' = Adjusted(peak, Coming, -Lr(Coming).size)
    /\ UNCHANGED <<load, base, place, component, waiting, mode, best>>

\* mutated: the last of all complete choices is remembered
IsBetterOrLater(score) == TRUE

IsBetter(score) == score > best.score \/ best.score = 0

Remember ==
    /\ mode = "enter" /\ Depth = Len(component)
    /\ best' = IF IsBetter(Score) THEN [score |-> Score, evicted |-> TriedEvicted] ELSE best
    /\ mode' = "leave"
    /\ UNCHANGED <<load, base, peak, place, component, waiting, path>>

\* mutated: the usage without the range is not restored after it was kept
NotRestored == base

Restored == Adjusted(base, Top, -Lr(Top).size)

\* Back from keeping a range: try without it, unless it fits regardless.
RetryEvicted ==
    /\ mode = "leave" /\ Depth > 0 /\ path[Depth].kept /\ ~path[Depth].always
    /\ base' = Restored
    /\ peak' = Adjusted(peak, Top, -Lr(Top).size)
    /\ path' = [path EXCEPT ![Depth].kept = FALSE]
    /\ mode' = "enter"
    /\ UNCHANGED <<load, place, component, waiting, best>>

Leave ==
    /\ mode = "leave" /\ Depth > 0 /\ (path[Depth].always \/ ~path[Depth].kept)
    /\ IF path[Depth].kept
       THEN base' = Restored /\ UNCHANGED peak
       ELSE peak' = Adjusted(peak, Top, Lr(Top).size) /\ UNCHANGED base
    /\ path' = SubSeq(path, 1, Depth - 1)
    /\ UNCHANGED <<load, place, component, waiting, mode, best>>

\* AllocateComponent applies what was remembered.
ApplyBest ==
    /\ mode = "leave" /\ Depth = 0
    /\ LET members == {component[k] : k \in DOMAIN component}
           keep == members \ best.evicted
       IN  /\ base' = Increased(base, keep)
           /\ peak' = Remaining(peak, best.evicted)
           /\ place' = [i \in Lrs |-> IF i \in best.evicted THEN "evicted"
                                      ELSE IF i \in keep THEN "kept" ELSE place[i]]
    /\ component' = <<>>
    /\ mode' = "divide"
    /\ UNCHANGED <<load, waiting, path, best>>

Next ==
    \/ EvictAcrossSwitches \/ Sweep \/ NextComponent \/ AllDivided
    \/ EnterKeep \/ EnterEvict \/ Remember \/ RetryEvicted \/ Leave \/ ApplyBest

Spec == Init /\ [][Next]_vars

-----------------------------------------------------------------------------
(* Properties                                                              *)

\* Type correctness; the recursion never goes deeper than its component.
TypeOK ==
    /\ base \in [Times -> Int] /\ peak \in [Times -> Int]
    /\ place \in [Lrs -> {"open", "kept", "evicted"}]
    /\ Depth <= Len(component)
    /\ mode \in {"switches", "sweep", "divide", "enter", "leave", "done", "end"}

\* Wherever the recursion is, the two usages are those of the ranges decided
\* so far: what is kept or tried kept, and everything but what is evicted or
\* tried evicted (UpdateMemUsage before and after each call).
UsageIsExact ==
    mode \in {"sweep", "divide", "enter", "leave"} =>
        \A t \in Times :
            /\ base[t] = load.fixed[t] + SizeAt(Placed("kept") \cup TriedKept, t)
            /\ peak[t] = load.fixed[t] + SizeAt(Lrs \ (Placed("evicted") \cup TriedEvicted), t)

\* What is kept fits: at no time of a kept range is the limit exceeded
\* (asserted by Keep), whatever the other components do.
KeptFits ==
    mode # "switches" =>
        \A i \in Placed("kept") : \A t \in Life(i) :
            load.fixed[t] + SizeAt(Placed("kept"), t) <= load.limit

Total(S) == MapThenSumSet(LAMBDA i : Lr(i).score, S)

FitsWith(S) == \A i \in S : \A t \in Life(i) :
    load.fixed[t] + SizeAt(Placed("kept") \cup S, t) <= load.limit

\* "A live range with higher element access is considered more important to
\* keep in fast storage" (faststorage_allocator.cpp:287): no other choice that
\* fits beside what is kept already has more access than the one applied.
ChoosesMostAccess ==
    mode = "leave" /\ Depth = 0 =>
        LET members == {component[k] : k \in DOMAIN component}
        IN  \A S \in SUBSET members : FitsWith(S) => Total(S) <= Total(members \ best.evicted)

=============================================================================
