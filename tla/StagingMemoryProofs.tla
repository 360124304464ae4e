------------------------ MODULE StagingMemoryProofs -------------------------
(***************************************************************************)
(* What the search of FastStorage decides: the usages it follows are those *)
(* of its decisions, what it keeps fits, no other choice has more access,  *)
(* and the pass over elementwise operations leaves operands together.      *)
(*                                                                         *)
(* What CascadeBuilder records of a cascade while it grows it is what the  *)
(* cascade takes: the sizes it follows are the sums and maxima over the    *)
(* operations of the chain, and the peak covers what has been decided.     *)
(***************************************************************************)
EXTENDS ElementwiseSanitizer, CascadeBuilder, FiniteSetLemmas

-----------------------------------------------------------------------------
(* Usage as a sum over the ranges that are alive.                          *)

LifeIn(w, i) == w.lrs[i].start..w.lrs[i].end

AliveIn(w, S, t) == {i \in S : t \in LifeIn(w, i)}

SizeIn(w, S, t) == MapThenSumSet(LAMBDA i : w.lrs[i].size, AliveIn(w, S, t))

SizesOf(w) == [i \in DOMAIN w.lrs |-> w.lrs[i].size]

\* The ranges are finitely many, and their numbers natural.
LEMMA WorkloadFacts ==
    ASSUME NEW w, IsWorkload(w)
    PROVE  /\ IsFiniteSet(DOMAIN w.lrs) /\ DOMAIN w.lrs \in SUBSET Nat
           /\ SizesOf(w) \in [DOMAIN w.lrs -> Nat]
           /\ \A i \in DOMAIN w.lrs : /\ w.lrs[i].start \in Nat /\ w.lrs[i].end \in Nat
                                      /\ w.lrs[i].size \in Nat /\ w.lrs[i].score \in Nat
                                      /\ IsFiniteSet(LifeIn(w, i)) /\ LifeIn(w, i) # {}
                                      /\ LifeIn(w, i) \subseteq DOMAIN w.fixed
           /\ \A t \in DOMAIN w.fixed : w.fixed[t] \in Nat
<1>1. w.lrs \in Seq([start : Nat, end : Nat, size : Nat, score : Nat])
    BY DEF IsWorkload
<1>2. PICK n \in Nat : DOMAIN w.lrs = 1..n
    BY <1>1
<1>3. IsFiniteSet(1..n) /\ 1..n \in SUBSET Nat
    BY <1>2, FS_Interval
<1>4. \A i \in DOMAIN w.lrs : w.lrs[i] \in [start : Nat, end : Nat, size : Nat, score : Nat]
    <2>1. PICK R : R = [start : Nat, end : Nat, size : Nat, score : Nat]
        OBVIOUS
    <2>2. PICK list : list = w.lrs
        OBVIOUS
    <2>3. list \in Seq(R)
        BY <1>1, <2>1, <2>2
    <2>4. \A i \in DOMAIN list : list[i] \in R
        BY <2>3
    <2> QED BY <2>1, <2>2, <2>4
<1>5. \A i \in DOMAIN w.lrs : /\ w.lrs[i].start \in Nat /\ w.lrs[i].end \in Nat
                              /\ w.lrs[i].size \in Nat /\ w.lrs[i].score \in Nat
    BY <1>4
<1>6. ASSUME NEW i \in DOMAIN w.lrs
      PROVE  IsFiniteSet(LifeIn(w, i)) /\ LifeIn(w, i) # {} /\ LifeIn(w, i) \subseteq DOMAIN w.fixed
    <2>1. w.lrs[i].start \in Nat /\ w.lrs[i].end \in Nat /\ w.lrs[i].start <= w.lrs[i].end
        BY <1>5 DEF IsWorkload
    <2>2. LifeIn(w, i) \subseteq DOMAIN w.fixed
        BY DEF IsWorkload, LifeIn
    <2>3. IsFiniteSet(w.lrs[i].start..w.lrs[i].end)
        <3>1. PICK a, b : a = w.lrs[i].start /\ b = w.lrs[i].end
            OBVIOUS
        <3>2. a \in Int /\ b \in Int
            BY <2>1, <3>1
        <3> QED BY <3>1, <3>2, FS_Interval
    <2>4. w.lrs[i].start \in w.lrs[i].start..w.lrs[i].end
        BY <2>1
    <2> QED BY <2>2, <2>3, <2>4 DEF LifeIn
<1>7. \A t \in DOMAIN w.fixed : w.fixed[t] \in Nat
    BY DEF IsWorkload
<1> QED BY <1>2, <1>3, <1>5, <1>6, <1>7 DEF SizesOf

\* The size of the ranges of a set at a time (LRMemory::Used) is a sum.
LEMMA SizeIsSum ==
    ASSUME NEW w, IsWorkload(w), NEW S \in SUBSET DOMAIN w.lrs, NEW t
    PROVE  SizeIn(w, S, t) = SumOf(SizesOf(w), AliveIn(w, S, t))
<1> DEFINE A == AliveIn(w, S, t)
           g == SizesOf(w)
           Adds(f) == f = [s \in SUBSET A |->
                              IF s = {} THEN 0 ELSE w.lrs[First(s)].size + f[s \ {First(s)}]]
           sum == CHOOSE f : Adds(f)
<1>1. SizeIn(w, S, t) = sum[A]
    BY DEF SizeIn, MapThenSumSet, MapThenFoldSet, First
<1>2. \A f : Adds(f) <=> AddsUp(f, g, A)
    <2>1. \A s \in SUBSET A : s # {} => w.lrs[First(s)].size = g[First(s)]
        <3>1. \A i \in A : g[i] = w.lrs[i].size
            BY DEF SizesOf, AliveIn
        <3> HIDE DEF g, A
        <3> QED BY <3>1, FirstIsMember
    <2> HIDE DEF g, A
    <2>2. ASSUME NEW f
          PROVE  [s \in SUBSET A |->
                     IF s = {} THEN 0 ELSE w.lrs[First(s)].size + f[s \ {First(s)}]]
                 = [s \in SUBSET A |-> IF s = {} THEN 0 ELSE g[First(s)] + f[s \ {First(s)}]]
        BY <2>1
    <2> QED BY <2>2 DEF AddsUp
<1>3. (CHOOSE f : Adds(f)) = (CHOOSE f : AddsUp(f, g, A))
    <2> HIDE DEF Adds, g, A
    <2> QED BY <1>2
<1> HIDE DEF Adds
<1> QED BY <1>1, <1>3 DEF SumOf

\* Sizes are natural, nothing is taken by no range, one range takes its size
\* while it lives, and ranges apart add up.
LEMMA SizesAdd ==
    ASSUME NEW w, IsWorkload(w), NEW t
    PROVE  /\ SizeIn(w, {}, t) = 0
           /\ \A S \in SUBSET DOMAIN w.lrs : SizeIn(w, S, t) \in Nat
           /\ \A i \in DOMAIN w.lrs :
                 SizeIn(w, {i}, t) = IF t \in LifeIn(w, i) THEN w.lrs[i].size ELSE 0
           /\ \A S, T \in SUBSET DOMAIN w.lrs :
                 S \cap T = {} => SizeIn(w, S \cup T, t) = SizeIn(w, S, t) + SizeIn(w, T, t)
<1> DEFINE D == DOMAIN w.lrs
           g == SizesOf(w)
<1>1. IsFiniteSet(D) /\ g \in [D -> Nat]
    BY WorkloadFacts
<1>2. \A S \in SUBSET D : AliveIn(w, S, t) \in SUBSET D /\ SizeIn(w, S, t) = SumOf(g, AliveIn(w, S, t))
    BY SizeIsSum DEF AliveIn
<1>3. SumOf(g, {}) = 0 /\ \A T \in SUBSET D : SumOf(g, T) \in Nat
    <2> HIDE DEF D, g
    <2> QED BY <1>1, SumTyped
<1>4. SizeIn(w, {}, t) = 0
    <2>1. AliveIn(w, {}, t) = {} /\ {} \in SUBSET D
        BY DEF AliveIn
    <2> QED BY <1>2, <1>3, <2>1
<1>5. \A S \in SUBSET D : SizeIn(w, S, t) \in Nat
    <2> HIDE DEF D, g
    <2> QED BY <1>2, <1>3
<1>6. ASSUME NEW i \in D
      PROVE  SizeIn(w, {i}, t) = IF t \in LifeIn(w, i) THEN w.lrs[i].size ELSE 0
    <2>1. SizeIn(w, {i}, t) = SumOf(g, AliveIn(w, {i}, t))
        BY <1>2
    <2>2. CASE t \in LifeIn(w, i)
        <3>1. AliveIn(w, {i}, t) = {i}
            BY <2>2 DEF AliveIn
        <3>2. g[i] = w.lrs[i].size
            BY DEF SizesOf
        <3>3. SumOf(g, {i}) = g[i]
            <4> HIDE DEF D, g
            <4> QED BY <1>1, SumOfOne
        <3> QED BY <2>1, <2>2, <3>1, <3>2, <3>3
    <2>3. CASE t \notin LifeIn(w, i)
        <3>1. AliveIn(w, {i}, t) = {}
            BY <2>3 DEF AliveIn
        <3> QED BY <1>3, <2>1, <2>3, <3>1
    <2> QED BY <2>2, <2>3
<1>7. ASSUME NEW S \in SUBSET D, NEW T \in SUBSET D, S \cap T = {}
      PROVE  SizeIn(w, S \cup T, t) = SizeIn(w, S, t) + SizeIn(w, T, t)
    <2>1. PICK A, B : A = AliveIn(w, S, t) /\ B = AliveIn(w, T, t)
        OBVIOUS
    <2>2. A \in SUBSET D /\ B \in SUBSET D /\ A \cap B = {}
        BY <1>7, <2>1 DEF AliveIn
    <2>3. AliveIn(w, S \cup T, t) = A \cup B
        BY <2>1 DEF AliveIn
    <2>4. SumOf(g, A \cup B) = SumOf(g, A) + SumOf(g, B)
        <3> HIDE DEF D, g
        <3> QED BY <1>1, <2>2, SumOfUnion
    <2>5. S \cup T \in SUBSET D
        OBVIOUS
    <2> QED BY <1>2, <2>1, <2>3, <2>4, <2>5
<1> QED BY <1>4, <1>5, <1>6, <1>7

\* More ranges take no less, and without some of them the rest is left.
LEMMA SizesGrow ==
    ASSUME NEW w, IsWorkload(w), NEW t, NEW T \in SUBSET DOMAIN w.lrs, NEW S \in SUBSET T
    PROVE  /\ SizeIn(w, S, t) <= SizeIn(w, T, t)
           /\ SizeIn(w, T \ S, t) = SizeIn(w, T, t) - SizeIn(w, S, t)
<1>1. S \in SUBSET DOMAIN w.lrs /\ T \ S \in SUBSET DOMAIN w.lrs
      /\ S \cap (T \ S) = {} /\ S \cup (T \ S) = T
    OBVIOUS
<1>2. SizeIn(w, T, t) = SizeIn(w, S, t) + SizeIn(w, T \ S, t)
    <2>1. PICK R : R = T \ S
        OBVIOUS
    <2>2. R \in SUBSET DOMAIN w.lrs /\ S \cap R = {} /\ S \cup R = T
        BY <1>1, <2>1
    <2>3. SizeIn(w, S \cup R, t) = SizeIn(w, S, t) + SizeIn(w, R, t)
        BY <1>1, <2>2, SizesAdd
    <2> QED BY <2>1, <2>2, <2>3
<1>3. SizeIn(w, S, t) \in Nat /\ SizeIn(w, T \ S, t) \in Nat
    BY <1>1, SizesAdd
<1> QED BY <1>2, <1>3

\* u is exactly the usage of the ranges of a set.
Uses(w, u, S) ==
    /\ S \subseteq DOMAIN w.lrs
    /\ u \in [DOMAIN w.fixed -> Int]
    /\ \A t \in DOMAIN w.fixed : u[t] = w.fixed[t] + SizeIn(w, S, t)

\* UpdateMemUsage with a range that is not in yet, and with one that is.
LEMMA UsesOneMore ==
    ASSUME NEW w, IsWorkload(w), NEW u, NEW S, Uses(w, u, S), NEW c \in DOMAIN w.lrs, c \notin S
    PROVE  Uses(w, [t \in DOMAIN w.fixed |-> IF t \in LifeIn(w, c) THEN u[t] + w.lrs[c].size ELSE u[t]],
                S \cup {c})
<1> DEFINE v == [t \in DOMAIN w.fixed |-> IF t \in LifeIn(w, c) THEN u[t] + w.lrs[c].size ELSE u[t]]
<1>1. w.lrs[c].size \in Nat
    BY WorkloadFacts
<1>2. S \in SUBSET DOMAIN w.lrs /\ {c} \in SUBSET DOMAIN w.lrs /\ S \cap {c} = {}
    BY DEF Uses
<1>3. ASSUME NEW t \in DOMAIN w.fixed
      PROVE  v[t] \in Int /\ v[t] = w.fixed[t] + SizeIn(w, S \cup {c}, t)
    <2>1. w.fixed[t] \in Nat /\ u[t] \in Int /\ u[t] = w.fixed[t] + SizeIn(w, S, t)
        BY WorkloadFacts DEF Uses
    <2>2. SizeIn(w, S \cup {c}, t) = SizeIn(w, S, t) + SizeIn(w, {c}, t)
        BY <1>2, SizesAdd
    <2>3. SizeIn(w, {c}, t) = IF t \in LifeIn(w, c) THEN w.lrs[c].size ELSE 0
        BY SizesAdd
    <2>4. SizeIn(w, S, t) \in Nat
        BY <1>2, SizesAdd
    <2>5. v[t] = IF t \in LifeIn(w, c) THEN u[t] + w.lrs[c].size ELSE u[t]
        OBVIOUS
    <2> HIDE DEF v
    <2> QED BY <1>1, <2>1, <2>2, <2>3, <2>4, <2>5
<1>4. v \in [DOMAIN w.fixed -> Int]
    <2>1. v = [t \in DOMAIN w.fixed |-> v[t]]
        OBVIOUS
    <2> HIDE DEF v
    <2> QED BY <1>3, <2>1
<1>5. S \cup {c} \subseteq DOMAIN w.lrs
    BY <1>2
<1> HIDE DEF v
<1>6. Uses(w, v, S \cup {c})
    BY <1>3, <1>4, <1>5 DEF Uses
<1> QED BY <1>6 DEF v

LEMMA UsesOneLess ==
    ASSUME NEW w, IsWorkload(w), NEW u, NEW S, Uses(w, u, S), NEW c \in S
    PROVE  Uses(w, [t \in DOMAIN w.fixed |-> IF t \in LifeIn(w, c) THEN u[t] + -w.lrs[c].size ELSE u[t]],
                S \ {c})
<1> DEFINE v == [t \in DOMAIN w.fixed |-> IF t \in LifeIn(w, c) THEN u[t] + -w.lrs[c].size ELSE u[t]]
<1>1. S \in SUBSET DOMAIN w.lrs /\ c \in DOMAIN w.lrs /\ {c} \in SUBSET S
    BY DEF Uses
<1>2. w.lrs[c].size \in Nat
    BY <1>1, WorkloadFacts
<1>3. ASSUME NEW t \in DOMAIN w.fixed
      PROVE  v[t] \in Int /\ v[t] = w.fixed[t] + SizeIn(w, S \ {c}, t)
    <2>1. w.fixed[t] \in Nat /\ u[t] \in Int /\ u[t] = w.fixed[t] + SizeIn(w, S, t)
        BY WorkloadFacts DEF Uses
    <2>2. SizeIn(w, S \ {c}, t) = SizeIn(w, S, t) - SizeIn(w, {c}, t)
        BY <1>1, SizesGrow
    <2>3. SizeIn(w, {c}, t) = IF t \in LifeIn(w, c) THEN w.lrs[c].size ELSE 0
        BY <1>1, SizesAdd
    <2>4. SizeIn(w, S, t) \in Nat
        BY <1>1, SizesAdd
    <2>5. v[t] = IF t \in LifeIn(w, c) THEN u[t] + -w.lrs[c].size ELSE u[t]
        OBVIOUS
    <2> HIDE DEF v
    <2> QED BY <1>2, <2>1, <2>2, <2>3, <2>4, <2>5
<1>4. v \in [DOMAIN w.fixed -> Int]
    <2>1. v = [t \in DOMAIN w.fixed |-> v[t]]
        OBVIOUS
    <2> HIDE DEF v
    <2> QED BY <1>3, <2>1
<1>5. S \ {c} \subseteq DOMAIN w.lrs
    BY <1>1
<1> HIDE DEF v
<1>6. Uses(w, v, S \ {c})
    BY <1>3, <1>4, <1>5 DEF Uses
<1> QED BY <1>6 DEF v

\* The same for several ranges at once.
LEMMA UsesMore ==
    ASSUME NEW w, IsWorkload(w), NEW u, NEW S, Uses(w, u, S),
           NEW A \in SUBSET DOMAIN w.lrs, A \cap S = {}
    PROVE  Uses(w, [t \in DOMAIN w.fixed |-> u[t] + SizeIn(w, A, t)], S \cup A)
<1> DEFINE v == [t \in DOMAIN w.fixed |-> u[t] + SizeIn(w, A, t)]
<1>1. S \in SUBSET DOMAIN w.lrs /\ S \cap A = {}
    BY DEF Uses
<1>2. ASSUME NEW t \in DOMAIN w.fixed
      PROVE  v[t] \in Int /\ v[t] = w.fixed[t] + SizeIn(w, S \cup A, t)
    <2>1. w.fixed[t] \in Nat /\ u[t] \in Int /\ u[t] = w.fixed[t] + SizeIn(w, S, t)
        BY WorkloadFacts DEF Uses
    <2>2. SizeIn(w, S \cup A, t) = SizeIn(w, S, t) + SizeIn(w, A, t)
        BY <1>1, SizesAdd
    <2>3. SizeIn(w, S, t) \in Nat /\ SizeIn(w, A, t) \in Nat
        BY <1>1, SizesAdd
    <2>4. v[t] = u[t] + SizeIn(w, A, t)
        OBVIOUS
    <2> HIDE DEF v
    <2> QED BY <2>1, <2>2, <2>3, <2>4
<1>3. v \in [DOMAIN w.fixed -> Int]
    <2>1. v = [t \in DOMAIN w.fixed |-> v[t]]
        OBVIOUS
    <2> HIDE DEF v
    <2> QED BY <1>2, <2>1
<1> HIDE DEF v
<1>4. Uses(w, v, S \cup A)
    BY <1>1, <1>2, <1>3 DEF Uses
<1> QED BY <1>4 DEF v

LEMMA UsesLess ==
    ASSUME NEW w, IsWorkload(w), NEW u, NEW S, Uses(w, u, S), NEW A \in SUBSET S
    PROVE  Uses(w, [t \in DOMAIN w.fixed |-> u[t] - SizeIn(w, A, t)], S \ A)
<1> DEFINE v == [t \in DOMAIN w.fixed |-> u[t] - SizeIn(w, A, t)]
<1>1. S \in SUBSET DOMAIN w.lrs /\ A \in SUBSET DOMAIN w.lrs
    BY DEF Uses
<1>2. ASSUME NEW t \in DOMAIN w.fixed
      PROVE  v[t] \in Int /\ v[t] = w.fixed[t] + SizeIn(w, S \ A, t)
    <2>1. w.fixed[t] \in Nat /\ u[t] \in Int /\ u[t] = w.fixed[t] + SizeIn(w, S, t)
        BY WorkloadFacts DEF Uses
    <2>2. SizeIn(w, S \ A, t) = SizeIn(w, S, t) - SizeIn(w, A, t)
        BY <1>1, SizesGrow
    <2>3. SizeIn(w, S, t) \in Nat /\ SizeIn(w, A, t) \in Nat
        BY <1>1, SizesAdd
    <2>4. v[t] = u[t] - SizeIn(w, A, t)
        OBVIOUS
    <2> HIDE DEF v
    <2> QED BY <2>1, <2>2, <2>3, <2>4
<1>3. v \in [DOMAIN w.fixed -> Int]
    <2>1. v = [t \in DOMAIN w.fixed |-> v[t]]
        OBVIOUS
    <2> HIDE DEF v
    <2> QED BY <1>2, <2>1
<1> HIDE DEF v
<1>4. Uses(w, v, S \ A)
    BY <1>1, <1>2, <1>3 DEF Uses
<1> QED BY <1>4 DEF v

-----------------------------------------------------------------------------
(* What fits.                                                              *)

\* At no time of a range of I the limit is exceeded by the ranges of S.
FitIn(w, I, S) == \A i \in I : \A t \in LifeIn(w, i) : w.fixed[t] + SizeIn(w, S, t) <= w.limit

Fits(w, S) == FitIn(w, S, S)

\* The highest usage during a range (MemorySnapshot::Max) is reached at some
\* time and at no time exceeded.
LEMMA HighestUsage ==
    ASSUME NEW w, IsWorkload(w), NEW u, NEW S, Uses(w, u, S), NEW i \in DOMAIN w.lrs
    PROVE  /\ \E t \in LifeIn(w, i) : Max({u[s] : s \in LifeIn(w, i)}) = u[t]
           /\ \A t \in LifeIn(w, i) : u[t] <= Max({u[s] : s \in LifeIn(w, i)})
<1> DEFINE U == {u[s] : s \in LifeIn(w, i)}
<1>1. IsFiniteSet(LifeIn(w, i)) /\ LifeIn(w, i) # {} /\ LifeIn(w, i) \subseteq DOMAIN w.fixed
    BY WorkloadFacts
<1>2. IsFiniteSet(U)
    BY <1>1, FiniteImage
<1>3. U # {}
    BY <1>1
<1>4. U \in SUBSET Nat
    <2>1. ASSUME NEW t \in LifeIn(w, i) PROVE u[t] \in Nat
        <3>1. t \in DOMAIN w.fixed /\ S \in SUBSET DOMAIN w.lrs
            BY <1>1 DEF Uses
        <3>2. w.fixed[t] \in Nat /\ SizeIn(w, S, t) \in Nat
            BY <3>1, WorkloadFacts, SizesAdd
        <3>3. u[t] = w.fixed[t] + SizeIn(w, S, t)
            BY <3>1 DEF Uses
        <3> QED BY <3>2, <3>3
    <2> QED BY <2>1
<1>5. Max(U) \in U /\ \A y \in U : y <= Max(U)
    <2> HIDE DEF U
    <2> QED BY <1>2, <1>3, <1>4, GreatestNatural
<1> QED BY <1>5

\* What fits still fits without some of it.
LEMMA FewerFit ==
    ASSUME NEW w, IsWorkload(w), NEW T \in SUBSET DOMAIN w.lrs, Fits(w, T), NEW S \in SUBSET T
    PROVE  Fits(w, S)
<1> SUFFICES ASSUME NEW i \in S, NEW t \in LifeIn(w, i)
             PROVE  w.fixed[t] + SizeIn(w, S, t) <= w.limit
    BY DEF Fits, FitIn
<1>1. w.fixed[t] + SizeIn(w, T, t) <= w.limit
    BY DEF Fits, FitIn
<1>2. SizeIn(w, S, t) <= SizeIn(w, T, t)
    BY SizesGrow
<1>3. t \in DOMAIN w.fixed /\ w.limit \in Int
    BY WorkloadFacts DEF IsWorkload
<1>4. w.fixed[t] \in Nat /\ SizeIn(w, S, t) \in Nat /\ SizeIn(w, T, t) \in Nat
    <2>1. S \in SUBSET DOMAIN w.lrs
        OBVIOUS
    <2> QED BY <1>3, <2>1, WorkloadFacts, SizesAdd
<1> QED BY <1>1, <1>2, <1>3, <1>4

\* One more range fits beside the others if there is room for it as long as it
\* lives.
LEMMA OneMoreFits ==
    ASSUME NEW w, IsWorkload(w), NEW S \in SUBSET DOMAIN w.lrs, NEW I \in SUBSET S, FitIn(w, I, S),
           NEW c \in DOMAIN w.lrs, c \notin S, FitIn(w, {c}, S \cup {c})
    PROVE  FitIn(w, I \cup {c}, S \cup {c})
<1> SUFFICES ASSUME NEW i \in I \cup {c}, NEW t \in LifeIn(w, i)
             PROVE  w.fixed[t] + SizeIn(w, S \cup {c}, t) <= w.limit
    BY DEF FitIn
<1>1. CASE t \in LifeIn(w, c)
    BY <1>1 DEF FitIn
<1>2. CASE t \notin LifeIn(w, c)
    <2>1. i \in I
        BY <1>2
    <2>2. w.fixed[t] + SizeIn(w, S, t) <= w.limit
        BY <2>1 DEF FitIn
    <2>3. {c} \in SUBSET DOMAIN w.lrs /\ S \cap {c} = {}
        OBVIOUS
    <2>4. SizeIn(w, S \cup {c}, t) = SizeIn(w, S, t) + SizeIn(w, {c}, t)
        BY <2>3, SizesAdd
    <2>5. SizeIn(w, {c}, t) = 0 /\ SizeIn(w, S, t) \in Nat
        BY <1>2, SizesAdd
    <2> QED BY <2>2, <2>4, <2>5
<1> QED BY <1>1, <1>2

-----------------------------------------------------------------------------
(* The decisions of the recursion.                                         *)

Decision == [kept : BOOLEAN, always : BOOLEAN]

Members(c)    == {c[k] : k \in DOMAIN c}
Chosen(c, p)  == {c[k] : k \in {d \in 1..Len(p) : p[d].kept}}
Dropped(c, p) == {c[k] : k \in {d \in 1..Len(p) : ~p[d].kept}}

\* A list of ranges, none of them twice, and decisions about the first of them.
Deciding(c, p) ==
    /\ DOMAIN c = 1..Len(c) /\ Len(c) \in Nat
    /\ \A j, k \in 1..Len(c) : c[j] = c[k] => j = k
    /\ p \in Seq(Decision) /\ Len(p) <= Len(c)

\* What is decided either way is of the list, and decided one way only.
LEMMA DecidedOnce ==
    ASSUME NEW c, NEW p, Deciding(c, p)
    PROVE  /\ Chosen(c, p) \subseteq Members(c) /\ Dropped(c, p) \subseteq Members(c)
           /\ Chosen(c, p) \cap Dropped(c, p) = {}
           /\ Len(p) = Len(c) => Chosen(c, p) = Members(c) \ Dropped(c, p)
           /\ Len(p) = 0 => Chosen(c, p) = {} /\ Dropped(c, p) = {}
<1>1. Len(p) \in Nat /\ 1..Len(p) \subseteq 1..Len(c) /\ DOMAIN c = 1..Len(c)
    BY DEF Deciding
<1>2. \A j, k \in 1..Len(c) : c[j] = c[k] => j = k
    BY DEF Deciding
<1>3. \A d \in 1..Len(p) : p[d].kept \in BOOLEAN
    <2>1. \A d \in 1..Len(p) : p[d] \in Decision
        BY DEF Deciding
    <2> QED BY <2>1 DEF Decision
<1>4. Chosen(c, p) \subseteq Members(c) /\ Dropped(c, p) \subseteq Members(c)
    BY <1>1 DEF Chosen, Dropped, Members
<1>5. Chosen(c, p) \cap Dropped(c, p) = {}
    BY <1>1, <1>2 DEF Chosen, Dropped
<1>6. ASSUME Len(p) = Len(c) PROVE Members(c) \subseteq Chosen(c, p) \cup Dropped(c, p)
    BY <1>1, <1>6 DEF Chosen, Dropped, Members
<1>7. ASSUME Len(p) = 0 PROVE Chosen(c, p) = {} /\ Dropped(c, p) = {}
    BY <1>7 DEF Chosen, Dropped
<1> QED BY <1>4, <1>5, <1>6, <1>7

IsNext(p, e, q) == q = Append(p, e)
IsBack(p, q)    == q = SubSeq(p, 1, Len(p) - 1)

\* One decision more.
LEMMA DecideNext ==
    ASSUME NEW c, NEW p, Deciding(c, p), Len(p) < Len(c), NEW e \in Decision,
           NEW q, IsNext(p, e, q), NEW x, x = c[Len(p) + 1]
    PROVE  /\ Deciding(c, q) /\ Len(q) = Len(p) + 1
           /\ q[Len(q)] = e /\ \A d \in 1..Len(p) : q[d] = p[d]
           /\ x \in Members(c) /\ x \notin Chosen(c, p) /\ x \notin Dropped(c, p)
           /\ e.kept => Chosen(c, q) = Chosen(c, p) \cup {x} /\ Dropped(c, q) = Dropped(c, p)
           /\ ~e.kept => Chosen(c, q) = Chosen(c, p) /\ Dropped(c, q) = Dropped(c, p) \cup {x}
<1>1. PICK n \in Nat : n = Len(p)
    BY DEF Deciding
<1>2. p \in Seq(Decision) /\ DOMAIN c = 1..Len(c) /\ Len(c) \in Nat
      /\ \A j, k \in 1..Len(c) : c[j] = c[k] => j = k
    BY DEF Deciding
<1>3. q \in Seq(Decision) /\ Len(q) = n + 1 /\ q[n + 1] = e /\ \A d \in 1..n : q[d] = p[d]
    BY <1>1, <1>2 DEF IsNext
<1>4. Deciding(c, q)
    BY <1>1, <1>2, <1>3 DEF Deciding
<1>5. n + 1 \in DOMAIN c /\ \A d \in 1..n : d \in DOMAIN c /\ c[d] # c[n + 1]
    BY <1>1, <1>2
<1>6. c[n + 1] \in Members(c) /\ c[n + 1] \notin Chosen(c, p) /\ c[n + 1] \notin Dropped(c, p)
    BY <1>1, <1>5 DEF Members, Chosen, Dropped
<1>7. 1..(n + 1) = 1..n \cup {n + 1}
    OBVIOUS
<1>8. Chosen(c, q) = IF e.kept THEN Chosen(c, p) \cup {c[n + 1]} ELSE Chosen(c, p)
    <2>1. CASE e.kept
        <3>1. {d \in 1..(n + 1) : q[d].kept} = {d \in 1..n : p[d].kept} \cup {n + 1}
            BY <1>3, <1>7, <2>1
        <3> QED BY <1>1, <1>3, <2>1, <3>1 DEF Chosen
    <2>2. CASE ~e.kept
        <3>1. {d \in 1..(n + 1) : q[d].kept} = {d \in 1..n : p[d].kept}
            BY <1>3, <1>7, <2>2
        <3> QED BY <1>1, <1>3, <2>2, <3>1 DEF Chosen
    <2> QED BY <2>1, <2>2
<1>9. Dropped(c, q) = IF e.kept THEN Dropped(c, p) ELSE Dropped(c, p) \cup {c[n + 1]}
    <2>1. CASE e.kept
        <3>1. {d \in 1..(n + 1) : ~q[d].kept} = {d \in 1..n : ~p[d].kept}
            BY <1>3, <1>7, <2>1
        <3> QED BY <1>1, <1>3, <2>1, <3>1 DEF Dropped
    <2>2. CASE ~e.kept
        <3>1. {d \in 1..(n + 1) : ~q[d].kept} = {d \in 1..n : ~p[d].kept} \cup {n + 1}
            BY <1>3, <1>7, <2>2
        <3> QED BY <1>1, <1>3, <2>2, <3>1 DEF Dropped
    <2> QED BY <2>1, <2>2
<1> QED BY <1>1, <1>3, <1>4, <1>6, <1>8, <1>9

\* One decision less: the last one is for its range, or against it.
LEMMA UndecideLast ==
    ASSUME NEW c, NEW p, Deciding(c, p), Len(p) > 0,
           NEW q, IsBack(p, q), NEW x, x = c[Len(p)]
    PROVE  /\ Deciding(c, q) /\ Len(q) = Len(p) - 1
           /\ \A d \in 1..Len(q) : q[d] = p[d]
           /\ x \in Members(c) /\ x = c[Len(q) + 1]
           /\ p[Len(p)] \in Decision
           /\ IF p[Len(p)].kept THEN x \in Chosen(c, p) ELSE x \in Dropped(c, p)
           /\ Chosen(c, q) = IF p[Len(p)].kept THEN Chosen(c, p) \ {x} ELSE Chosen(c, p)
           /\ Dropped(c, q) = IF p[Len(p)].kept THEN Dropped(c, p) ELSE Dropped(c, p) \ {x}
<1>1. PICK n \in Nat : n + 1 = Len(p)
    <2>1. Len(p) \in Nat /\ Len(p) > 0
        BY DEF Deciding
    <2>2. Len(p) - 1 \in Nat /\ (Len(p) - 1) + 1 = Len(p)
        BY <2>1
    <2> QED BY <2>2
<1>2. p \in Seq(Decision) /\ DOMAIN c = 1..Len(c) /\ Len(c) \in Nat /\ n + 1 <= Len(c)
      /\ \A j, k \in 1..Len(c) : c[j] = c[k] => j = k
    BY <1>1 DEF Deciding
<1>3. \A d \in 1..(n + 1) : p[d] \in Decision
    BY <1>1, <1>2
<1>4. q \in Seq(Decision) /\ Len(q) = n /\ \A d \in 1..n : q[d] = p[d]
    <2>1. Len(p) - 1 = n
        BY <1>1
    <2>2. q = SubSeq(p, 1, n)
        BY <2>1 DEF IsBack
    <2> QED BY <1>1, <1>2, <1>3, <2>2
<1>5. Deciding(c, q)
    BY <1>2, <1>4 DEF Deciding
<1>6. n + 1 \in DOMAIN c /\ \A d \in 1..n : d \in DOMAIN c /\ c[d] # c[n + 1]
    BY <1>2
<1>7. 1..(n + 1) = 1..n \cup {n + 1} /\ n + 1 \notin 1..n
    OBVIOUS
<1>8. c[n + 1] \notin Chosen(c, q) /\ c[n + 1] \notin Dropped(c, q)
    BY <1>4, <1>6 DEF Chosen, Dropped
<1>11. x = c[n + 1] /\ n = Len(p) - 1 /\ x \in Members(c)
    BY <1>1, <1>6 DEF Members
<1>12. p[n + 1] \in Decision
    BY <1>3
<1>9. CASE p[n + 1].kept
    <2>1. {d \in 1..(n + 1) : p[d].kept} = {d \in 1..n : q[d].kept} \cup {n + 1}
        BY <1>4, <1>7, <1>9
    <2>2. {d \in 1..(n + 1) : ~p[d].kept} = {d \in 1..n : ~q[d].kept}
        BY <1>4, <1>7, <1>9
    <2>3. Chosen(c, p) = Chosen(c, q) \cup {c[n + 1]} /\ Dropped(c, p) = Dropped(c, q)
        BY <1>1, <1>4, <2>1, <2>2 DEF Chosen, Dropped
    <2>4. /\ c[n + 1] \in Chosen(c, p)
          /\ Chosen(c, q) = Chosen(c, p) \ {c[n + 1]} /\ Dropped(c, q) = Dropped(c, p)
        BY <1>8, <2>3
    <2>5. p[Len(p)].kept /\ p[Len(p)] \in Decision
        BY <1>1, <1>9, <1>12
    <2>6. x \in Chosen(c, p) /\ Chosen(c, q) = Chosen(c, p) \ {x} /\ Dropped(c, q) = Dropped(c, p)
        BY <1>11, <2>4
    <2> QED BY <1>4, <1>5, <1>11, <2>5, <2>6
<1>10. CASE ~p[n + 1].kept
    <2>1. {d \in 1..(n + 1) : ~p[d].kept} = {d \in 1..n : ~q[d].kept} \cup {n + 1}
        BY <1>4, <1>7, <1>10
    <2>2. {d \in 1..(n + 1) : p[d].kept} = {d \in 1..n : q[d].kept}
        BY <1>4, <1>7, <1>10
    <2>3. Dropped(c, p) = Dropped(c, q) \cup {c[n + 1]} /\ Chosen(c, p) = Chosen(c, q)
        BY <1>1, <1>4, <2>1, <2>2 DEF Chosen, Dropped
    <2>4. /\ c[n + 1] \in Dropped(c, p)
          /\ Dropped(c, q) = Dropped(c, p) \ {c[n + 1]} /\ Chosen(c, q) = Chosen(c, p)
        BY <1>8, <2>3
    <2>5. ~p[Len(p)].kept /\ p[Len(p)] \in Decision
        BY <1>1, <1>10, <1>12
    <2>6. x \in Dropped(c, p) /\ Dropped(c, q) = Dropped(c, p) \ {x} /\ Chosen(c, q) = Chosen(c, p)
        BY <1>11, <2>4
    <2> QED BY <1>4, <1>5, <1>11, <2>5, <2>6
<1> QED BY <1>9, <1>10

\* The last decision, to keep, is taken back; the rest stays.
IsReversed(p, q) ==
    /\ q \in Seq(Decision) /\ Len(q) = Len(p)
    /\ \A d \in 1..(Len(p) - 1) : q[d] = p[d]
    /\ q[Len(p)].kept = FALSE

LEMMA Reversing ==
    ASSUME NEW p \in Seq(Decision), Len(p) > 0
    PROVE  IsReversed(p, [p EXCEPT ![Len(p)].kept = FALSE])
<1>1. PICK n : n = Len(p)
    OBVIOUS
<1>2. PICK r : r = p[n]
    OBVIOUS
<1>3. n \in Nat /\ n \in 1..n /\ p \in [1..n -> Decision]
    BY <1>1
<1>4. r \in Decision
    BY <1>2, <1>3
<1>5. PICK e : e = [r EXCEPT !.kept = FALSE]
    OBVIOUS
<1>6. e \in Decision /\ e.kept = FALSE
    BY <1>4, <1>5 DEF Decision
<1>7. PICK q : q = [p EXCEPT ![n] = e]
    OBVIOUS
<1>8. q \in [1..n -> Decision] /\ q[n] = e /\ \A d \in 1..(n - 1) : q[d] = p[d]
    BY <1>3, <1>6, <1>7
<1>9. q \in Seq(Decision) /\ Len(q) = n
    BY <1>3, <1>8
<1>10. IsReversed(p, q)
    BY <1>1, <1>6, <1>8, <1>9 DEF IsReversed
<1>11. q = [p EXCEPT ![Len(p)].kept = FALSE]
    BY <1>1, <1>2, <1>5, <1>7
<1> QED BY <1>10, <1>11

\* The last decision reversed: without its range.
LEMMA DecideAgainst ==
    ASSUME NEW c, NEW p, Deciding(c, p), Len(p) > 0, p[Len(p)].kept,
           NEW q, IsReversed(p, q), NEW x, x = c[Len(p)]
    PROVE  /\ Deciding(c, q)
           /\ x \in Members(c) /\ x \in Chosen(c, p)
           /\ Chosen(c, q) = Chosen(c, p) \ {x}
           /\ Dropped(c, q) = Dropped(c, p) \cup {x}
<1>1. PICK n \in Nat : n + 1 = Len(p)
    <2>1. Len(p) \in Nat /\ Len(p) > 0
        BY DEF Deciding
    <2>2. Len(p) - 1 \in Nat /\ (Len(p) - 1) + 1 = Len(p)
        BY <2>1
    <2> QED BY <2>2
<1>2. p \in Seq(Decision) /\ DOMAIN c = 1..Len(c) /\ Len(c) \in Nat /\ n + 1 <= Len(c)
      /\ \A j, k \in 1..Len(c) : c[j] = c[k] => j = k
    BY <1>1 DEF Deciding
<1>3. \A d \in 1..(n + 1) : p[d] \in Decision
    BY <1>1, <1>2
<1>6. q \in Seq(Decision) /\ Len(q) = n + 1 /\ \A d \in 1..n : q[d] = p[d]
    <2>1. Len(p) - 1 = n
        BY <1>1
    <2> QED BY <1>1, <2>1 DEF IsReversed
<1>7. q[n + 1].kept = FALSE
    BY <1>1 DEF IsReversed
<1>8. Deciding(c, q)
    BY <1>2, <1>6 DEF Deciding
<1>9. n + 1 \in DOMAIN c /\ \A d \in 1..n : d \in DOMAIN c /\ c[d] # c[n + 1]
    BY <1>2
<1>10. 1..(n + 1) = 1..n \cup {n + 1} /\ n + 1 \notin 1..n
    OBVIOUS
<1>11. {d \in 1..(n + 1) : p[d].kept} = {d \in 1..(n + 1) : q[d].kept} \cup {n + 1}
    BY <1>1, <1>6, <1>7, <1>10
<1>12. {d \in 1..(n + 1) : ~q[d].kept} = {d \in 1..(n + 1) : ~p[d].kept} \cup {n + 1}
    BY <1>1, <1>6, <1>7, <1>10
<1>13. Chosen(c, p) = Chosen(c, q) \cup {c[n + 1]} /\ Dropped(c, q) = Dropped(c, p) \cup {c[n + 1]}
    BY <1>1, <1>6, <1>11, <1>12 DEF Chosen, Dropped
<1>14. c[n + 1] \notin Chosen(c, q)
    <2> SUFFICES ASSUME NEW d \in 1..(n + 1), q[d].kept PROVE c[d] # c[n + 1]
        BY <1>6 DEF Chosen
    <2>1. d # n + 1
        BY <1>6, <1>7
    <2> QED BY <1>9, <1>10, <2>1
<1>15. c[n + 1] \in Chosen(c, p) /\ Chosen(c, q) = Chosen(c, p) \ {c[n + 1]}
    BY <1>13, <1>14
<1>16. x = c[n + 1] /\ n = Len(p) - 1 /\ x \in Members(c)
    BY <1>1, <1>9 DEF Members
<1> QED BY <1>1, <1>6, <1>7, <1>8, <1>13, <1>15, <1>16

-----------------------------------------------------------------------------
(* The order of the competing ranges.                                      *)

\* Sorting lists each range once.
LEMMA OrderLists ==
    ASSUME NEW S \in SUBSET Nat, IsFiniteSet(S)
    PROVE  /\ InOrder(S) \in Seq(S) /\ Members(InOrder(S)) \subseteq S
           /\ \A j, k \in DOMAIN InOrder(S) : InOrder(S)[j] = InOrder(S)[k] => j = k
<1> DEFINE R == {e \in S \X S : e[1] < e[2]}
           n == Cardinality(S)
           sorted == InOrder(S)
<1>1. n \in Nat
    BY FS_CardinalityType
<1>2. \A x, y \in S : <<x, y>> \in R <=> x < y
    OBVIOUS
<1>3. sorted = [k \in 1..n |-> CHOOSE i \in S : Cardinality({j \in S : j < i}) = k - 1]
    BY DEF InOrder
<1>4. sorted = [k \in 1..n |-> sorted[k]]
    BY <1>3
<1>5. \A x \in S : {y \in S : <<y, x>> \in R} = {j \in S : j < x}
    BY <1>2
<1>6. ASSUME NEW k \in 1..n, NEW x \in S, Cardinality({y \in S : <<y, x>> \in R}) = k - 1
      PROVE  /\ sorted[k] \in S
             /\ Cardinality({y \in S : <<y, sorted[k]>> \in R}) = k - 1
    <2>1. Cardinality({j \in S : j < x}) = k - 1
        BY <1>5, <1>6
    <2>2. sorted[k] = CHOOSE i \in S : Cardinality({j \in S : j < i}) = k - 1
        BY <1>3
    <2>3. sorted[k] \in S /\ Cardinality({j \in S : j < sorted[k]}) = k - 1
        BY <2>1, <2>2
    <2> HIDE DEF R, sorted
    <2> QED BY <1>5, <2>3
<1>7. sorted \in Bijection(1..n, S)
    <2>1. \A x \in S : <<x, x>> \notin R
        BY <1>2
    <2>2. \A x, y \in S : x # y => <<x, y>> \in R \/ <<y, x>> \in R
        BY <1>2
    <2>3. \A x, y, z \in S : <<x, y>> \in R /\ <<y, z>> \in R => <<x, z>> \in R
        BY <1>2
    <2> HIDE DEF R, sorted
    <2> QED BY <1>1, <1>4, <1>6, <2>1, <2>2, <2>3, SortingPermutes
<1> HIDE DEF sorted
<1>8. sorted \in [1..n -> S] /\ \A j, k \in 1..n : sorted[j] = sorted[k] => j = k
    BY <1>7 DEF Bijection, Injection, IsInjective
<1>9. sorted \in Seq(S) /\ DOMAIN sorted = 1..n
    BY <1>1, <1>8
<1>10. Members(sorted) \subseteq S
    BY <1>8, <1>9 DEF Members
<1> QED BY <1>8, <1>9, <1>10 DEF sorted

-----------------------------------------------------------------------------
(* The invariant of the search.                                            *)

InUse   == Placed("kept") \cup Chosen(component, path)
NotGone == Lrs \ (Placed("evicted") \cup Dropped(component, path))

Typed ==
    /\ load \in Workloads
    /\ place \in [Lrs -> {"open", "kept", "evicted"}]
    /\ mode \in {"switches", "sweep", "divide", "enter", "leave", "done", "end"}

\* The ranges that are searched and those that wait are open, and apart.
Lists ==
    /\ Deciding(component, path) /\ Members(component) \subseteq Placed("open")
    /\ waiting \in Seq(Lrs) /\ Members(waiting) \subseteq Placed("open")
    /\ \A j, k \in DOMAIN waiting : waiting[j] = waiting[k] => j = k
    /\ Members(component) \cap Members(waiting) = {}
    /\ mode \notin {"enter", "leave"} => path = <<>>
    /\ mode \in {"switches", "sweep"} => component = <<>> /\ waiting = <<>> /\ Placed("kept") = {}
    /\ mode = "switches" => Placed("evicted") = {}

Usages ==
    /\ mode \notin {"done", "end"} => Uses(load, base, InUse)
    /\ Uses(load, peak, NotGone)

BestFits ==
    /\ best.evicted \subseteq Members(component)
    /\ Fits(load, Placed("kept") \cup (Members(component) \ best.evicted))

\* What is kept so far fits, and so will the best choice, once there is one.
Feasible ==
    /\ Fits(load, InUse)
    /\ mode = "enter" => best.score = 0 \/ BestFits
    /\ mode = "leave" => BestFits

SearchInv == Typed /\ Lists /\ Usages /\ Feasible

\* The usages of the model are sums of sizes over the workload.
LEMMA UsageFacts ==
    /\ \A S, t : SizeAt(S, t) = SizeIn(load, S, t)
    /\ Times = DOMAIN load.fixed /\ Lrs = DOMAIN load.lrs
    /\ \A i : Life(i) = LifeIn(load, i)
    /\ \A u, S : Remaining(u, S) = [t \in DOMAIN load.fixed |-> u[t] - SizeIn(load, S, t)]
    /\ \A u, S : Increased(u, S) = [t \in DOMAIN load.fixed |-> u[t] + SizeIn(load, S, t)]
    /\ TriedKept = Chosen(component, path) /\ TriedEvicted = Dropped(component, path)
<1>1. \A S, t : SizeAt(S, t) = SizeIn(load, S, t)
    BY DEF SizeAt, SizeIn, AliveIn, LifeIn, Lr, Life
<1>2. /\ Times = DOMAIN load.fixed /\ Lrs = DOMAIN load.lrs
      /\ \A i : Life(i) = LifeIn(load, i)
      /\ TriedKept = Chosen(component, path) /\ TriedEvicted = Dropped(component, path)
    BY DEF Times, Lrs, Life, LifeIn, Lr, TriedKept, TriedEvicted, Chosen, Dropped, Depth
<1>3. \A u, S : Remaining(u, S) = [t \in DOMAIN load.fixed |-> u[t] - SizeIn(load, S, t)]
    BY <1>1, <1>2 DEF Remaining
<1>4. \A u, S : Increased(u, S) = [t \in DOMAIN load.fixed |-> u[t] + SizeIn(load, S, t)]
    BY <1>1, <1>2 DEF Increased
<1> QED BY <1>1, <1>2, <1>3, <1>4

\* Nothing is listed, and nothing decided.
LEMMA NothingListed ==
    /\ Deciding(<<>>, <<>>) /\ Members(<<>>) = {}
    /\ \A c : Chosen(c, <<>>) = {} /\ Dropped(c, <<>>) = {}
BY DEF Deciding, Members, Chosen, Dropped

LEMMA SearchBegins == Init => SearchInv
<1> SUFFICES ASSUME Init PROVE SearchInv
    OBVIOUS
<1>1. load \in Workloads /\ IsWorkload(load)
    BY WorkloadsAssumption DEF Init
<1>2. Typed
    BY <1>1 DEF Init, Typed
<1>3. Placed("kept") = {} /\ Placed("evicted") = {} /\ Placed("open") = Lrs
    BY DEF Init, Placed
<1>4. component = <<>> /\ waiting = <<>> /\ path = <<>> /\ mode = "switches"
    BY DEF Init
<1>5. Lists
    BY <1>3, <1>4, NothingListed DEF Lists, Members
<1>6. InUse = {} /\ NotGone = DOMAIN load.lrs
    BY <1>3, <1>4, NothingListed, UsageFacts DEF InUse, NotGone
<1>7. Uses(load, base, InUse)
    <2>1. base = load.fixed
        BY DEF Init
    <2>2. \A t \in DOMAIN load.fixed : load.fixed[t] \in Nat /\ SizeIn(load, {}, t) = 0
        BY <1>1, WorkloadFacts, SizesAdd
    <2>3. base \in [DOMAIN load.fixed -> Int]
        BY <1>1, <2>1 DEF IsWorkload
    <2> QED BY <1>6, <2>1, <2>2, <2>3 DEF Uses
<1>8. Uses(load, peak, NotGone)
    <2>1. peak = [t \in DOMAIN load.fixed |-> load.fixed[t] + SizeIn(load, DOMAIN load.lrs, t)]
        BY UsageFacts DEF Init
    <2>2. \A t \in DOMAIN load.fixed :
             load.fixed[t] \in Nat /\ SizeIn(load, DOMAIN load.lrs, t) \in Nat
        <3>1. DOMAIN load.lrs \in SUBSET DOMAIN load.lrs
            OBVIOUS
        <3> QED BY <1>1, <3>1, WorkloadFacts, SizesAdd
    <2> QED BY <1>6, <2>1, <2>2 DEF Uses
<1>9. Feasible
    BY <1>4, <1>6 DEF Feasible, Fits, FitIn
<1> QED BY <1>2, <1>5, <1>7, <1>8, <1>9 DEF SearchInv, Usages

\* What the invariant says of the range the recursion comes to.
LEMMA ComingIsOpen ==
    ASSUME SearchInv, Depth < Len(component)
    PROVE  /\ Coming \in Members(component) /\ Coming \in DOMAIN load.lrs
           /\ Coming \notin InUse /\ Coming \in NotGone
           /\ place[Coming] = "open"
<1>1. Deciding(component, path) /\ Len(path) < Len(component)
    BY DEF SearchInv, Lists, Depth
<1>2. PICK n \in Nat : n = Len(path) /\ n + 1 \in 1..Len(component)
    <2>1. Len(path) \in Nat /\ Len(component) \in Nat
        BY <1>1 DEF Deciding
    <2> QED BY <1>1, <2>1
<1>3. Coming = component[n + 1]
    BY <1>2 DEF Coming, Depth
<1>4. Coming \in Members(component)
    BY <1>1, <1>2, <1>3 DEF Members, Deciding
<1>5. Coming \in Lrs /\ place[Coming] = "open"
    BY <1>4 DEF SearchInv, Lists, Placed
<1>6. Coming \notin Chosen(component, path) /\ Coming \notin Dropped(component, path)
    <2>1. \A d \in 1..n : component[d] # Coming
        <3>1. \A d \in 1..n : d \in 1..Len(component) /\ d # n + 1
            BY <1>2
        <3> QED BY <1>1, <1>2, <1>3, <3>1 DEF Deciding
    <2> QED BY <1>2, <2>1 DEF Chosen, Dropped
<1> QED BY <1>4, <1>5, <1>6, UsageFacts DEF InUse, NotGone, Placed

\* A range that does not exceed the limit on top of the highest usage fits
\* beside all that is kept so far.
LEMMA ComingFits ==
    ASSUME SearchInv, mode = "enter", Depth < Len(component), ~CannotFit(Coming)
    PROVE  Fits(load, InUse \cup {Coming})
<1>1. PICK w : w = load
    OBVIOUS
<1>2. PICK c : c = Coming
    OBVIOUS
<1>3. IsWorkload(w) /\ w.limit \in Int
    BY <1>1, WorkloadsAssumption DEF SearchInv, Typed, IsWorkload
<1>4. c \in DOMAIN w.lrs /\ c \notin InUse
    BY <1>1, <1>2, ComingIsOpen
<1>5. Uses(w, base, InUse) /\ Fits(w, InUse)
    BY <1>1 DEF SearchInv, Usages, Feasible
<1>6. InUse \in SUBSET DOMAIN w.lrs
    BY <1>5 DEF Uses
<1>7. ~(Max({base[s] : s \in LifeIn(w, c)}) + w.lrs[c].size > w.limit)
    BY <1>1, <1>2, UsageFacts DEF CannotFit, MaxOver, Lr
<1>8. ASSUME NEW t \in LifeIn(w, c)
      PROVE  w.fixed[t] + SizeIn(w, InUse \cup {c}, t) <= w.limit
    <2>1. PICK m : m = Max({base[s] : s \in LifeIn(w, c)})
        OBVIOUS
    <2>2. base[t] <= m
        BY <1>3, <1>4, <1>5, <2>1, HighestUsage
    <2>3. \E s \in LifeIn(w, c) : m = base[s]
        BY <1>3, <1>4, <1>5, <2>1, HighestUsage
    <2>4. LifeIn(w, c) \subseteq DOMAIN w.fixed /\ w.lrs[c].size \in Nat
        BY <1>3, <1>4, WorkloadFacts
    <2>5. m \in Int
        BY <1>5, <2>3, <2>4 DEF Uses
    <2>6. w.fixed[t] \in Nat /\ base[t] = w.fixed[t] + SizeIn(w, InUse, t)
        BY <1>3, <1>5, <2>4, WorkloadFacts DEF Uses
    <2>7. InUse \cap {c} = {} /\ {c} \in SUBSET DOMAIN w.lrs
        BY <1>4
    <2>8. SizeIn(w, InUse \cup {c}, t) = SizeIn(w, InUse, t) + SizeIn(w, {c}, t)
        BY <1>3, <1>6, <2>7, SizesAdd
    <2>9. SizeIn(w, {c}, t) = w.lrs[c].size /\ SizeIn(w, InUse, t) \in Nat
        BY <1>3, <1>4, <1>6, SizesAdd
    <2>10. ~(m + w.lrs[c].size > w.limit)
        BY <1>7, <2>1
    <2>11. PICK f, u, z, r : f = w.fixed[t] /\ u = SizeIn(w, InUse, t) /\ z = w.lrs[c].size
                             /\ r = w.limit
        OBVIOUS
    <2>12. f \in Nat /\ u \in Nat /\ z \in Nat /\ r \in Int /\ f + u <= m /\ ~(m + z > r)
        BY <1>3, <2>2, <2>4, <2>6, <2>9, <2>10, <2>11
    <2>13. f + (u + z) <= r
        BY <2>5, <2>12
    <2> QED BY <2>8, <2>9, <2>11, <2>13
<1>9. FitIn(w, InUse, InUse) /\ FitIn(w, {c}, InUse \cup {c})
    BY <1>5, <1>8 DEF Fits, FitIn
<1>10. FitIn(w, InUse \cup {c}, InUse \cup {c})
    BY <1>3, <1>4, <1>6, <1>9, OneMoreFits
<1> QED BY <1>1, <1>2, <1>10 DEF Fits

\* What fits with a range can no longer fit once the range exceeds the limit.
LEMMA ComingExceeds ==
    ASSUME SearchInv, mode = "enter", Depth < Len(component), CannotFit(Coming)
    PROVE  \E t \in LifeIn(load, Coming) : \A S \in SUBSET DOMAIN load.lrs :
              InUse \cup {Coming} \subseteq S => load.fixed[t] + SizeIn(load, S, t) > load.limit
<1>1. PICK w : w = load
    OBVIOUS
<1>2. PICK c : c = Coming
    OBVIOUS
<1>3. IsWorkload(w) /\ w.limit \in Int
    BY <1>1, WorkloadsAssumption DEF SearchInv, Typed, IsWorkload
<1>4. c \in DOMAIN w.lrs /\ c \notin InUse
    BY <1>1, <1>2, ComingIsOpen
<1>5. Uses(w, base, InUse)
    BY <1>1 DEF SearchInv, Usages
<1>6. InUse \in SUBSET DOMAIN w.lrs
    BY <1>5 DEF Uses
<1>7. Max({base[s] : s \in LifeIn(w, c)}) + w.lrs[c].size > w.limit
    BY <1>1, <1>2, UsageFacts DEF CannotFit, MaxOver, Lr
<1>8. PICK t \in LifeIn(w, c) : Max({base[s] : s \in LifeIn(w, c)}) = base[t]
    BY <1>3, <1>4, <1>5, HighestUsage
<1>9. base[t] + w.lrs[c].size > w.limit
    BY <1>7, <1>8
<1>10. ASSUME NEW S \in SUBSET DOMAIN w.lrs, InUse \cup {c} \subseteq S
       PROVE  w.fixed[t] + SizeIn(w, S, t) > w.limit
    <2>1. LifeIn(w, c) \subseteq DOMAIN w.fixed /\ w.lrs[c].size \in Nat
        BY <1>3, <1>4, WorkloadFacts
    <2>2. w.fixed[t] \in Nat /\ base[t] = w.fixed[t] + SizeIn(w, InUse, t)
        BY <1>3, <1>5, <1>8, <2>1, WorkloadFacts DEF Uses
    <2>3. InUse \cap {c} = {} /\ {c} \in SUBSET DOMAIN w.lrs /\ InUse \cup {c} \in SUBSET DOMAIN w.lrs
        BY <1>4, <1>6
    <2>4. SizeIn(w, InUse \cup {c}, t) = SizeIn(w, InUse, t) + SizeIn(w, {c}, t)
        BY <1>3, <1>6, <2>3, SizesAdd
    <2>5. SizeIn(w, {c}, t) = w.lrs[c].size /\ SizeIn(w, InUse, t) \in Nat /\ SizeIn(w, S, t) \in Nat
        BY <1>3, <1>4, <1>6, <1>8, SizesAdd
    <2>6. SizeIn(w, InUse \cup {c}, t) <= SizeIn(w, S, t)
        BY <1>3, <1>10, SizesGrow
    <2> QED BY <1>3, <1>9, <2>1, <2>2, <2>4, <2>5, <2>6
<1> QED BY <1>1, <1>2, <1>8, <1>10

\* The next range is kept, if it fits.
LEMMA EnterKeepKeeps ==
    ASSUME SearchInv, EnterKeep PROVE SearchInv'
<1>1. PICK w, c, q : w = load /\ c = Coming /\ q = path'
    OBVIOUS
<1>2. mode = "enter" /\ Depth < Len(component) /\ ~CannotFit(c)
      /\ UNCHANGED <<load, peak, place, component, waiting, mode, best>>
    BY <1>1 DEF EnterKeep
<1>3. IsWorkload(w)
    BY <1>1, WorkloadsAssumption DEF SearchInv, Typed
<1>4. PICK e \in Decision : q = Append(path, e) /\ e.kept
    <2>1. AlwaysFits(peak, Coming) \in BOOLEAN
        BY DEF AlwaysFits
    <2>2. PICK e : e = [kept |-> TRUE, always |-> AlwaysFits(peak, Coming)]
        OBVIOUS
    <2>3. e \in [kept : BOOLEAN, always : BOOLEAN] /\ e.kept
        BY <2>1, <2>2
    <2>4. q = Append(path, e)
        BY <1>1, <2>2 DEF EnterKeep
    <2> QED BY <2>3, <2>4 DEF Decision
<1>5. Deciding(component, path) /\ Len(path) < Len(component) /\ c = component[Len(path) + 1]
    BY <1>1, <1>2 DEF SearchInv, Lists, Depth, Coming
<1>6. /\ Deciding(component, q) /\ Chosen(component, q) = Chosen(component, path) \cup {c}
      /\ Dropped(component, q) = Dropped(component, path)
    <2>1. /\ Deciding(component, q)
          /\ e.kept => /\ Chosen(component, q) = Chosen(component, path) \cup {c}
                       /\ Dropped(component, q) = Dropped(component, path)
        <3>1. IsNext(path, e, q)
            BY <1>4 DEF IsNext
        <3> QED BY <1>5, <3>1, DecideNext
    <2> QED BY <1>4, <2>1
<1>7. c \in DOMAIN w.lrs /\ c \notin InUse
    BY <1>1, <1>2, ComingIsOpen
<1>8. /\ Placed("kept")' = Placed("kept") /\ Placed("evicted")' = Placed("evicted")
      /\ Placed("open")' = Placed("open") /\ Lrs' = Lrs
    BY <1>2 DEF Placed, Lrs
<1>9. InUse' = InUse \cup {c} /\ NotGone' = NotGone
    BY <1>1, <1>2, <1>6, <1>8 DEF InUse, NotGone
<1>10. Typed'
    BY <1>2, <1>8 DEF SearchInv, Typed
<1>11. Lists'
    BY <1>1, <1>2, <1>6, <1>8 DEF SearchInv, Lists
<1>12. Uses(load', base', InUse')
    <2>1. Uses(w, base, InUse)
        BY <1>1, <1>2 DEF SearchInv, Usages
    <2>2. base' = [t \in DOMAIN w.fixed |->
                      IF t \in LifeIn(w, c) THEN base[t] + w.lrs[c].size ELSE base[t]]
        BY <1>1, UsageFacts DEF EnterKeep, Adjusted, Lr
    <2> QED BY <1>1, <1>2, <1>3, <1>7, <1>9, <2>1, <2>2, UsesOneMore
<1>13. Uses(load', peak', NotGone')
    BY <1>2, <1>9 DEF SearchInv, Usages
<1>14. Fits(load', InUse')
    BY <1>1, <1>2, <1>9, ComingFits
<1>15. BestFits' <=> BestFits
    BY <1>2, <1>8 DEF BestFits
<1> QED BY <1>2, <1>10, <1>11, <1>12, <1>13, <1>14, <1>15 DEF SearchInv, Usages, Feasible

\* It is evicted, if it exceeds the limit.
LEMMA EnterEvictKeeps ==
    ASSUME SearchInv, EnterEvict PROVE SearchInv'
<1>1. PICK w, c, q : w = load /\ c = Coming /\ q = path'
    OBVIOUS
<1>2. mode = "enter" /\ Depth < Len(component) /\ CannotFit(c)
      /\ UNCHANGED <<load, base, place, component, waiting, mode, best>>
    BY <1>1 DEF EnterEvict
<1>3. IsWorkload(w)
    BY <1>1, WorkloadsAssumption DEF SearchInv, Typed
<1>4. PICK e \in Decision : q = Append(path, e) /\ ~e.kept
    <2>1. PICK e : e = [kept |-> FALSE, always |-> FALSE]
        OBVIOUS
    <2>2. e \in [kept : BOOLEAN, always : BOOLEAN] /\ ~e.kept
        BY <2>1
    <2>3. q = Append(path, e)
        BY <1>1, <2>1 DEF EnterEvict
    <2> QED BY <2>2, <2>3 DEF Decision
<1>5. Deciding(component, path) /\ Len(path) < Len(component) /\ c = component[Len(path) + 1]
    BY <1>1, <1>2 DEF SearchInv, Lists, Depth, Coming
<1>6. /\ Deciding(component, q) /\ Chosen(component, q) = Chosen(component, path)
      /\ Dropped(component, q) = Dropped(component, path) \cup {c}
    <2>1. IsNext(path, e, q)
        BY <1>4 DEF IsNext
    <2>2. /\ Deciding(component, q)
          /\ ~e.kept => /\ Chosen(component, q) = Chosen(component, path)
                        /\ Dropped(component, q) = Dropped(component, path) \cup {c}
        BY <1>5, <2>1, DecideNext
    <2> QED BY <1>4, <2>2
<1>7. c \in NotGone
    BY <1>1, <1>2, ComingIsOpen
<1>8. /\ Placed("kept")' = Placed("kept") /\ Placed("evicted")' = Placed("evicted")
      /\ Placed("open")' = Placed("open") /\ Lrs' = Lrs
    BY <1>2 DEF Placed, Lrs
<1>9. InUse' = InUse /\ NotGone' = NotGone \ {c}
    BY <1>1, <1>2, <1>6, <1>8 DEF InUse, NotGone
<1>10. Typed'
    BY <1>2, <1>8 DEF SearchInv, Typed
<1>11. Lists'
    BY <1>1, <1>2, <1>6, <1>8 DEF SearchInv, Lists
<1>12. Uses(load', peak', NotGone')
    <2>1. Uses(w, peak, NotGone)
        BY <1>1, <1>2 DEF SearchInv, Usages
    <2>2. peak' = [t \in DOMAIN w.fixed |->
                      IF t \in LifeIn(w, c) THEN peak[t] + -w.lrs[c].size ELSE peak[t]]
        BY <1>1, UsageFacts DEF EnterEvict, Adjusted, Lr
    <2> QED BY <1>1, <1>2, <1>3, <1>7, <1>9, <2>1, <2>2, UsesOneLess
<1>13. Uses(load', base', InUse') /\ Fits(load', InUse')
    BY <1>2, <1>9 DEF SearchInv, Usages, Feasible
<1>14. BestFits' <=> BestFits
    BY <1>2, <1>8 DEF BestFits
<1> QED BY <1>2, <1>10, <1>11, <1>12, <1>13, <1>14 DEF SearchInv, Usages, Feasible

\* A complete choice fits, so the best of those seen so far does.
LEMMA RememberKeeps ==
    ASSUME SearchInv, Remember PROVE SearchInv'
<1>1. /\ mode = "enter" /\ mode' = "leave" /\ Depth = Len(component)
      /\ UNCHANGED <<load, base, peak, place, component, waiting, path>>
      /\ best' = IF IsBetter(Score) THEN [score |-> Score, evicted |-> TriedEvicted] ELSE best
    BY DEF Remember
<1>2. /\ Placed("kept")' = Placed("kept") /\ Placed("evicted")' = Placed("evicted")
      /\ Placed("open")' = Placed("open") /\ Lrs' = Lrs
    BY <1>1 DEF Placed, Lrs
<1>3. InUse' = InUse /\ NotGone' = NotGone
    BY <1>1, <1>2 DEF InUse, NotGone
<1>4. Typed'
    BY <1>1, <1>2 DEF SearchInv, Typed
<1>5. Lists'
    BY <1>1, <1>2 DEF SearchInv, Lists
<1>6. Usages'
    BY <1>1, <1>3 DEF SearchInv, Usages
<1>7. Deciding(component, path) /\ Len(path) = Len(component)
    BY <1>1 DEF SearchInv, Lists, Depth
<1>8. /\ Chosen(component, path) = Members(component) \ Dropped(component, path)
      /\ Dropped(component, path) \subseteq Members(component)
    BY <1>7, DecidedOnce
<1>9. BestFits'
    <2>1. CASE IsBetter(Score)
        <3>1. best'.evicted = Dropped(component, path)
            BY <1>1, <2>1, UsageFacts
        <3>2. Fits(load, Placed("kept") \cup Chosen(component, path))
            BY DEF SearchInv, Feasible, InUse
        <3> QED BY <1>1, <1>2, <1>8, <3>1, <3>2 DEF BestFits
    <2>2. CASE ~IsBetter(Score)
        <3>1. best' = best /\ best.score # 0
            BY <1>1, <2>2 DEF IsBetter
        <3>2. BestFits
            BY <1>1, <3>1 DEF SearchInv, Feasible
        <3> QED BY <1>1, <1>2, <3>1, <3>2 DEF BestFits
    <2> QED BY <2>1, <2>2
<1>10. Fits(load', InUse')
    BY <1>1, <1>3 DEF SearchInv, Feasible
<1> QED BY <1>1, <1>4, <1>5, <1>6, <1>9, <1>10 DEF SearchInv, Feasible

\* The range decided last, on the way back.
LEMMA TopIsDecided ==
    ASSUME SearchInv, mode = "leave", Depth > 0
    PROVE  /\ Deciding(component, path) /\ Len(path) > 0 /\ Top = component[Len(path)]
           /\ path \in Seq(Decision) /\ path[Len(path)] \in Decision
           /\ Top \in Members(component) /\ Top \in DOMAIN load.lrs /\ place[Top] = "open"
<1>1. Deciding(component, path) /\ Len(path) > 0 /\ Top = component[Len(path)]
    BY DEF SearchInv, Lists, Depth, Top
<1>2. path \in Seq(Decision)
    BY <1>1 DEF Deciding
<1>3. PICK q : q = SubSeq(path, 1, Len(path) - 1)
    OBVIOUS
<1>4. path[Len(path)] \in Decision /\ Top \in Members(component)
    <2>1. IsBack(path, q)
        BY <1>3 DEF IsBack
    <2> QED BY <1>1, <2>1, UndecideLast
<1>5. Top \in Lrs /\ place[Top] = "open"
    BY <1>4 DEF SearchInv, Lists, Placed
<1> QED BY <1>1, <1>2, <1>4, <1>5 DEF Lrs

\* What is no longer tried may leave what is in use.
LEMMA LessInUse ==
    ASSUME SearchInv, mode = "leave", Depth > 0, NEW c, c = Top, path[Depth].kept
    PROVE  /\ c \in InUse /\ c \in NotGone /\ c \in Lrs
           /\ c \in Chosen(component, path) /\ c \notin Placed("kept") /\ c \notin Placed("evicted")
           /\ InUse \ {c} = Placed("kept") \cup (Chosen(component, path) \ {c})
           /\ Fits(load, InUse \ {c})
<1>1. Deciding(component, path) /\ Len(path) > 0 /\ c = component[Len(path)]
      /\ c \in DOMAIN load.lrs /\ place[c] = "open"
    BY TopIsDecided
<1>2. c \in Chosen(component, path)
    <2>1. Len(path) \in 1..Len(path) /\ path[Len(path)].kept
        BY <1>1 DEF Depth, Deciding
    <2> QED BY <1>1, <2>1 DEF Chosen
<1>3. c \notin Dropped(component, path)
    BY <1>1, <1>2, DecidedOnce
<1>4. c \notin Placed("kept") /\ c \notin Placed("evicted") /\ c \in Lrs
    BY <1>1 DEF Placed, Lrs
<1>5. c \in InUse /\ c \in NotGone
    BY <1>2, <1>3, <1>4 DEF InUse, NotGone
<1>6. Fits(load, InUse \ {c})
    <2>1. IsWorkload(load)
        BY WorkloadsAssumption DEF SearchInv, Typed
    <2>2. InUse \in SUBSET DOMAIN load.lrs /\ Fits(load, InUse)
        BY DEF SearchInv, Usages, Feasible, Uses
    <2>3. PICK S, T, w : S = InUse \ {c} /\ T = InUse /\ w = load
        OBVIOUS
    <2>4. IsWorkload(w) /\ T \in SUBSET DOMAIN w.lrs /\ Fits(w, T) /\ S \in SUBSET T
        BY <2>1, <2>2, <2>3
    <2>5. Fits(w, S)
        BY <2>4, FewerFit
    <2> QED BY <2>3, <2>5
<1>7. InUse \ {c} = Placed("kept") \cup (Chosen(component, path) \ {c})
    BY <1>4 DEF InUse
<1> QED BY <1>2, <1>4, <1>5, <1>6, <1>7

\* Back from keeping a range, it is taken out of both usages.
LEMMA RetryEvictedKeeps ==
    ASSUME SearchInv, RetryEvicted PROVE SearchInv'
<1>1. PICK w, c, q : w = load /\ c = Top /\ q = path'
    OBVIOUS
<1>2. mode = "leave" /\ mode' = "enter" /\ Depth > 0 /\ path[Depth].kept
      /\ UNCHANGED <<load, place, component, waiting, best>>
    BY DEF RetryEvicted
<1>3. IsWorkload(w)
    BY <1>1, WorkloadsAssumption DEF SearchInv, Typed
<1>4. /\ Deciding(component, path) /\ Len(path) > 0 /\ c = component[Len(path)]
      /\ path \in Seq(Decision)
    BY <1>1, <1>2, TopIsDecided
<1>5. c \in InUse /\ c \in NotGone /\ InUse \ {c} = Placed("kept") \cup (Chosen(component, path) \ {c})
      /\ Fits(load, InUse \ {c})
    BY <1>1, <1>2, LessInUse
<1>6. /\ Deciding(component, q) /\ Chosen(component, q) = Chosen(component, path) \ {c}
      /\ Dropped(component, q) = Dropped(component, path) \cup {c}
    <2>1. q = [path EXCEPT ![Len(path)].kept = FALSE]
        BY <1>1 DEF RetryEvicted, Depth
    <2>2. IsReversed(path, [path EXCEPT ![Len(path)].kept = FALSE])
        BY <1>4, Reversing
    <2>3. IsReversed(path, q)
        BY <2>1, <2>2
    <2>4. path[Len(path)].kept
        BY <1>2 DEF Depth
    <2> QED BY <1>4, <2>3, <2>4, DecideAgainst
<1>7. /\ Placed("kept")' = Placed("kept") /\ Placed("evicted")' = Placed("evicted")
      /\ Placed("open")' = Placed("open") /\ Lrs' = Lrs
    BY <1>2 DEF Placed, Lrs
<1>8. InUse' = InUse \ {c} /\ NotGone' = NotGone \ {c}
    BY <1>1, <1>2, <1>5, <1>6, <1>7 DEF InUse, NotGone
<1>9. Typed'
    BY <1>2, <1>7 DEF SearchInv, Typed
<1>10. Lists'
    BY <1>1, <1>2, <1>6, <1>7 DEF SearchInv, Lists
<1>11. Uses(load', base', InUse')
    <2>1. Uses(w, base, InUse)
        BY <1>1, <1>2 DEF SearchInv, Usages
    <2>2. base' = [t \in DOMAIN w.fixed |->
                      IF t \in LifeIn(w, c) THEN base[t] + -w.lrs[c].size ELSE base[t]]
        BY <1>1, UsageFacts DEF RetryEvicted, Restored, Adjusted, Lr
    <2> QED BY <1>1, <1>2, <1>3, <1>5, <1>8, <2>1, <2>2, UsesOneLess
<1>12. Uses(load', peak', NotGone')
    <2>1. Uses(w, peak, NotGone)
        BY <1>1, <1>2 DEF SearchInv, Usages
    <2>2. peak' = [t \in DOMAIN w.fixed |->
                      IF t \in LifeIn(w, c) THEN peak[t] + -w.lrs[c].size ELSE peak[t]]
        BY <1>1, UsageFacts DEF RetryEvicted, Adjusted, Lr
    <2> QED BY <1>1, <1>2, <1>3, <1>5, <1>8, <2>1, <2>2, UsesOneLess
<1>13. Fits(load', InUse')
    BY <1>2, <1>5, <1>8
<1>14. BestFits'
    <2>1. BestFits
        BY <1>2 DEF SearchInv, Feasible
    <2> QED BY <1>2, <1>7, <2>1 DEF BestFits
<1> QED BY <1>2, <1>9, <1>10, <1>11, <1>12, <1>13, <1>14 DEF SearchInv, Usages, Feasible

\* Each return undoes the decision in the usage it was made in.
LEMMA LeaveKeeps ==
    ASSUME SearchInv, Leave PROVE SearchInv'
<1>1. PICK w, c, q : w = load /\ c = Top /\ q = path'
    OBVIOUS
<1>2. mode = "leave" /\ Depth > 0
      /\ UNCHANGED <<load, place, component, waiting, mode, best>>
    BY DEF Leave
<1>3. IsWorkload(w)
    BY <1>1, WorkloadsAssumption DEF SearchInv, Typed
<1>4. /\ Deciding(component, path) /\ Len(path) > 0 /\ c = component[Len(path)]
      /\ c \in DOMAIN w.lrs /\ place[c] = "open"
    BY <1>1, <1>2, TopIsDecided
<1>5. /\ Deciding(component, q)
      /\ IF path[Len(path)].kept THEN c \in Chosen(component, path) ELSE c \in Dropped(component, path)
      /\ Chosen(component, q) = IF path[Len(path)].kept THEN Chosen(component, path) \ {c}
                                ELSE Chosen(component, path)
      /\ Dropped(component, q) = IF path[Len(path)].kept THEN Dropped(component, path)
                                 ELSE Dropped(component, path) \ {c}
    <2>1. IsBack(path, q)
        BY <1>1 DEF IsBack, Leave, Depth
    <2> QED BY <1>4, <2>1, UndecideLast
<1>6. /\ Placed("kept")' = Placed("kept") /\ Placed("evicted")' = Placed("evicted")
      /\ Placed("open")' = Placed("open") /\ Lrs' = Lrs
    BY <1>2 DEF Placed, Lrs
<1>7. Typed'
    BY <1>2, <1>6 DEF SearchInv, Typed
<1>8. Lists'
    BY <1>1, <1>2, <1>5, <1>6 DEF SearchInv, Lists
<1>9. BestFits'
    <2>1. BestFits
        BY <1>2 DEF SearchInv, Feasible
    <2> QED BY <1>2, <1>6, <2>1 DEF BestFits
<1>10. Uses(w, base, InUse) /\ Uses(w, peak, NotGone) /\ Fits(w, InUse)
    BY <1>1, <1>2 DEF SearchInv, Usages, Feasible
<1>11. CASE path[Depth].kept
    <2>1. /\ c \in InUse /\ InUse \ {c} = Placed("kept") \cup (Chosen(component, path) \ {c})
          /\ Fits(load, InUse \ {c})
        BY <1>1, <1>2, <1>11, LessInUse
    <2>2. path[Len(path)].kept
        BY <1>11 DEF Depth
    <2>3. InUse' = InUse \ {c}
        BY <1>1, <1>2, <1>5, <1>6, <2>1, <2>2 DEF InUse
    <2>4. NotGone' = NotGone
        BY <1>1, <1>2, <1>5, <1>6, <2>2 DEF NotGone
    <2>5. base' = [t \in DOMAIN w.fixed |->
                      IF t \in LifeIn(w, c) THEN base[t] + -w.lrs[c].size ELSE base[t]]
        BY <1>1, <1>11, UsageFacts DEF Leave, Restored, Adjusted, Lr
    <2>6. Uses(load', base', InUse')
        BY <1>1, <1>2, <1>3, <1>10, <2>1, <2>3, <2>5, UsesOneLess
    <2>7. Uses(load', peak', NotGone')
        <3>1. peak' = peak
            BY <1>11 DEF Leave
        <3> QED BY <1>1, <1>2, <1>10, <2>4, <3>1
    <2>8. Fits(load', InUse')
        BY <1>2, <2>1, <2>3
    <2> QED BY <1>2, <1>7, <1>8, <1>9, <2>6, <2>7, <2>8 DEF SearchInv, Usages, Feasible
<1>12. CASE ~path[Depth].kept
    <2>1. ~path[Len(path)].kept
        BY <1>12 DEF Depth
    <2>2. c \in Dropped(component, path) /\ Dropped(component, q) = Dropped(component, path) \ {c}
          /\ Chosen(component, q) = Chosen(component, path)
        BY <1>5, <2>1
    <2>3. c \notin Placed("evicted") /\ c \in Lrs
        BY <1>1, <1>4 DEF Placed, Lrs
    <2>4. InUse' = InUse
        BY <1>1, <1>2, <1>6, <2>2 DEF InUse
    <2>5. c \notin NotGone /\ NotGone' = NotGone \cup {c}
        BY <1>1, <1>2, <1>6, <2>2, <2>3 DEF NotGone
    <2>6. peak' = [t \in DOMAIN w.fixed |->
                      IF t \in LifeIn(w, c) THEN peak[t] + w.lrs[c].size ELSE peak[t]]
        BY <1>1, <1>12, UsageFacts DEF Leave, Adjusted, Lr
    <2>7. Uses(load', peak', NotGone')
        BY <1>1, <1>2, <1>3, <1>4, <1>10, <2>5, <2>6, UsesOneMore
    <2>8. base' = base
        BY <1>12 DEF Leave
    <2>9. Uses(load', base', InUse') /\ Fits(load', InUse')
        BY <1>1, <1>2, <1>10, <2>4, <2>8
    <2> QED BY <1>2, <1>7, <1>8, <1>9, <2>7, <2>9 DEF SearchInv, Usages, Feasible
<1> QED BY <1>11, <1>12

\* Nothing is decided at the bottom of the recursion.
LEMMA NothingDecided ==
    ASSUME SearchInv, Depth = 0 \/ path = <<>>
    PROVE  /\ path = <<>> /\ Chosen(component, path) = {} /\ Dropped(component, path) = {}
           /\ InUse = Placed("kept") /\ NotGone = Lrs \ Placed("evicted")
<1>1. path \in Seq(Decision)
    BY DEF SearchInv, Lists, Deciding
<1>2. path = <<>>
    <2>1. PICK p : p = path
        OBVIOUS
    <2>2. p \in Seq(Decision) /\ (Len(p) = 0 \/ p = <<>>)
        BY <1>1, <2>1 DEF Depth
    <2>3. p = <<>>
        BY <2>2
    <2> QED BY <2>1, <2>3
<1>3. Chosen(component, path) = {} /\ Dropped(component, path) = {}
    BY <1>2, NothingListed
<1> QED BY <1>2, <1>3 DEF InUse, NotGone

\* What is remembered of a component becomes final.
LEMMA ApplyBestKeeps ==
    ASSUME SearchInv, ApplyBest PROVE SearchInv'
<1>1. PICK w, keep, gone : w = load /\ gone = best.evicted /\ keep = Members(component) \ gone
    OBVIOUS
<1>2. mode = "leave" /\ mode' = "divide" /\ Depth = 0 /\ component' = <<>>
      /\ UNCHANGED <<load, waiting, path, best>>
    BY DEF ApplyBest
<1>3. /\ base' = Increased(base, keep) /\ peak' = Remaining(peak, gone)
      /\ place' = [i \in Lrs |-> IF i \in gone THEN "evicted"
                                 ELSE IF i \in keep THEN "kept" ELSE place[i]]
    BY <1>1 DEF ApplyBest, Members
<1>4. IsWorkload(w)
    BY <1>1, WorkloadsAssumption DEF SearchInv, Typed
<1>5. path = <<>> /\ InUse = Placed("kept") /\ NotGone = Lrs \ Placed("evicted")
    BY <1>2, NothingDecided
<1>6. /\ gone \subseteq Members(component) /\ Fits(w, Placed("kept") \cup keep)
      /\ Members(component) \subseteq Placed("open")
    BY <1>1, <1>2 DEF SearchInv, Feasible, BestFits, Lists
<1>7. keep \cap gone = {} /\ keep \subseteq Placed("open") /\ gone \subseteq Placed("open")
    BY <1>1, <1>6
<1>8. \A i \in Lrs : place[i] \in {"open", "kept", "evicted"}
    BY DEF SearchInv, Typed
<1>9. Lrs' = Lrs /\ place' \in [Lrs -> {"open", "kept", "evicted"}]
    BY <1>2, <1>3, <1>8 DEF Lrs
<1>10. /\ Placed("kept")' = Placed("kept") \cup keep
       /\ Placed("evicted")' = Placed("evicted") \cup gone
       /\ \A i \in Placed("open") : i \notin Members(component) => i \in Placed("open")'
    <2>1. \A i \in Lrs : place'[i] = IF i \in gone THEN "evicted"
                                     ELSE IF i \in keep THEN "kept" ELSE place[i]
        BY <1>3
    <2>2. \A i \in Lrs : (i \in gone \/ i \in keep) => place[i] = "open"
        BY <1>7 DEF Placed
    <2>3. Placed("kept")' = Placed("kept") \cup keep
        BY <1>7, <1>9, <2>1, <2>2 DEF Placed
    <2>4. Placed("evicted")' = Placed("evicted") \cup gone
        BY <1>7, <1>9, <2>1, <2>2 DEF Placed
    <2>5. \A i \in Placed("open") : i \notin Members(component) => i \in Placed("open")'
        BY <1>1, <1>6, <1>9, <2>1 DEF Placed
    <2> QED BY <2>3, <2>4, <2>5
<1>11. InUse' = InUse \cup keep /\ NotGone' = NotGone \ gone
    <2>1. Chosen(component', path') = {} /\ Dropped(component', path') = {}
        BY <1>2, <1>5, NothingListed
    <2> QED BY <1>5, <1>9, <1>10, <2>1 DEF InUse, NotGone
<1>12. Typed'
    BY <1>2, <1>9 DEF SearchInv, Typed
<1>13. Lists'
    <2>1. Deciding(component', path') /\ Members(component') = {}
        BY <1>2, <1>5, NothingListed
    <2>2. /\ waiting' \in Seq(Lrs') /\ Members(waiting') = Members(waiting)
          /\ \A j, k \in DOMAIN waiting' : waiting'[j] = waiting'[k] => j = k
        BY <1>2, <1>9 DEF SearchInv, Lists
    <2>3. Members(waiting) \subseteq Placed("open")'
        BY <1>10 DEF SearchInv, Lists
    <2> QED BY <1>2, <1>5, <2>1, <2>2, <2>3 DEF Lists
<1>14. Uses(load', base', InUse')
    <2>1. Uses(w, base, InUse)
        BY <1>1, <1>2 DEF SearchInv, Usages
    <2>2. base' = [t \in DOMAIN w.fixed |-> base[t] + SizeIn(w, keep, t)]
        BY <1>1, <1>3, UsageFacts
    <2>3. keep \in SUBSET DOMAIN w.lrs /\ keep \cap InUse = {}
        BY <1>1, <1>5, <1>7 DEF Placed, Lrs
    <2>4. Uses(w, [t \in DOMAIN w.fixed |-> base[t] + SizeIn(w, keep, t)], InUse \cup keep)
        BY <1>4, <2>1, <2>3, UsesMore
    <2> QED BY <1>1, <1>2, <1>11, <2>2, <2>4
<1>15. Uses(load', peak', NotGone')
    <2>1. Uses(w, peak, NotGone)
        BY <1>1, <1>2 DEF SearchInv, Usages
    <2>2. peak' = [t \in DOMAIN w.fixed |-> peak[t] - SizeIn(w, gone, t)]
        BY <1>1, <1>3, UsageFacts
    <2>3. gone \in SUBSET NotGone
        BY <1>5, <1>7 DEF Placed, Lrs
    <2>4. Uses(w, [t \in DOMAIN w.fixed |-> peak[t] - SizeIn(w, gone, t)], NotGone \ gone)
        BY <1>4, <2>1, <2>3, UsesLess
    <2> QED BY <1>1, <1>2, <1>11, <2>2, <2>4
<1>16. Fits(load', InUse')
    BY <1>1, <1>2, <1>5, <1>6, <1>11
<1> QED BY <1>2, <1>12, <1>13, <1>14, <1>15, <1>16 DEF SearchInv, Usages, Feasible

EachOnce(s) == \A j, k \in DOMAIN s : s[j] = s[k] => j = k

IsSplit(s, n, a, b) == a = SubSeq(s, 1, n) /\ b = SubSeq(s, n + 1, Len(s))

\* A component takes the first of the waiting ranges.
LEMMA SplitList ==
    ASSUME NEW R, NEW s \in Seq(R), NEW n \in 0..Len(s), EachOnce(s),
           NEW a, NEW b, IsSplit(s, n, a, b)
    PROVE  /\ DOMAIN a = 1..Len(a) /\ Len(a) \in Nat
           /\ EachOnce(a) /\ b \in Seq(R) /\ EachOnce(b)
           /\ Members(a) \subseteq Members(s) /\ Members(b) \subseteq Members(s)
           /\ Members(a) \cap Members(b) = {}
<1>1. PICK m \in Nat : m = Len(s)
    OBVIOUS
<1>2. DOMAIN s = 1..m /\ \A k \in 1..m : s[k] \in R
    BY <1>1
<1>3. n \in Nat /\ n <= m
    BY <1>1
<1>4. Len(a) = n /\ DOMAIN a = 1..n /\ \A k \in 1..n : a[k] = s[k]
    BY <1>1, <1>2, <1>3 DEF IsSplit
<1>5. PICK l \in Nat : l = m - n
    BY <1>3
<1>6. b \in Seq(R) /\ Len(b) = l /\ \A k \in 1..l : b[k] = s[n + k]
    <2>1. b = SubSeq(s, n + 1, m)
        BY <1>1 DEF IsSplit
    <2>2. \A k \in (n + 1)..m : s[k] \in R
        BY <1>2, <1>3
    <2>3. b \in Seq(R)
        BY <1>1, <1>3, <2>1, <2>2
    <2>4. Len(b) = IF n + 1 <= m THEN m - (n + 1) + 1 ELSE 0
        BY <1>1, <1>3, <2>1
    <2>5. Len(b) = l
        BY <1>3, <1>5, <2>4
    <2>6. \A k \in 1..l : b[k] = s[(n + 1) + k - 1]
        BY <1>1, <1>3, <1>5, <2>1
    <2>7. \A k \in 1..l : (n + 1) + k - 1 = n + k
        BY <1>3
    <2> QED BY <2>3, <2>5, <2>6, <2>7
<1>7. \A k \in 1..n : k \in 1..m
    BY <1>3
<1>8. \A k \in 1..l : n + k \in 1..m /\ n + k \notin 1..n
    BY <1>3, <1>5
<1>9. DOMAIN b = 1..l
    BY <1>6
<1>10. \A j, k \in 1..l : n + j = n + k => j = k
    BY <1>3
<1>16. \A j, k \in 1..m : s[j] = s[k] => j = k
    BY <1>2 DEF EachOnce
<1>11. \A j, k \in 1..n : a[j] = a[k] => j = k
    BY <1>4, <1>7, <1>16
<1>12. ASSUME NEW j \in 1..l, NEW k \in 1..l, b[j] = b[k] PROVE j = k
    <2>1. n + j \in 1..m /\ n + k \in 1..m /\ s[n + j] = s[n + k]
        BY <1>6, <1>8, <1>12
    <2>2. n + j = n + k
        BY <1>16, <2>1
    <2> QED BY <1>10, <2>2
<1>13. Members(a) \subseteq Members(s)
    BY <1>2, <1>4, <1>7 DEF Members
<1>14. Members(b) \subseteq Members(s)
    BY <1>2, <1>6, <1>8, <1>9 DEF Members
<1>15. Members(a) \cap Members(b) = {}
    <2> SUFFICES ASSUME NEW j \in 1..n, NEW k \in 1..l PROVE a[j] # b[k]
        BY <1>4, <1>9 DEF Members
    <2>1. j \in 1..m /\ n + k \in 1..m /\ j # n + k
        BY <1>7, <1>8
    <2>2. s[j] # s[n + k]
        BY <1>16, <2>1
    <2> QED BY <1>4, <1>6, <2>2
<1>17. EachOnce(a) /\ EachOnce(b)
    BY <1>4, <1>9, <1>11, <1>12 DEF EachOnce
<1> QED BY <1>3, <1>4, <1>6, <1>13, <1>14, <1>15, <1>17

\* The first of the waiting ranges form a component; nothing is decided in it.
LEMMA NextComponentKeeps ==
    ASSUME SearchInv, NextComponent PROVE SearchInv'
<1>1. mode = "divide" /\ waiting # <<>> /\ mode' = "enter"
      /\ UNCHANGED <<load, base, peak, place, path>>
      /\ component' = SubSeq(waiting, 1, ComponentSize)
      /\ waiting' = SubSeq(waiting, ComponentSize + 1, Len(waiting))
      /\ best'.score = 0
    BY DEF NextComponent, WaitingAfter
<1>2. waiting \in Seq(Lrs) /\ path = <<>>
    BY <1>1 DEF SearchInv, Lists
<1>3. ComponentSize \in 0..Len(waiting)
    <2> DEFINE N == {n \in 1..Len(waiting) : Connected(n)}
    <2>1. Len(waiting) \in Nat /\ 1 \in 1..Len(waiting)
        BY <1>1, <1>2
    <2>2. Connected(1)
        BY FastStorageAssumption DEF Connected
    <2>3. IsFiniteSet(N)
        <3>1. IsFiniteSet(1..Len(waiting))
            BY <2>1, FS_Interval
        <3> QED BY <3>1, FS_Subset
    <2>4. N # {} /\ N \in SUBSET Nat
        BY <2>1, <2>2
    <2>5. Max(N) \in N
        <3> HIDE DEF N
        <3> QED BY <2>3, <2>4, GreatestNatural
    <2>6. ComponentSize = Max(N)
        BY DEF ComponentSize
    <2> QED BY <2>1, <2>5, <2>6
<1>4. /\ DOMAIN component' = 1..Len(component') /\ Len(component') \in Nat
      /\ \A j, k \in 1..Len(component') : component'[j] = component'[k] => j = k
      /\ waiting' \in Seq(Lrs) /\ \A j, k \in DOMAIN waiting' : waiting'[j] = waiting'[k] => j = k
      /\ Members(component') \subseteq Members(waiting) /\ Members(waiting') \subseteq Members(waiting)
      /\ Members(component') \cap Members(waiting') = {}
    <2>1. PICK s, n, a, b : s = waiting /\ n = ComponentSize /\ a = component' /\ b = waiting'
        OBVIOUS
    <2>2. s \in Seq(Lrs) /\ n \in 0..Len(s) /\ IsSplit(s, n, a, b) /\ EachOnce(s)
        BY <1>1, <1>2, <1>3, <2>1 DEF SearchInv, Lists, IsSplit, EachOnce
    <2>3. /\ DOMAIN a = 1..Len(a) /\ Len(a) \in Nat /\ EachOnce(a)
          /\ b \in Seq(Lrs) /\ EachOnce(b)
          /\ Members(a) \subseteq Members(s) /\ Members(b) \subseteq Members(s)
          /\ Members(a) \cap Members(b) = {}
        BY <2>2, SplitList
    <2> QED BY <2>1, <2>3 DEF EachOnce
<1>5. /\ Placed("kept")' = Placed("kept") /\ Placed("evicted")' = Placed("evicted")
      /\ Placed("open")' = Placed("open") /\ Lrs' = Lrs
    BY <1>1 DEF Placed, Lrs
<1>6. Chosen(component', path') = Chosen(component, path) /\ Dropped(component', path') = Dropped(component, path)
    BY <1>1, <1>2, NothingListed
<1>7. InUse' = InUse /\ NotGone' = NotGone
    BY <1>5, <1>6 DEF InUse, NotGone
<1>8. Typed'
    BY <1>1, <1>5 DEF SearchInv, Typed
<1>9. Deciding(component', path')
    <2>1. path' = <<>>
        BY <1>1, <1>2
    <2>2. path' \in Seq(Decision) /\ Len(path') = 0
        BY <2>1
    <2> QED BY <1>4, <2>2 DEF Deciding
<1>10. Lists'
    <2>1. Members(waiting) \subseteq Placed("open")
        BY DEF SearchInv, Lists
    <2>2. Members(component') \subseteq Placed("open")' /\ Members(waiting') \subseteq Placed("open")'
        BY <1>4, <1>5, <2>1
    <2>3. waiting' \in Seq(Lrs) /\ Members(component') \cap Members(waiting') = {}
        BY <1>4
    <2>4. \A j, k \in DOMAIN waiting' : waiting'[j] = waiting'[k] => j = k
        BY <1>4
    <2>5. mode' = "enter"
        BY <1>1
    <2>6. Lrs' = Lrs
        BY <1>5
    <2> QED BY <1>9, <2>2, <2>3, <2>4, <2>5, <2>6 DEF Lists
<1>11. Usages'
    BY <1>1, <1>7 DEF SearchInv, Usages
<1>12. Feasible'
    BY <1>1, <1>7 DEF SearchInv, Feasible
<1> QED BY <1>8, <1>10, <1>11, <1>12 DEF SearchInv

LEMMA AllDividedKeeps ==
    ASSUME SearchInv, AllDivided PROVE SearchInv'
<1>1. mode = "divide" /\ mode' = "done"
      /\ UNCHANGED <<load, base, peak, place, component, waiting, path, best>>
    BY DEF AllDivided
<1>2. /\ Placed("kept")' = Placed("kept") /\ Placed("evicted")' = Placed("evicted")
      /\ Placed("open")' = Placed("open") /\ Lrs' = Lrs
    BY <1>1 DEF Placed, Lrs
<1>3. InUse' = InUse /\ NotGone' = NotGone
    BY <1>1, <1>2 DEF InUse, NotGone
<1>4. Typed'
    BY <1>1, <1>2 DEF SearchInv, Typed
<1>5. Lists'
    BY <1>1, <1>2 DEF SearchInv, Lists
<1> QED BY <1>1, <1>3, <1>4, <1>5 DEF SearchInv, Usages, Feasible

\* Before the search nothing is listed, kept or decided.
LEMMA BeforeSearch ==
    ASSUME SearchInv, mode \in {"switches", "sweep"}
    PROVE  /\ component = <<>> /\ waiting = <<>> /\ path = <<>> /\ Placed("kept") = {}
           /\ InUse = {} /\ NotGone = Lrs \ Placed("evicted") /\ Deciding(component, path)
           /\ Members(component) = {} /\ Members(waiting) = {}
<1>1. component = <<>> /\ waiting = <<>> /\ path = <<>> /\ Placed("kept") = {}
    BY DEF SearchInv, Lists
<1>2. InUse = Placed("kept") /\ NotGone = Lrs \ Placed("evicted")
    BY <1>1, NothingDecided
<1> QED BY <1>1, <1>2, NothingListed

\* Ranges fit whenever usage by these and others is within the limit all the
\* time they live.
LEMMA WithinLimitFits ==
    ASSUME NEW w, IsWorkload(w), NEW u, NEW T, Uses(w, u, T), NEW S \in SUBSET T,
           \A i \in S : \A t \in LifeIn(w, i) : u[t] <= w.limit
    PROVE  Fits(w, S)
<1> SUFFICES ASSUME NEW i \in S, NEW t \in LifeIn(w, i)
             PROVE  w.fixed[t] + SizeIn(w, S, t) <= w.limit
    BY DEF Fits, FitIn
<1>1. T \in SUBSET DOMAIN w.lrs /\ S \in SUBSET DOMAIN w.lrs
    BY DEF Uses
<1>2. t \in DOMAIN w.fixed /\ w.fixed[t] \in Nat /\ w.limit \in Int
    BY <1>1, WorkloadFacts DEF IsWorkload
<1>3. u[t] = w.fixed[t] + SizeIn(w, T, t) /\ u[t] <= w.limit
    BY <1>2 DEF Uses
<1>4. SizeIn(w, S, t) <= SizeIn(w, T, t)
    BY <1>1, SizesGrow
<1>5. SizeIn(w, S, t) \in Nat /\ SizeIn(w, T, t) \in Nat
    BY <1>1, SizesAdd
<1> QED BY <1>2, <1>3, <1>4, <1>5

\* Ranges across a switch go; the rest stays where everything fitted.
LEMMA EvictAcrossSwitchesKeeps ==
    ASSUME SearchInv, EvictAcrossSwitches PROVE SearchInv'
<1>1. PICK w, crossing, fits : /\ w = load /\ crossing = {i \in Lrs : CrossesSwitch(i)}
                               /\ fits = \A t \in Times : peak[t] <= load.limit
    OBVIOUS
<1>2. /\ mode = "switches" /\ UNCHANGED <<load, base, component, waiting, path, best>>
      /\ peak' = Remaining(peak, crossing)
      /\ place' = [i \in Lrs |-> IF i \in crossing THEN "evicted" ELSE IF fits THEN "kept" ELSE "open"]
      /\ mode' = IF fits THEN "done" ELSE "sweep"
    BY <1>1 DEF EvictAcrossSwitches
<1>3. IsWorkload(w) /\ crossing \in SUBSET Lrs
    BY <1>1, WorkloadsAssumption DEF SearchInv, Typed
<1>4. /\ component = <<>> /\ waiting = <<>> /\ path = <<>> /\ Placed("kept") = {}
      /\ InUse = {} /\ NotGone = Lrs /\ Placed("evicted") = {}
    <2>1. Placed("evicted") = {}
        BY <1>2 DEF SearchInv, Lists
    <2> QED BY <1>2, <2>1, BeforeSearch
<1>5. Lrs' = Lrs /\ place' \in [Lrs -> {"open", "kept", "evicted"}]
    BY <1>2 DEF Lrs
<1>6. Placed("evicted")' = crossing
    BY <1>2, <1>3, <1>5 DEF Placed
<1>7. Placed("kept")' = IF fits THEN Lrs \ crossing ELSE {}
    BY <1>2, <1>3, <1>5 DEF Placed
<1>8. Chosen(component', path') = {} /\ Dropped(component', path') = {}
    BY <1>2, <1>4, NothingListed
<1>9. InUse' = Placed("kept")' /\ NotGone' = NotGone \ crossing
    BY <1>4, <1>5, <1>6, <1>8 DEF InUse, NotGone
<1>10. Typed'
    BY <1>2, <1>5 DEF SearchInv, Typed
<1>11. Lists'
    <2>1. Deciding(component', path') /\ Members(component') = {} /\ Members(waiting') = {}
        BY <1>2, <1>4, NothingListed
    <2>2. mode' \in {"switches", "sweep"} => Placed("kept")' = {}
        BY <1>2, <1>7
    <2>3. waiting' \in Seq(Lrs') /\ DOMAIN waiting' = {}
        BY <1>2, <1>4
    <2> QED BY <1>2, <1>4, <2>1, <2>2, <2>3 DEF Lists
<1>12. Uses(w, peak, NotGone) /\ Uses(w, base, {})
    BY <1>1, <1>2, <1>4 DEF SearchInv, Usages
<1>13. Uses(load', peak', NotGone')
    <2>1. peak' = [t \in DOMAIN w.fixed |-> peak[t] - SizeIn(w, crossing, t)]
        BY <1>1, <1>2, UsageFacts
    <2>2. crossing \in SUBSET NotGone
        BY <1>3, <1>4
    <2>3. Uses(w, [t \in DOMAIN w.fixed |-> peak[t] - SizeIn(w, crossing, t)], NotGone \ crossing)
        BY <1>3, <1>12, <2>2, UsesLess
    <2> QED BY <1>1, <1>2, <1>9, <2>1, <2>3
<1>14. mode' \notin {"done", "end"} => Uses(load', base', InUse')
    BY <1>1, <1>2, <1>7, <1>9, <1>12
<1>15. Fits(load', InUse')
    <2>1. CASE fits
        <3>1. InUse' \in SUBSET NotGone
            BY <1>4, <1>7, <1>9, <2>1
        <3>2. \A i \in InUse' : \A t \in LifeIn(w, i) : peak[t] <= w.limit
            <4> SUFFICES ASSUME NEW i \in InUse', NEW t \in LifeIn(w, i) PROVE peak[t] <= w.limit
                OBVIOUS
            <4>1. i \in DOMAIN w.lrs
                BY <1>1, <1>4, <3>1 DEF Lrs
            <4>2. t \in Times
                BY <1>1, <1>3, <4>1, WorkloadFacts DEF Times
            <4> QED BY <1>1, <2>1, <4>2
        <3>3. Fits(w, InUse')
            <4>1. PICK S : S = InUse'
                OBVIOUS
            <4>2. Fits(w, S)
                BY <1>3, <1>12, <3>1, <3>2, <4>1, WithinLimitFits
            <4> QED BY <4>1, <4>2
        <3> QED BY <1>1, <1>2, <3>3
    <2>2. CASE ~fits
        <3>1. InUse' = {}
            BY <1>7, <1>9, <2>2
        <3> QED BY <3>1 DEF Fits, FitIn
    <2> QED BY <2>1, <2>2
<1>16. Feasible'
    BY <1>2, <1>15 DEF Feasible
<1> QED BY <1>10, <1>11, <1>13, <1>14, <1>16 DEF SearchInv, Usages

\* What cannot fit goes, what always fits stays, and the rest is listed.
LEMMA SweepKeeps ==
    ASSUME SearchInv, Sweep PROVE SearchInv'
<1>1. PICK w, tooBig, lower, sure, competing :
         /\ w = load /\ tooBig = {i \in Placed("open") : CannotFit(i)}
         /\ lower = Remaining(peak, tooBig)
         /\ sure = {i \in Placed("open") \ tooBig : AlwaysFits(lower, i)}
         /\ competing = Placed("open") \ (tooBig \cup sure)
    OBVIOUS
<1>2. /\ mode = "sweep" /\ mode' = "divide" /\ UNCHANGED <<load, component, path, best>>
      /\ peak' = lower /\ base' = Increased(base, sure)
      /\ place' = [i \in Lrs |-> IF i \in tooBig THEN "evicted" ELSE IF i \in sure THEN "kept" ELSE place[i]]
      /\ waiting' = InOrder(competing)
    BY <1>1 DEF Sweep
<1>3. IsWorkload(w) /\ Lrs = DOMAIN w.lrs
    BY <1>1, WorkloadsAssumption DEF SearchInv, Typed, Lrs
<1>4. /\ component = <<>> /\ path = <<>> /\ Placed("kept") = {}
      /\ InUse = {} /\ NotGone = Lrs \ Placed("evicted")
    BY <1>2, BeforeSearch
<1>5. /\ tooBig \in SUBSET Placed("open") /\ sure \in SUBSET Placed("open")
      /\ competing \in SUBSET Placed("open") /\ Placed("open") \in SUBSET Lrs
      /\ tooBig \cap sure = {} /\ competing \cap tooBig = {} /\ competing \cap sure = {}
    BY <1>1 DEF Placed
<1>6. \A i \in Lrs : place[i] \in {"open", "kept", "evicted"}
    BY DEF SearchInv, Typed
<1>7. Lrs' = Lrs /\ place' \in [Lrs -> {"open", "kept", "evicted"}]
    BY <1>2, <1>6 DEF Lrs
<1>8. \A i \in Lrs : place'[i] = IF i \in tooBig THEN "evicted" ELSE IF i \in sure THEN "kept" ELSE place[i]
    BY <1>2
<1>9. \A i \in Lrs : (i \in tooBig \/ i \in sure \/ i \in competing) => place[i] = "open"
    BY <1>5 DEF Placed
<1>10. Placed("evicted")' = Placed("evicted") \cup tooBig
    BY <1>5, <1>7, <1>8, <1>9 DEF Placed
<1>11. Placed("kept")' = sure
    <2>1. \A i \in Lrs : place[i] # "kept"
        BY <1>4 DEF Placed
    <2> QED BY <1>5, <1>7, <1>8, <2>1 DEF Placed
<1>12. competing \subseteq Placed("open")'
    BY <1>5, <1>7, <1>8, <1>9 DEF Placed
<1>13. Chosen(component', path') = {} /\ Dropped(component', path') = {}
    BY <1>2, <1>4, NothingListed
<1>14. InUse' = sure /\ NotGone' = NotGone \ tooBig
    BY <1>4, <1>7, <1>10, <1>11, <1>13 DEF InUse, NotGone
<1>15. Typed'
    BY <1>2, <1>7 DEF SearchInv, Typed
<1>16. Lists'
    <2>1. Deciding(component', path') /\ Members(component') = {}
        BY <1>2, <1>4, NothingListed
    <2>2. competing \in SUBSET Nat /\ IsFiniteSet(competing)
        <3>1. IsFiniteSet(DOMAIN w.lrs) /\ DOMAIN w.lrs \in SUBSET Nat
            BY <1>3, WorkloadFacts
        <3>2. competing \in SUBSET DOMAIN w.lrs
            BY <1>3, <1>5
        <3> QED BY <3>1, <3>2, FS_Subset
    <2>3. /\ waiting' \in Seq(competing) /\ Members(waiting') \subseteq competing
          /\ \A j, k \in DOMAIN waiting' : waiting'[j] = waiting'[k] => j = k
        BY <1>2, <2>2, OrderLists
    <2>4. waiting' \in Seq(Lrs')
        <3>1. PICK s, R : s = waiting' /\ R = Lrs
            OBVIOUS
        <3>2. s \in Seq(competing) /\ competing \subseteq R
            BY <1>5, <2>3, <3>1
        <3>3. s \in Seq(R)
            BY <3>2
        <3> QED BY <1>7, <3>1, <3>3
    <2> QED BY <1>2, <1>4, <1>12, <2>1, <2>3, <2>4 DEF Lists
<1>17. Uses(w, peak, NotGone) /\ Uses(w, base, {})
    BY <1>1, <1>2, <1>4 DEF SearchInv, Usages
<1>18. Uses(w, lower, NotGone \ tooBig)
    <2>1. lower = [t \in DOMAIN w.fixed |-> peak[t] - SizeIn(w, tooBig, t)]
        BY <1>1, UsageFacts
    <2>2. tooBig \in SUBSET NotGone
        BY <1>4, <1>5 DEF Placed
    <2> QED BY <1>3, <1>17, <2>1, <2>2, UsesLess
<1>19. Uses(w, base', sure)
    <2>1. base' = [t \in DOMAIN w.fixed |-> base[t] + SizeIn(w, sure, t)]
        BY <1>1, <1>2, UsageFacts
    <2>2. sure \in SUBSET DOMAIN w.lrs /\ sure \cap {} = {} /\ {} \cup sure = sure
        BY <1>3, <1>5
    <2>3. Uses(w, [t \in DOMAIN w.fixed |-> base[t] + SizeIn(w, sure, t)], {} \cup sure)
        BY <1>3, <1>17, <2>2, UsesMore
    <2> QED BY <2>1, <2>2, <2>3
<1>20. Usages'
    BY <1>1, <1>2, <1>14, <1>18, <1>19 DEF Usages
<1>21. Fits(w, sure)
    <2>1. sure \in SUBSET (NotGone \ tooBig)
        BY <1>4, <1>5 DEF Placed
    <2>2. ASSUME NEW i \in sure, NEW t \in LifeIn(w, i) PROVE lower[t] <= w.limit
        <3>1. i \in DOMAIN w.lrs
            BY <1>3, <1>5
        <3>2. PICK m : m = Max({lower[s] : s \in LifeIn(w, i)})
            OBVIOUS
        <3>3. m <= w.limit
            BY <1>1, <3>2, UsageFacts DEF AlwaysFits, MaxOver
        <3>4. lower[t] <= m /\ \E s \in LifeIn(w, i) : m = lower[s]
            BY <1>3, <1>18, <3>1, <3>2, HighestUsage
        <3>5. LifeIn(w, i) \subseteq DOMAIN w.fixed
            BY <1>3, <3>1, WorkloadFacts
        <3>6. m \in Int /\ lower[t] \in Int /\ w.limit \in Int
            BY <1>3, <1>18, <3>4, <3>5 DEF Uses, IsWorkload
        <3> QED BY <3>3, <3>4, <3>6
    <2> QED BY <1>3, <1>18, <2>1, <2>2, WithinLimitFits
<1>22. Feasible'
    BY <1>1, <1>2, <1>14, <1>21 DEF Feasible
<1> QED BY <1>15, <1>16, <1>20, <1>22 DEF SearchInv

\* The pass over elementwise operations only takes ranges out of fast storage.
LEMMA VisitKeeps ==
    ASSUME SearchInv, Visit PROVE SearchInv'
<1>1. PICK w, gone : w = load /\ gone = IF IsVisited(pos) /\ HasSlowInput(pos) THEN Evicted(pos) ELSE {}
    OBVIOUS
<1>2. /\ mode = "done" /\ mode' \in {"done", "end"}
      /\ UNCHANGED <<load, base, component, waiting, path, best>>
      /\ peak' = Remaining(peak, gone)
      /\ place' = [i \in Lrs |-> IF i \in gone THEN "evicted" ELSE place[i]]
    <2>1. mode = "done" /\ mode' = IF pos = Len(ops) THEN "end" ELSE mode
        BY DEF Visit
    <2> QED BY <1>1, <2>1 DEF Visit
<1>3. IsWorkload(w) /\ Lrs = DOMAIN w.lrs
    BY <1>1, WorkloadsAssumption DEF SearchInv, Typed, Lrs
<1>4. gone \in SUBSET Placed("kept")
    BY <1>1 DEF Evicted
<1>5. \A i \in Lrs : place[i] \in {"open", "kept", "evicted"}
    BY DEF SearchInv, Typed
<1>6. Lrs' = Lrs /\ place' \in [Lrs -> {"open", "kept", "evicted"}]
    BY <1>2, <1>5 DEF Lrs
<1>7. \A i \in Lrs : place'[i] = IF i \in gone THEN "evicted" ELSE place[i]
    BY <1>2
<1>8. \A i \in gone : i \in Lrs /\ place[i] = "kept"
    BY <1>4 DEF Placed
<1>9. Placed("kept")' = Placed("kept") \ gone
    BY <1>6, <1>7, <1>8 DEF Placed
<1>10. Placed("evicted")' = Placed("evicted") \cup gone
    BY <1>6, <1>7, <1>8 DEF Placed
<1>11. Placed("open")' = Placed("open")
    BY <1>6, <1>7, <1>8 DEF Placed
<1>12. path = <<>> /\ InUse = Placed("kept") /\ NotGone = Lrs \ Placed("evicted")
    <2>1. path = <<>>
        BY <1>2 DEF SearchInv, Lists
    <2> QED BY <2>1, NothingDecided
<1>13. Chosen(component', path') = {} /\ Dropped(component', path') = {}
    BY <1>2, <1>12, NothingListed
<1>14. InUse' = InUse \ gone /\ NotGone' = NotGone \ gone
    BY <1>6, <1>9, <1>10, <1>12, <1>13 DEF InUse, NotGone
<1>15. Typed'
    BY <1>2, <1>6 DEF SearchInv, Typed
<1>16. Lists'
    BY <1>2, <1>6, <1>11, <1>12 DEF SearchInv, Lists
<1>17. Uses(w, peak', NotGone \ gone)
    <2>1. Uses(w, peak, NotGone)
        BY <1>1 DEF SearchInv, Usages
    <2>2. peak' = [t \in DOMAIN w.fixed |-> peak[t] - SizeIn(w, gone, t)]
        BY <1>1, <1>2, UsageFacts
    <2>3. gone \in SUBSET NotGone
        BY <1>8, <1>12 DEF Placed
    <2> QED BY <1>3, <2>1, <2>2, <2>3, UsesLess
<1>18. Fits(w, InUse \ gone)
    <2>1. Fits(w, InUse)
        BY <1>1 DEF SearchInv, Feasible
    <2>2. InUse \in SUBSET DOMAIN w.lrs
        BY <1>3, <1>12 DEF Placed
    <2>3. PICK S, T : S = InUse \ gone /\ T = InUse
        OBVIOUS
    <2>4. Fits(w, T) /\ T \in SUBSET DOMAIN w.lrs /\ S \in SUBSET T
        BY <2>1, <2>2, <2>3
    <2>5. Fits(w, S)
        BY <1>3, <2>4, FewerFit
    <2> QED BY <2>3, <2>5
<1>19. Usages' /\ Feasible'
    BY <1>1, <1>2, <1>14, <1>17, <1>18 DEF Usages, Feasible
<1> QED BY <1>15, <1>16, <1>19 DEF SearchInv

LEMMA StutteringKeeps ==
    ASSUME SearchInv, UNCHANGED vars PROVE SearchInv'
<1>1. /\ Placed("kept")' = Placed("kept") /\ Placed("evicted")' = Placed("evicted")
      /\ Placed("open")' = Placed("open") /\ Lrs' = Lrs
    BY DEF Placed, Lrs, vars
<1>2. InUse' = InUse /\ NotGone' = NotGone
    BY <1>1 DEF InUse, NotGone, vars
<1>3. Typed'
    BY <1>1 DEF SearchInv, Typed, vars
<1>4. Lists'
    BY <1>1 DEF SearchInv, Lists, vars
<1>5. Usages'
    BY <1>2 DEF SearchInv, Usages, vars
<1>6. BestFits' <=> BestFits
    BY <1>1 DEF BestFits, vars
<1>7. Feasible'
    BY <1>2, <1>6 DEF SearchInv, Feasible, vars
<1> QED BY <1>3, <1>4, <1>5, <1>7 DEF SearchInv

LEMMA SearchContinues ==
    ASSUME SearchInv, Next PROVE SearchInv'
<1>1. CASE EvictAcrossSwitches
    BY <1>1, EvictAcrossSwitchesKeeps
<1>2. CASE Sweep
    BY <1>2, SweepKeeps
<1>3. CASE NextComponent
    BY <1>3, NextComponentKeeps
<1>4. CASE AllDivided
    BY <1>4, AllDividedKeeps
<1>5. CASE EnterKeep
    BY <1>5, EnterKeepKeeps
<1>6. CASE EnterEvict
    BY <1>6, EnterEvictKeeps
<1>7. CASE Remember
    BY <1>7, RememberKeeps
<1>8. CASE RetryEvicted
    BY <1>8, RetryEvictedKeeps
<1>9. CASE Leave
    BY <1>9, LeaveKeeps
<1>10. CASE ApplyBest
    BY <1>10, ApplyBestKeeps
<1> QED BY <1>1, <1>2, <1>3, <1>4, <1>5, <1>6, <1>7, <1>8, <1>9, <1>10 DEF Next

LEMMA SanitizerContinues ==
    ASSUME SearchInv, [SanitizerNext]_<<vars, sanitizerVars>> PROVE SearchInv'
<1>1. CASE Next
    BY <1>1, SearchContinues
<1>2. CASE StartSanitizer
    BY <1>2, StutteringKeeps DEF StartSanitizer
<1>3. CASE Visit
    BY <1>3, VisitKeeps
<1>4. CASE UNCHANGED <<vars, sanitizerVars>>
    BY <1>4, StutteringKeeps
<1> QED BY <1>1, <1>2, <1>3, <1>4 DEF SanitizerNext

-----------------------------------------------------------------------------
(* What the search guarantees.                                             *)

\* The usages are numbers at every time, also once the search is over and
\* _baseMemUsage is not followed any more.
BaseTyped == base \in [DOMAIN load.fixed -> Int]

LEMMA UsagesStayTyped ==
    ASSUME SearchInv, SearchInv', BaseTyped, [SanitizerNext]_<<vars, sanitizerVars>> PROVE BaseTyped'
<1>1. CASE mode' \notin {"done", "end"}
    BY <1>1 DEF SearchInv, Usages, Uses, BaseTyped
<1>2. CASE mode' \in {"done", "end"}
    <2>1. load' = load /\ base' = base
        BY <1>2 DEF SanitizerNext, Next, EvictAcrossSwitches, Sweep, NextComponent, AllDivided, EnterKeep,
                    EnterEvict, Remember, RetryEvicted, Leave, ApplyBest, StartSanitizer, Visit, vars
    <2> QED BY <2>1 DEF BaseTyped
<1> QED BY <1>1, <1>2

LEMMA SearchInvImplies ==
    ASSUME SearchInv, BaseTyped PROVE TypeOK /\ UsageIsExact /\ KeptFits
<1>1. IsWorkload(load)
    BY WorkloadsAssumption DEF SearchInv, Typed
<1>2. TypeOK
    <2>1. base \in [Times -> Int] /\ peak \in [Times -> Int]
        BY DEF SearchInv, Usages, Uses, BaseTyped, Times
    <2>2. Depth <= Len(component)
        BY DEF SearchInv, Lists, Deciding, Depth
    <2> QED BY <2>1, <2>2 DEF TypeOK, SearchInv, Typed
<1>3. UsageIsExact
    <2>1. InUse = Placed("kept") \cup TriedKept /\ NotGone = Lrs \ (Placed("evicted") \cup TriedEvicted)
        BY UsageFacts DEF InUse, NotGone
    <2>2. ASSUME mode \in {"sweep", "divide", "enter", "leave"}, NEW t \in Times
          PROVE  /\ base[t] = load.fixed[t] + SizeAt(Placed("kept") \cup TriedKept, t)
                 /\ peak[t] = load.fixed[t] + SizeAt(Lrs \ (Placed("evicted") \cup TriedEvicted), t)
        <3>1. Uses(load, base, InUse) /\ Uses(load, peak, NotGone) /\ t \in DOMAIN load.fixed
            BY <2>2 DEF SearchInv, Usages, Times
        <3>2. base[t] = load.fixed[t] + SizeIn(load, InUse, t) /\ peak[t] = load.fixed[t] + SizeIn(load, NotGone, t)
            BY <3>1 DEF Uses
        <3> QED BY <2>1, <3>2, UsageFacts
    <2> QED BY <2>2 DEF UsageIsExact
<1>4. KeptFits
    <2>1. PICK w, S, T : w = load /\ S = Placed("kept") /\ T = InUse
        OBVIOUS
    <2>2. IsWorkload(w) /\ T \in SUBSET DOMAIN w.lrs /\ Fits(w, T) /\ S \in SUBSET T
        <3>1. mode \notin {"done", "end"} => T \in SUBSET DOMAIN w.lrs
            BY <2>1 DEF SearchInv, Usages, Uses
        <3>2. mode \in {"done", "end"} => T \in SUBSET DOMAIN w.lrs
            <4>1. mode \in {"done", "end"} => path = <<>>
                BY DEF SearchInv, Lists
            <4> QED BY <2>1, <4>1, NothingDecided DEF Placed, Lrs
        <3> QED BY <1>1, <2>1, <3>1, <3>2 DEF SearchInv, Feasible, InUse
    <2>3. Fits(w, S)
        BY <2>2, FewerFit
    <2>4. \A i \in Placed("kept") : \A t \in Life(i) :
             load.fixed[t] + SizeAt(Placed("kept"), t) <= load.limit
        BY <2>1, <2>3, UsageFacts DEF Fits, FitIn
    <2> QED BY <2>4 DEF KeptFits
<1> QED BY <1>2, <1>3, <1>4

\* The variables keep their types (TypeOK); wherever the search is, its usages
\* are those of its decisions (UsageIsExact); and what is kept fits (KeptFits),
\* also after the pass over elementwise operations.
THEOREM SearchIsSafe == SanitizerSpec => [](TypeOK /\ UsageIsExact /\ KeptFits)
<1>1. SanitizerInit => SearchInv /\ BaseTyped
    <2> SUFFICES ASSUME SanitizerInit PROVE SearchInv /\ BaseTyped
        OBVIOUS
    <2>1. SearchInv /\ mode = "switches"
        BY SearchBegins DEF SanitizerInit, Init
    <2>2. BaseTyped
        BY <2>1 DEF SearchInv, Usages, Uses, BaseTyped
    <2> QED BY <2>1, <2>2
<1>2. SearchInv /\ BaseTyped /\ [SanitizerNext]_<<vars, sanitizerVars>> => (SearchInv /\ BaseTyped)'
    BY SanitizerContinues, UsagesStayTyped
<1>3. SearchInv /\ BaseTyped => TypeOK /\ UsageIsExact /\ KeptFits
    BY SearchInvImplies
<1> QED BY <1>1, <1>2, <1>3, PTL DEF SanitizerSpec

\* UsageIsExact: the usages followed through the recursion (UpdateMemUsage
\* before and after each call) are those of the ranges decided so far.
THEOREM SearchIsExact == SanitizerSpec => []UsageIsExact
BY SearchIsSafe, PTL

\* KeptFits: at no time of a kept range the limit is exceeded.
THEOREM WhatIsKeptFits == SanitizerSpec => []KeptFits
BY SearchIsSafe, PTL

\* The variables keep their types, and the recursion stays within its component.
THEOREM SearchTypeCorrect == SanitizerSpec => []TypeOK
BY SearchIsSafe, PTL

-----------------------------------------------------------------------------
(* Access as a sum of scores.                                              *)

TotalIn(w, S) == MapThenSumSet(LAMBDA i : w.lrs[i].score, S)

ScoresOf(w) == [i \in DOMAIN w.lrs |-> w.lrs[i].score]

\* A score that is converted to int stays what it is.
ScoreFits(w) == \A i \in DOMAIN w.lrs : IntOf(w.lrs[i].score) = w.lrs[i].score

ScoresFit == \A w \in Workloads : ScoreFits(w)

\* The access of a set of ranges is a sum.
LEMMA TotalIsSum ==
    ASSUME NEW w, NEW S \in SUBSET DOMAIN w.lrs
    PROVE  TotalIn(w, S) = SumOf(ScoresOf(w), S)
<1> DEFINE g == ScoresOf(w)
           Adds(f) == f = [s \in SUBSET S |->
                              IF s = {} THEN 0 ELSE w.lrs[First(s)].score + f[s \ {First(s)}]]
           sum == CHOOSE f : Adds(f)
<1>1. TotalIn(w, S) = sum[S]
    BY DEF TotalIn, MapThenSumSet, MapThenFoldSet, First
<1>2. \A f : Adds(f) <=> AddsUp(f, g, S)
    <2>1. \A s \in SUBSET S : s # {} => w.lrs[First(s)].score = g[First(s)]
        <3>1. \A i \in S : g[i] = w.lrs[i].score
            BY DEF ScoresOf
        <3> HIDE DEF g
        <3> QED BY <3>1, FirstIsMember
    <2> HIDE DEF g
    <2>2. ASSUME NEW f
          PROVE  [s \in SUBSET S |->
                     IF s = {} THEN 0 ELSE w.lrs[First(s)].score + f[s \ {First(s)}]]
                 = [s \in SUBSET S |-> IF s = {} THEN 0 ELSE g[First(s)] + f[s \ {First(s)}]]
        BY <2>1
    <2> QED BY <2>2 DEF AddsUp
<1>3. (CHOOSE f : Adds(f)) = (CHOOSE f : AddsUp(f, g, S))
    <2> HIDE DEF Adds, g
    <2> QED BY <1>2
<1> HIDE DEF Adds
<1> QED BY <1>1, <1>3 DEF SumOf

\* What the search adds up, converted, is the same sum.
LEMMA ScoreIsSum ==
    ASSUME NEW w, ScoreFits(w), NEW S \in SUBSET DOMAIN w.lrs
    PROVE  MapThenSumSet(LAMBDA i : IntOf(w.lrs[i].score), S) = SumOf(ScoresOf(w), S)
<1> DEFINE g == ScoresOf(w)
           total == MapThenSumSet(LAMBDA i : IntOf(w.lrs[i].score), S)
           Adds(f) == f = [s \in SUBSET S |->
                              IF s = {} THEN 0 ELSE IntOf(w.lrs[First(s)].score) + f[s \ {First(s)}]]
           sum == CHOOSE f : Adds(f)
<1>1. total = sum[S]
    BY DEF MapThenSumSet, MapThenFoldSet, First
<1>2. \A f : Adds(f) <=> AddsUp(f, g, S)
    <2>1. \A s \in SUBSET S : s # {} => IntOf(w.lrs[First(s)].score) = g[First(s)]
        <3>1. \A i \in S : g[i] = IntOf(w.lrs[i].score)
            BY DEF ScoresOf, ScoreFits
        <3> HIDE DEF g
        <3> QED BY <3>1, FirstIsMember
    <2> HIDE DEF g
    <2>2. ASSUME NEW f
          PROVE  [s \in SUBSET S |->
                     IF s = {} THEN 0 ELSE IntOf(w.lrs[First(s)].score) + f[s \ {First(s)}]]
                 = [s \in SUBSET S |-> IF s = {} THEN 0 ELSE g[First(s)] + f[s \ {First(s)}]]
        BY <2>1
    <2> QED BY <2>2 DEF AddsUp
<1>3. (CHOOSE f : Adds(f)) = (CHOOSE f : AddsUp(f, g, S))
    <2> HIDE DEF Adds, g
    <2> QED BY <1>2
<1> HIDE DEF Adds
<1> QED BY <1>1, <1>3 DEF SumOf

\* More ranges have no less access.
LEMMA AccessGrows ==
    ASSUME NEW w, IsWorkload(w)
    PROVE  /\ \A S \in SUBSET DOMAIN w.lrs : TotalIn(w, S) \in Nat
           /\ \A S \in SUBSET DOMAIN w.lrs : \A x \in DOMAIN w.lrs \ S :
                 TotalIn(w, S) <= TotalIn(w, S \cup {x})
<1> DEFINE D == DOMAIN w.lrs
           g == ScoresOf(w)
<1>1. IsFiniteSet(D) /\ g \in [D -> Nat]
    BY WorkloadFacts DEF ScoresOf
<1>2. \A S \in SUBSET D : TotalIn(w, S) = SumOf(g, S)
    BY TotalIsSum
<1> HIDE DEF D, g
<1>3. \A S \in SUBSET D : SumOf(g, S) \in Nat
    BY <1>1, SumTyped
<1>4. ASSUME NEW S \in SUBSET D, NEW x \in D \ S
      PROVE  TotalIn(w, S) <= TotalIn(w, S \cup {x})
    <2>1. {x} \in SUBSET D /\ S \cap {x} = {} /\ S \cup {x} \in SUBSET D
        OBVIOUS
    <2>2. SumOf(g, S \cup {x}) = SumOf(g, S) + SumOf(g, {x})
        BY <1>1, <2>1, SumOfUnion
    <2>3. SumOf(g, S) \in Nat /\ SumOf(g, {x}) \in Nat
        BY <1>3, <2>1
    <2> QED BY <1>2, <2>1, <2>2, <2>3
<1> QED BY <1>2, <1>3, <1>4 DEF D

-----------------------------------------------------------------------------
(* The choice with the most access.                                        *)

\* A choice agrees with the first decisions.
Agrees(c, p, S, n) == \A k \in 1..n : c[k] \in S <=> p[k].kept

\* It differs from the decisions first in a range that is kept and may still
\* be tried without.
LeftOut(c, p, S) ==
    \E d \in 1..Len(p) : /\ p[d].kept /\ ~p[d].always
                         /\ c[d] \notin S /\ Agrees(c, p, S, d - 1)

\* The recursion has still to come to a choice.
Pending(S) ==
    \/ LeftOut(component, path, S)
    \/ mode = "enter" /\ Agrees(component, path, S, Len(path))

\* A choice that fits, has no less access, and is no better than the best so
\* far or still to come.
Covered(S) ==
    \E T \in SUBSET Members(component) :
        FitsWith(T) /\ Total(S) <= Total(T) /\ (Total(T) <= best.score \/ Pending(T))

Searched ==
    mode \in {"enter", "leave"} =>
        \A S \in SUBSET Members(component) : FitsWith(S) => Covered(S)

\* The best score is that of the best choice.
Scored ==
    LET exact == best.score = Total(Members(component) \ best.evicted)
    IN  /\ mode = "enter" => best.score = 0 \/ exact
        /\ mode = "leave" => exact

ChoiceInv == Searched /\ Scored

\* A choice that agrees so far contains what is kept and nothing dropped.
LEMMA AgreesChoice ==
    ASSUME NEW c, NEW p, Deciding(c, p), NEW T, Agrees(c, p, T, Len(p))
    PROVE  /\ Chosen(c, p) \subseteq T /\ Dropped(c, p) \cap T = {}
           /\ Len(p) = Len(c) /\ T \subseteq Members(c) => T = Chosen(c, p)
<1>1. Chosen(c, p) \subseteq T /\ Dropped(c, p) \cap T = {}
    BY DEF Agrees, Chosen, Dropped
<1>2. ASSUME Len(p) = Len(c), T \subseteq Members(c) PROVE T \subseteq Chosen(c, p)
    <2>1. DOMAIN c = 1..Len(p)
        BY <1>2 DEF Deciding
    <2> SUFFICES ASSUME NEW k \in 1..Len(p), c[k] \in T PROVE c[k] \in Chosen(c, p)
        BY <1>2, <2>1 DEF Members
    <2>2. p[k].kept
        BY DEF Agrees
    <2> QED BY <2>2 DEF Chosen
<1> QED BY <1>1, <1>2

\* After one decision more.
LEMMA AgreesNext ==
    ASSUME NEW c, NEW p, Deciding(c, p), Len(p) < Len(c), NEW e \in Decision,
           NEW q, IsNext(p, e, q), NEW x, x = c[Len(p) + 1], NEW T
    PROVE  /\ LeftOut(c, p, T) => LeftOut(c, q, T)
           /\ Agrees(c, p, T, Len(p)) => /\ (x \in T /\ e.kept) => Agrees(c, q, T, Len(q))
                                         /\ (x \notin T /\ ~e.kept) => Agrees(c, q, T, Len(q))
                                         /\ (x \notin T /\ e.kept /\ ~e.always) => LeftOut(c, q, T)
                                         /\ Agrees(c, p, T \cup {x}, Len(p))
<1>1. PICK n \in Nat : n = Len(p)
    BY DEF Deciding
<1>2. /\ Len(q) = n + 1 /\ q[n + 1] = e /\ \A d \in 1..n : q[d] = p[d]
    BY <1>1, DecideNext
<1>3. n + 1 \in 1..(n + 1) /\ \A d \in 1..(n + 1) : d \in 1..n \/ d = n + 1
    BY <1>1
<1>4. \A d \in 1..n : d \in 1..(n + 1) /\ (\A k \in 1..(d - 1) : k \in 1..n)
    BY <1>1
<1>5. ASSUME LeftOut(c, p, T) PROVE LeftOut(c, q, T)
    <2>1. PICK d \in 1..n : /\ p[d].kept /\ ~p[d].always /\ c[d] \notin T
                            /\ \A k \in 1..(d - 1) : c[k] \in T <=> p[k].kept
        BY <1>1, <1>5 DEF LeftOut, Agrees
    <2>2. \A k \in 1..(d - 1) : c[k] \in T <=> q[k].kept
        BY <1>2, <1>4, <2>1
    <2>3. d \in 1..(n + 1) /\ q[d].kept /\ ~q[d].always /\ c[d] \notin T
        BY <1>2, <1>4, <2>1
    <2> QED BY <1>2, <2>2, <2>3 DEF LeftOut, Agrees
<1>6. ASSUME Agrees(c, p, T, Len(p)) PROVE \A k \in 1..n : c[k] \in T <=> q[k].kept
    BY <1>1, <1>2, <1>6 DEF Agrees
<1>7. ASSUME Agrees(c, p, T, Len(p)), x \in T /\ e.kept PROVE Agrees(c, q, T, Len(q))
    <2>1. c[n + 1] \in T /\ q[n + 1].kept
        BY <1>1, <1>2, <1>7
    <2> QED BY <1>2, <1>3, <1>6, <1>7, <2>1 DEF Agrees
<1>8. ASSUME Agrees(c, p, T, Len(p)), x \notin T /\ ~e.kept PROVE Agrees(c, q, T, Len(q))
    <2>1. c[n + 1] \notin T /\ ~q[n + 1].kept
        BY <1>1, <1>2, <1>8
    <2> QED BY <1>2, <1>3, <1>6, <1>8, <2>1 DEF Agrees
<1>9. ASSUME Agrees(c, p, T, Len(p)), x \notin T /\ e.kept /\ ~e.always PROVE LeftOut(c, q, T)
    <2>1. n + 1 \in 1..Len(q) /\ (n + 1) - 1 = n
        BY <1>2, <1>3
    <2>2. q[n + 1].kept /\ ~q[n + 1].always /\ c[n + 1] \notin T
        BY <1>1, <1>2, <1>9
    <2>3. Agrees(c, q, T, (n + 1) - 1)
        BY <1>6, <1>9, <2>1 DEF Agrees
    <2> QED BY <2>1, <2>2, <2>3 DEF LeftOut
<1>10. ASSUME Agrees(c, p, T, Len(p)) PROVE Agrees(c, p, T \cup {x}, Len(p))
    <2>1. \A k \in 1..Len(p) : c[k] # x
        <3>1. DOMAIN c = 1..Len(c) /\ Len(c) \in Nat /\ Len(p) \in Nat /\ Len(p) < Len(c)
              /\ \A j, k \in 1..Len(c) : c[j] = c[k] => j = k
            BY DEF Deciding
        <3>2. Len(p) + 1 \in 1..Len(c) /\ \A k \in 1..Len(p) : k \in 1..Len(c) /\ k # Len(p) + 1
            BY <3>1
        <3> QED BY <3>1, <3>2
    <2> QED BY <1>10, <2>1 DEF Agrees
<1> QED BY <1>5, <1>7, <1>8, <1>9, <1>10

\* After the last decision, to keep, is reversed: what was left out only there
\* is what is searched next.
LEMMA AgreesReversed ==
    ASSUME NEW c, NEW p, Deciding(c, p), Len(p) > 0, NEW q, IsReversed(p, q), NEW T, LeftOut(c, p, T)
    PROVE  LeftOut(c, q, T) \/ Agrees(c, q, T, Len(q))
<1>1. PICK n \in Nat : n + 1 = Len(p) /\ n = Len(p) - 1
    <2>1. Len(p) \in Nat /\ Len(p) > 0
        BY DEF Deciding
    <2>2. Len(p) - 1 \in Nat /\ (Len(p) - 1) + 1 = Len(p)
        BY <2>1
    <2> QED BY <2>2
<1>2. Len(q) = n + 1 /\ q[n + 1].kept = FALSE /\ \A d \in 1..n : q[d] = p[d]
    BY <1>1 DEF IsReversed
<1>3. PICK d \in 1..(n + 1) : /\ p[d].kept /\ ~p[d].always /\ c[d] \notin T
                              /\ \A k \in 1..(d - 1) : c[k] \in T <=> p[k].kept
    BY <1>1 DEF LeftOut, Agrees
<1>4. \A k \in 1..(d - 1) : k \in 1..n
    BY <1>3
<1>5. \A k \in 1..(d - 1) : c[k] \in T <=> q[k].kept
    BY <1>2, <1>3, <1>4
<1>6. CASE d = n + 1
    <2>1. \A k \in 1..(n + 1) : k \in 1..(d - 1) \/ k = d
        BY <1>6
    <2>2. \A k \in 1..(n + 1) : c[k] \in T <=> q[k].kept
        BY <1>2, <1>3, <1>5, <1>6, <2>1
    <2> QED BY <1>2, <2>2 DEF Agrees
<1>7. CASE d # n + 1
    <2>1. d \in 1..n
        BY <1>7
    <2>2. d \in 1..Len(q) /\ q[d].kept /\ ~q[d].always /\ c[d] \notin T
        BY <1>2, <1>3, <2>1
    <2> QED BY <1>5, <2>2 DEF LeftOut, Agrees
<1> QED BY <1>6, <1>7

\* After a return from a decision that need not be reversed.
LEMMA AgreesBack ==
    ASSUME NEW c, NEW p, Deciding(c, p), Len(p) > 0, p[Len(p)].always \/ ~p[Len(p)].kept,
           NEW q, IsBack(p, q), NEW T, LeftOut(c, p, T)
    PROVE  LeftOut(c, q, T)
<1>1. PICK n \in Nat : n + 1 = Len(p) /\ n = Len(p) - 1
    <2>1. Len(p) \in Nat /\ Len(p) > 0
        BY DEF Deciding
    <2>2. Len(p) - 1 \in Nat /\ (Len(p) - 1) + 1 = Len(p)
        BY <2>1
    <2> QED BY <2>2
<1>2. Len(q) = n /\ \A d \in 1..n : q[d] = p[d]
    <2>1. PICK x : x = c[Len(p)]
        OBVIOUS
    <2>2. Len(q) = Len(p) - 1 /\ \A d \in 1..Len(q) : q[d] = p[d]
        BY <2>1, UndecideLast
    <2> QED BY <1>1, <2>2
<1>3. PICK d \in 1..(n + 1) : /\ p[d].kept /\ ~p[d].always /\ c[d] \notin T
                              /\ \A k \in 1..(d - 1) : c[k] \in T <=> p[k].kept
    BY <1>1 DEF LeftOut, Agrees
<1>4. d # n + 1
    BY <1>1, <1>3
<1>5. d \in 1..n /\ \A k \in 1..(d - 1) : k \in 1..n
    BY <1>4
<1>6. d \in 1..Len(q) /\ q[d].kept /\ ~q[d].always /\ c[d] \notin T
    BY <1>2, <1>3, <1>5
<1>7. \A k \in 1..(d - 1) : c[k] \in T <=> q[k].kept
    BY <1>2, <1>3, <1>5
<1> QED BY <1>6, <1>7 DEF LeftOut, Agrees

-----------------------------------------------------------------------------
(* The steps of the search, for its best choice.                           *)

\* What fits and what is accessed, in terms of the workload.
ChoiceForms ==
    /\ \A S : FitsWith(S) <=> FitIn(load, S, Placed("kept") \cup S)
    /\ \A S : Total(S) = TotalIn(load, S)

LEMMA ChoiceFacts == ChoiceForms
<1>1. \A S : FitsWith(S) <=> FitIn(load, S, Placed("kept") \cup S)
    BY UsageFacts DEF FitsWith, FitIn
<1>2. \A S : Total(S) = TotalIn(load, S)
    BY DEF Total, TotalIn, Lr
<1> QED BY <1>1, <1>2 DEF ChoiceForms

\* While a component is searched, what fits and what is accessed stays.
LEMMA SameChoices ==
    ASSUME UNCHANGED <<load, place, component>>
    PROVE  /\ \A S : FitsWith(S)' <=> FitsWith(S)
           /\ \A S : Total(S)' = Total(S)
<1>1. ChoiceForms /\ ChoiceForms'
    BY ChoiceFacts, PTL
<1>2. Placed("kept")' = Placed("kept")
    BY DEF Placed, Lrs
<1>3. \A S : FitsWith(S)' <=> FitIn(load', S, Placed("kept")' \cup S)
    BY <1>1 DEF ChoiceForms
<1>4. \A S : Total(S)' = TotalIn(load', S)
    BY <1>1 DEF ChoiceForms
<1> QED BY <1>1, <1>2, <1>3, <1>4 DEF ChoiceForms

\* A choice of the component is one of the workload.
LEMMA ChoiceTyped ==
    ASSUME SearchInv, NEW T \in SUBSET Members(component)
    PROVE  /\ IsWorkload(load) /\ T \in SUBSET DOMAIN load.lrs /\ Total(T) \in Nat
           /\ \A i \in T : place[i] = "open"
<1>1. IsWorkload(load)
    BY WorkloadsAssumption DEF SearchInv, Typed
<1>2. Members(component) \subseteq Placed("open")
    BY DEF SearchInv, Lists
<1>3. T \in SUBSET DOMAIN load.lrs /\ \A i \in T : place[i] = "open"
    BY <1>2 DEF Placed, Lrs
<1>4. Total(T) \in Nat
    <2>1. PICK w : w = load
        OBVIOUS
    <2>2. TotalIn(w, T) \in Nat
        BY <1>1, <1>3, <2>1, AccessGrows
    <2> QED BY <2>1, <2>2, ChoiceFacts DEF ChoiceForms
<1> QED BY <1>1, <1>3, <1>4

\* A step covers what was covered, if it covers the choices that are no better
\* than the best or still to come.
Carried ==
    \A T \in SUBSET Members(component) :
        FitsWith(T) /\ (Total(T) <= best.score \/ Pending(T)) => Covered(T)'

LEMMA SearchedCarries ==
    ASSUME SearchInv, SearchInv', Searched, mode \in {"enter", "leave"},
           UNCHANGED <<load, place, component>>, Carried
    PROVE  Searched'
<1> SUFFICES ASSUME NEW S \in SUBSET Members(component), FitsWith(S)
             PROVE  Covered(S)'
    BY SameChoices DEF Searched
<1>1. PICK T \in SUBSET Members(component) :
         FitsWith(T) /\ Total(S) <= Total(T) /\ (Total(T) <= best.score \/ Pending(T))
    BY DEF Searched, Covered
<1>2. Covered(T)'
    BY <1>1 DEF Carried
<1>3. PICK U \in SUBSET Members(component) :
         /\ FitsWith(U)' /\ Total(T)' <= Total(U)'
         /\ Total(U)' <= best'.score \/ Pending(U)'
    BY <1>2 DEF Covered
<1>4. Total(S)' <= Total(U)'
    <2>1. Total(S) \in Nat /\ Total(T) \in Nat /\ Total(U) \in Nat
        BY ChoiceTyped
    <2>2. Total(S)' = Total(S) /\ Total(T)' = Total(T) /\ Total(U)' = Total(U)
        BY SameChoices
    <2> QED BY <1>1, <1>3, <2>1, <2>2
<1> QED BY <1>3, <1>4 DEF Covered

\* A choice is covered by itself.
LEMMA CoversItself ==
    ASSUME SearchInv, UNCHANGED <<load, place, component>>,
           NEW T \in SUBSET Members(component), FitsWith(T),
           Total(T) <= best'.score \/ Pending(T)'
    PROVE  Covered(T)'
<1>1. FitsWith(T)' /\ Total(T)' = Total(T)
    BY SameChoices
<1>2. Total(T) <= Total(T)
    BY ChoiceTyped
<1> QED BY <1>1, <1>2 DEF Covered

\* The best choice keeps its score while neither changes.
LEMMA ScoreStays ==
    ASSUME Scored, UNCHANGED <<load, place, component, best>>,
           mode \in {"enter", "leave"}, mode' = "leave" => mode = "leave"
    PROVE  Scored'
<1>1. Total(Members(component) \ best.evicted)' = Total(Members(component) \ best.evicted)
    <2>1. PICK S : S = Members(component) \ best.evicted
        OBVIOUS
    <2>2. (Members(component) \ best.evicted)' = S
        BY <2>1
    <2>3. Total(S)' = Total(S)
        BY SameChoices
    <2> QED BY <2>1, <2>2, <2>3 DEF Total
<1> QED BY <1>1 DEF Scored

\* Keeping the next range: a choice without it is still to come, unless the
\* range always fits; then the choice with it is no worse.
LEMMA EnterKeepSearches ==
    ASSUME SearchInv, SearchInv', ChoiceInv, EnterKeep PROVE ChoiceInv'
<1>1. PICK c, p, q, x : c = component /\ p = path /\ q = path' /\ x = Coming
    OBVIOUS
<1>2. mode = "enter" /\ Depth < Len(component)
      /\ UNCHANGED <<load, peak, place, component, waiting, mode, best>>
    BY DEF EnterKeep
<1>3. PICK e \in Decision : q = Append(p, e) /\ e.kept /\ (e.always => AlwaysFits(peak, Coming))
    <2>1. AlwaysFits(peak, Coming) \in BOOLEAN
        BY DEF AlwaysFits
    <2>2. PICK e : e = [kept |-> TRUE, always |-> AlwaysFits(peak, Coming)]
        OBVIOUS
    <2>3. e \in [kept : BOOLEAN, always : BOOLEAN] /\ e.kept /\ e.always = AlwaysFits(peak, Coming)
        BY <2>1, <2>2
    <2>4. q = Append(p, e)
        BY <1>1, <2>2 DEF EnterKeep
    <2> QED BY <2>3, <2>4 DEF Decision
<1>4. Deciding(c, p) /\ Len(p) < Len(c) /\ x = c[Len(p) + 1] /\ IsNext(p, e, q)
    BY <1>1, <1>2, <1>3 DEF SearchInv, Lists, Depth, Coming, IsNext
<1>5. x \in Members(c)
    BY <1>4, DecideNext
<1>6. ASSUME NEW T \in SUBSET Members(component), FitsWith(T),
             Agrees(c, p, T, Len(p)), x \notin T, e.always
      PROVE  Covered(T)'
    <2>1. PICK w, K, U : w = load /\ K = Placed("kept") /\ U = T \cup {x}
        OBVIOUS
    <2>2. /\ IsWorkload(w) /\ U \in SUBSET DOMAIN w.lrs /\ U \in SUBSET Members(component)
          /\ \A i \in U : place[i] = "open"
        BY <1>1, <1>5, <2>1, ChoiceTyped
    <2>3. K \in SUBSET DOMAIN w.lrs /\ \A i \in K : place[i] = "kept"
        BY <2>1 DEF Placed, Lrs
    <2>4. x \notin K \cup T /\ K \cup T \in SUBSET DOMAIN w.lrs /\ T \in SUBSET (K \cup T)
          /\ x \in DOMAIN w.lrs /\ (K \cup T) \cup {x} = K \cup U
        BY <1>6, <2>1, <2>2, <2>3
    <2>5. FitIn(w, T, K \cup T)
        BY <1>6, <2>1, ChoiceFacts DEF ChoiceForms
    <2>6. Uses(w, peak, NotGone)
        BY <2>1 DEF SearchInv, Usages
    <2>7. K \cup U \in SUBSET NotGone
        <3>1. Dropped(c, p) \cap T = {}
            BY <1>4, <1>6, AgreesChoice
        <3>2. x \notin Dropped(c, p)
            BY <1>4, DecideNext
        <3>3. Dropped(c, p) \subseteq Members(c) /\ \A i \in Members(c) : place[i] = "open"
            BY <1>1, <1>4, DecidedOnce DEF SearchInv, Lists, Placed
        <3>4. Dropped(c, p) \cap (K \cup U) = {}
            BY <2>1, <2>3, <3>1, <3>2, <3>3
        <3>5. \A i \in K \cup U : i \in Lrs /\ place[i] # "evicted"
            BY <2>1, <2>2, <2>3 DEF Lrs
        <3> QED BY <1>1, <3>4, <3>5 DEF NotGone, Placed
    <2>8. FitIn(w, {x}, K \cup U)
        <3> SUFFICES ASSUME NEW t \in LifeIn(w, x)
                     PROVE  w.fixed[t] + SizeIn(w, K \cup U, t) <= w.limit
            BY DEF FitIn
        <3>1. PICK m : m = Max({peak[s] : s \in LifeIn(w, x)})
            OBVIOUS
        <3>2. m <= w.limit
            BY <1>1, <1>3, <1>6, <2>1, <3>1, UsageFacts DEF AlwaysFits, MaxOver
        <3>3. peak[t] <= m /\ \E s \in LifeIn(w, x) : m = peak[s]
            BY <2>2, <2>4, <2>6, <3>1, HighestUsage
        <3>4. LifeIn(w, x) \subseteq DOMAIN w.fixed
            BY <2>2, <2>4, WorkloadFacts
        <3>5. m \in Int /\ peak[t] \in Int /\ w.limit \in Int
            BY <2>2, <2>6, <3>3, <3>4 DEF Uses, IsWorkload
        <3>6. peak[t] = w.fixed[t] + SizeIn(w, NotGone, t)
            BY <2>6, <3>4 DEF Uses
        <3>7. NotGone \in SUBSET DOMAIN w.lrs /\ K \cup U \in SUBSET DOMAIN w.lrs
            BY <2>2, <2>3, <2>6 DEF Uses
        <3>8. SizeIn(w, K \cup U, t) <= SizeIn(w, NotGone, t)
            BY <2>2, <2>7, <3>7, SizesGrow
        <3>9. SizeIn(w, K \cup U, t) \in Nat /\ SizeIn(w, NotGone, t) \in Nat /\ w.fixed[t] \in Nat
            BY <2>2, <3>4, <3>7, SizesAdd, WorkloadFacts
        <3> QED BY <3>2, <3>3, <3>5, <3>6, <3>8, <3>9
    <2>9. FitIn(w, U, K \cup U)
        <3>1. FitIn(w, {x}, (K \cup T) \cup {x})
            BY <2>4, <2>8
        <3>2. FitIn(w, T \cup {x}, (K \cup T) \cup {x})
            BY <2>2, <2>4, <2>5, <3>1, OneMoreFits
        <3> QED BY <2>1, <2>4, <3>2
    <2>10. FitsWith(U)
        BY <2>1, <2>9, ChoiceFacts DEF ChoiceForms
    <2>11. Total(T) <= Total(U)
        <3>1. T \in SUBSET DOMAIN w.lrs /\ x \in DOMAIN w.lrs \ T
            BY <1>6, <2>4
        <3>2. TotalIn(w, T) <= TotalIn(w, T \cup {x})
            BY <2>2, <3>1, AccessGrows
        <3> QED BY <2>1, <3>2, ChoiceFacts DEF ChoiceForms
    <2>12. Pending(U)'
        <3>1. Agrees(c, p, U, Len(p)) /\ x \in U
            BY <1>4, <1>6, <2>1, AgreesNext
        <3>2. Agrees(c, q, U, Len(q))
            BY <1>3, <1>4, <3>1, AgreesNext
        <3> QED BY <1>1, <1>2, <3>2 DEF Pending
    <2>13. FitsWith(U)' /\ Total(T)' <= Total(U)'
        BY <1>2, <2>10, <2>11, SameChoices
    <2>14. U \in SUBSET Members(component)'
        BY <1>2, <2>2
    <2> QED BY <2>12, <2>13, <2>14 DEF Covered
<1>7. Carried
    <2> SUFFICES ASSUME NEW T \in SUBSET Members(component), FitsWith(T),
                        Total(T) <= best.score \/ Pending(T)
                 PROVE  Covered(T)'
        BY DEF Carried
    <2>1. CASE Total(T) <= best.score
        BY <1>2, <2>1, CoversItself
    <2>2. CASE LeftOut(c, p, T)
        <3>1. LeftOut(c, q, T)
            BY <1>4, <2>2, AgreesNext
        <3>2. Pending(T)'
            BY <1>1, <1>2, <3>1 DEF Pending
        <3> QED BY <1>2, <3>2, CoversItself
    <2>3. CASE Agrees(c, p, T, Len(p)) /\ (x \in T \/ ~e.always)
        <3>1. Agrees(c, q, T, Len(q)) \/ LeftOut(c, q, T)
            BY <1>3, <1>4, <2>3, AgreesNext
        <3>2. Pending(T)'
            BY <1>1, <1>2, <3>1 DEF Pending
        <3> QED BY <1>2, <3>2, CoversItself
    <2>4. CASE Agrees(c, p, T, Len(p)) /\ x \notin T /\ e.always
        BY <1>6, <2>4
    <2> QED BY <1>1, <2>1, <2>2, <2>3, <2>4 DEF Pending
<1>8. Searched'
    BY <1>2, <1>7, SearchedCarries DEF ChoiceInv
<1>9. Scored'
    BY <1>2, ScoreStays DEF ChoiceInv
<1> QED BY <1>8, <1>9 DEF ChoiceInv

\* Evicting it: no choice with it fits.
LEMMA EnterEvictSearches ==
    ASSUME SearchInv, SearchInv', ChoiceInv, EnterEvict PROVE ChoiceInv'
<1>1. PICK c, p, q, x : c = component /\ p = path /\ q = path' /\ x = Coming
    OBVIOUS
<1>2. mode = "enter" /\ Depth < Len(component) /\ CannotFit(Coming)
      /\ UNCHANGED <<load, base, place, component, waiting, mode, best>>
    BY DEF EnterEvict
<1>3. PICK e \in Decision : q = Append(p, e) /\ ~e.kept
    <2>1. PICK e : e = [kept |-> FALSE, always |-> FALSE]
        OBVIOUS
    <2>2. e \in [kept : BOOLEAN, always : BOOLEAN] /\ ~e.kept
        BY <2>1
    <2>3. q = Append(p, e)
        BY <1>1, <2>1 DEF EnterEvict
    <2> QED BY <2>2, <2>3 DEF Decision
<1>4. Deciding(c, p) /\ Len(p) < Len(c) /\ x = c[Len(p) + 1] /\ IsNext(p, e, q)
    BY <1>1, <1>2, <1>3 DEF SearchInv, Lists, Depth, Coming, IsNext
<1>5. ASSUME NEW T \in SUBSET Members(component), FitsWith(T), Agrees(c, p, T, Len(p))
      PROVE  x \notin T
    <2> SUFFICES ASSUME x \in T PROVE FALSE
        OBVIOUS
    <2>1. PICK t \in LifeIn(load, x) : \A S \in SUBSET DOMAIN load.lrs :
             InUse \cup {x} \subseteq S => load.fixed[t] + SizeIn(load, S, t) > load.limit
        BY <1>1, <1>2, ComingExceeds
    <2>2. PICK S : S = Placed("kept") \cup T
        OBVIOUS
    <2>3. S \in SUBSET DOMAIN load.lrs /\ IsWorkload(load)
        BY <2>2, ChoiceTyped DEF Placed, Lrs
    <2>4. InUse \cup {x} \subseteq S
        <3>1. Chosen(c, p) \subseteq T
            BY <1>4, <1>5, AgreesChoice
        <3> QED BY <1>1, <2>2, <3>1 DEF InUse
    <2>5. load.fixed[t] + SizeIn(load, S, t) > load.limit
        BY <2>1, <2>3, <2>4
    <2>6. load.fixed[t] + SizeIn(load, S, t) <= load.limit
        BY <1>5, <2>2, ChoiceFacts DEF ChoiceForms, FitIn
    <2>7. load.fixed[t] + SizeIn(load, S, t) \in Nat /\ load.limit \in Int
        <3>1. PICK w : w = load
            OBVIOUS
        <3>2. x \in DOMAIN w.lrs
            BY <2>2, <2>3, <3>1
        <3>3. t \in DOMAIN w.fixed /\ w.limit \in Int
            BY <2>3, <3>1, <3>2, WorkloadFacts DEF IsWorkload
        <3>4. w.fixed[t] \in Nat /\ SizeIn(w, S, t) \in Nat
            BY <2>3, <3>1, <3>3, WorkloadFacts, SizesAdd
        <3> QED BY <3>1, <3>3, <3>4
    <2> QED BY <2>5, <2>6, <2>7
<1>6. Carried
    <2> SUFFICES ASSUME NEW T \in SUBSET Members(component), FitsWith(T),
                        Total(T) <= best.score \/ Pending(T)
                 PROVE  Covered(T)'
        BY DEF Carried
    <2>1. CASE Total(T) <= best.score
        BY <1>2, <2>1, CoversItself
    <2>2. CASE LeftOut(c, p, T)
        <3>1. LeftOut(c, q, T)
            BY <1>4, <2>2, AgreesNext
        <3>2. Pending(T)'
            BY <1>1, <1>2, <3>1 DEF Pending
        <3> QED BY <1>2, <3>2, CoversItself
    <2>3. CASE Agrees(c, p, T, Len(p))
        <3>1. x \notin T
            BY <1>5, <2>3
        <3>2. Agrees(c, q, T, Len(q))
            BY <1>3, <1>4, <2>3, <3>1, AgreesNext
        <3>3. Pending(T)'
            BY <1>1, <1>2, <3>2 DEF Pending
        <3> QED BY <1>2, <3>3, CoversItself
    <2> QED BY <1>1, <2>1, <2>2, <2>3 DEF Pending
<1>7. Searched'
    BY <1>2, <1>6, SearchedCarries DEF ChoiceInv
<1>8. Scored'
    BY <1>2, ScoreStays DEF ChoiceInv
<1> QED BY <1>7, <1>8 DEF ChoiceInv

\* Remembering: the complete choice is no better than the best from now on,
\* and neither is any that was not.
LEMMA RememberSearches ==
    ASSUME ScoresFit, SearchInv, SearchInv', ChoiceInv, Remember PROVE ChoiceInv'
<1>1. /\ mode = "enter" /\ mode' = "leave" /\ Len(path) = Len(component)
      /\ UNCHANGED <<load, base, peak, place, component, waiting, path>>
      /\ best' = IF IsBetter(Score) THEN [score |-> Score, evicted |-> TriedEvicted] ELSE best
    BY DEF Remember, Depth
<1>2. Deciding(component, path)
    BY DEF SearchInv, Lists
<1>3. PICK chosen : chosen = Chosen(component, path)
    OBVIOUS
<1>4. /\ chosen = Members(component) \ Dropped(component, path)
      /\ chosen \in SUBSET Members(component) /\ Dropped(component, path) \subseteq Members(component)
    BY <1>1, <1>2, <1>3, DecidedOnce
<1>5. Score = Total(chosen)
    <2>1. PICK w : w = load
        OBVIOUS
    <2>2. ScoreFits(w) /\ chosen \in SUBSET DOMAIN w.lrs
        <3>1. load \in Workloads
            BY DEF SearchInv, Typed
        <3> QED BY <1>4, <2>1, <3>1, ChoiceTyped DEF ScoresFit
    <2>3. Score = MapThenSumSet(LAMBDA i : IntOf(w.lrs[i].score), chosen)
        BY <1>3, <2>1, UsageFacts DEF Score, Lr
    <2>4. MapThenSumSet(LAMBDA i : IntOf(w.lrs[i].score), chosen) = SumOf(ScoresOf(w), chosen)
        BY <2>2, ScoreIsSum
    <2>5. TotalIn(w, chosen) = SumOf(ScoresOf(w), chosen)
        BY <2>2, TotalIsSum
    <2>6. Total(chosen) = TotalIn(w, chosen)
        BY <2>1, ChoiceFacts DEF ChoiceForms
    <2> QED BY <2>3, <2>4, <2>5, <2>6
<1>6. Total(chosen) \in Nat
    BY <1>4, ChoiceTyped
<1>7. PICK others : others = Members(component) \ best.evicted
    OBVIOUS
<1>8. Total(others) \in Nat
    <2>1. others \in SUBSET Members(component)
        BY <1>7
    <2> QED BY <2>1, ChoiceTyped
<1>9. best.score = 0 \/ best.score = Total(others)
    <2>1. Total(others) = Total(Members(component) \ best.evicted)
        BY <1>7 DEF Total
    <2> QED BY <1>1, <2>1 DEF ChoiceInv, Scored
<1>10. best.score <= best'.score /\ Total(chosen) <= best'.score
    <2>1. CASE IsBetter(Score)
        <3>1. best'.score = Total(chosen)
            BY <1>1, <1>5, <2>1
        <3>2. Total(chosen) > best.score \/ best.score = 0
            BY <1>5, <2>1 DEF IsBetter
        <3> QED BY <1>6, <1>8, <1>9, <3>1, <3>2
    <2>2. CASE ~IsBetter(Score)
        <3>1. best' = best /\ ~(Total(chosen) > best.score)
            BY <1>1, <1>5, <2>2 DEF IsBetter
        <3> QED BY <1>6, <1>8, <1>9, <3>1
    <2> QED BY <2>1, <2>2
<1>11. best'.score \in Nat
    <2>1. CASE IsBetter(Score)
        BY <1>1, <1>5, <1>6, <2>1
    <2>2. CASE ~IsBetter(Score)
        BY <1>1, <1>8, <1>9, <2>2
    <2> QED BY <2>1, <2>2
<1>12. Carried
    <2> SUFFICES ASSUME NEW T \in SUBSET Members(component), FitsWith(T),
                        Total(T) <= best.score \/ Pending(T)
                 PROVE  Covered(T)'
        BY DEF Carried
    <2>1. CASE Total(T) <= best.score
        <3>1. Total(T) \in Nat
            BY ChoiceTyped
        <3>2. Total(T) <= best'.score
            BY <1>8, <1>9, <1>10, <1>11, <2>1, <3>1
        <3> QED BY <1>1, <3>2, CoversItself
    <2>2. CASE LeftOut(component, path, T)
        <3>1. Pending(T)'
            BY <1>1, <2>2 DEF Pending
        <3> QED BY <1>1, <3>1, CoversItself
    <2>3. CASE Agrees(component, path, T, Len(path))
        <3>1. T = chosen
            BY <1>1, <1>2, <1>3, <2>3, AgreesChoice
        <3>2. Total(T) <= best'.score
            BY <1>10, <3>1
        <3> QED BY <1>1, <3>2, CoversItself
    <2> QED BY <2>1, <2>2, <2>3 DEF Pending
<1>13. Searched'
    BY <1>1, <1>12, SearchedCarries DEF ChoiceInv
<1>14. Scored'
    <2>1. (best.score = Total(Members(component) \ best.evicted))'
        <3>1. PICK S : S = Members(component)' \ best'.evicted
            OBVIOUS
        <3>2. Total(S)' = Total(S)
            BY <1>1, SameChoices
        <3>3. best'.score = Total(S)
            <4>1. CASE IsBetter(Score)
                <5>1. best'.score = Score /\ best'.evicted = Dropped(component, path)
                    BY <1>1, <4>1, UsageFacts
                <5>2. S = chosen
                    BY <1>1, <1>4, <3>1, <5>1
                <5> QED BY <1>5, <5>1, <5>2
            <4>2. CASE ~IsBetter(Score)
                <5>1. best' = best /\ best.score # 0
                    BY <1>1, <4>2 DEF IsBetter
                <5>2. S = others
                    BY <1>1, <1>7, <3>1, <5>1
                <5> QED BY <1>9, <5>1, <5>2
            <4> QED BY <4>1, <4>2
        <3> QED BY <3>1, <3>2, <3>3
    <2> QED BY <1>1, <2>1 DEF Scored
<1> QED BY <1>13, <1>14 DEF ChoiceInv

\* Reversing the last decision: what was left out only there is still to come.
LEMMA RetryEvictedSearches ==
    ASSUME SearchInv, SearchInv', ChoiceInv, RetryEvicted PROVE ChoiceInv'
<1>1. PICK c, p, q : c = component /\ p = path /\ q = path'
    OBVIOUS
<1>2. mode = "leave" /\ mode' = "enter" /\ Depth > 0
      /\ UNCHANGED <<load, place, component, waiting, best>>
    BY DEF RetryEvicted
<1>3. Deciding(c, p) /\ Len(p) > 0 /\ IsReversed(p, q)
    <2>1. Deciding(c, p) /\ Len(p) > 0 /\ p \in Seq(Decision)
        BY <1>1, <1>2, TopIsDecided
    <2>2. q = [p EXCEPT ![Len(p)].kept = FALSE]
        BY <1>1 DEF RetryEvicted, Depth
    <2>3. IsReversed(p, [p EXCEPT ![Len(p)].kept = FALSE])
        BY <2>1, Reversing
    <2> QED BY <2>1, <2>2, <2>3
<1>4. Carried
    <2> SUFFICES ASSUME NEW T \in SUBSET Members(component), FitsWith(T),
                        Total(T) <= best.score \/ Pending(T)
                 PROVE  Covered(T)'
        BY DEF Carried
    <2>1. CASE Total(T) <= best.score
        BY <1>2, <2>1, CoversItself
    <2>2. CASE Pending(T)
        <3>1. LeftOut(c, p, T)
            BY <1>1, <1>2, <2>2 DEF Pending
        <3>2. LeftOut(c, q, T) \/ Agrees(c, q, T, Len(q))
            BY <1>3, <3>1, AgreesReversed
        <3>3. Pending(T)'
            BY <1>1, <1>2, <3>2 DEF Pending
        <3> QED BY <1>2, <3>3, CoversItself
    <2> QED BY <2>1, <2>2
<1>5. Searched'
    BY <1>2, <1>4, SearchedCarries DEF ChoiceInv
<1>6. Scored'
    BY <1>2, ScoreStays DEF ChoiceInv
<1> QED BY <1>5, <1>6 DEF ChoiceInv

\* Returning: nothing was left to come in the last decision.
LEMMA LeaveSearches ==
    ASSUME SearchInv, SearchInv', ChoiceInv, Leave PROVE ChoiceInv'
<1>1. PICK c, p, q : c = component /\ p = path /\ q = path'
    OBVIOUS
<1>2. mode = "leave" /\ Depth > 0
      /\ UNCHANGED <<load, place, component, waiting, mode, best>>
    BY DEF Leave
<1>3. Deciding(c, p) /\ Len(p) > 0 /\ IsBack(p, q) /\ (p[Len(p)].always \/ ~p[Len(p)].kept)
    BY <1>1, <1>2, TopIsDecided DEF Leave, IsBack, Depth
<1>4. Carried
    <2> SUFFICES ASSUME NEW T \in SUBSET Members(component), FitsWith(T),
                        Total(T) <= best.score \/ Pending(T)
                 PROVE  Covered(T)'
        BY DEF Carried
    <2>1. CASE Total(T) <= best.score
        BY <1>2, <2>1, CoversItself
    <2>2. CASE Pending(T)
        <3>1. LeftOut(c, p, T)
            BY <1>1, <1>2, <2>2 DEF Pending
        <3>2. LeftOut(c, q, T)
            BY <1>3, <3>1, AgreesBack
        <3>3. Pending(T)'
            BY <1>1, <1>2, <3>2 DEF Pending
        <3> QED BY <1>2, <3>3, CoversItself
    <2> QED BY <2>1, <2>2
<1>5. Searched'
    BY <1>2, <1>4, SearchedCarries DEF ChoiceInv
<1>6. Scored'
    BY <1>2, ScoreStays DEF ChoiceInv
<1> QED BY <1>5, <1>6 DEF ChoiceInv

TotalsTyped == SearchInv => \A T \in SUBSET Members(component) : Total(T) \in Nat

LEMMA TotalsAreTyped == TotalsTyped
BY ChoiceTyped DEF TotalsTyped

\* A component that was not searched yet: every choice is still to come.
LEMMA NextComponentSearches ==
    ASSUME SearchInv, SearchInv', NextComponent PROVE ChoiceInv'
<1>1. mode' = "enter" /\ best'.score = 0
    BY DEF NextComponent
<1>2. path' = <<>>
    BY DEF NextComponent, SearchInv, Lists
<1>3. TotalsTyped'
    BY TotalsAreTyped, PTL
<1>4. ASSUME NEW S \in SUBSET Members(component'), FitsWith(S)' PROVE Covered(S)'
    <2>1. Agrees(component', path', S, Len(path'))
        BY <1>2 DEF Agrees
    <2>2. Pending(S)'
        BY <1>1, <2>1 DEF Pending
    <2>3. Total(S)' \in Nat
        BY <1>3 DEF TotalsTyped
    <2> QED BY <1>4, <2>2, <2>3 DEF Covered
<1> QED BY <1>1, <1>4 DEF ChoiceInv, Searched, Scored

\* Otherwise nothing is searched.
LEMMA ChoiceContinues ==
    ASSUME ScoresFit, SearchInv, SearchInv', ChoiceInv, [SanitizerNext]_<<vars, sanitizerVars>>
    PROVE  ChoiceInv'
<1>1. CASE mode' \notin {"enter", "leave"}
    BY <1>1 DEF ChoiceInv, Searched, Scored
<1>2. CASE NextComponent
    BY <1>2, NextComponentSearches
<1>3. CASE EnterKeep
    BY <1>3, EnterKeepSearches
<1>4. CASE EnterEvict
    BY <1>4, EnterEvictSearches
<1>5. CASE Remember
    BY <1>5, RememberSearches
<1>6. CASE RetryEvicted
    BY <1>6, RetryEvictedSearches
<1>7. CASE Leave
    BY <1>7, LeaveSearches
<1>8. CASE EvictAcrossSwitches \/ Sweep \/ AllDivided \/ ApplyBest
    <2>1. mode' \notin {"enter", "leave"}
        BY <1>8 DEF EvictAcrossSwitches, Sweep, AllDivided, ApplyBest
    <2> QED BY <1>1, <2>1
<1>9. CASE Visit
    <2>1. mode' \notin {"enter", "leave"}
        BY <1>9 DEF Visit
    <2> QED BY <1>1, <2>1
<1>10. CASE UNCHANGED vars
    <2>1. CASE mode \in {"enter", "leave"}
        <3>1. UNCHANGED <<load, place, component, best, mode, path>>
            BY <1>10 DEF vars
        <3>2. Carried
            <4> SUFFICES ASSUME NEW T \in SUBSET Members(component), FitsWith(T),
                                Total(T) <= best.score \/ Pending(T)
                         PROVE  Covered(T)'
                BY DEF Carried
            <4>1. Pending(T)' <=> Pending(T)
                BY <3>1 DEF Pending
            <4> QED BY <3>1, <4>1, CoversItself
        <3>3. Searched'
            BY <2>1, <3>1, <3>2, SearchedCarries DEF ChoiceInv
        <3>4. Scored'
            BY <2>1, <3>1, ScoreStays DEF ChoiceInv
        <3> QED BY <3>3, <3>4 DEF ChoiceInv
    <2>2. CASE mode \notin {"enter", "leave"}
        <3>1. mode' = mode
            BY <1>10 DEF vars
        <3> QED BY <1>1, <2>2, <3>1
    <2> QED BY <2>1, <2>2
<1>11. CASE StartSanitizer
    BY <1>10, <1>11 DEF StartSanitizer
<1> QED BY <1>2, <1>3, <1>4, <1>5, <1>6, <1>7, <1>8, <1>9, <1>10, <1>11 DEF SanitizerNext, Next

LEMMA SearchedToTheEnd ==
    ASSUME SearchInv, ChoiceInv PROVE ChoosesMostAccess
<1> SUFFICES ASSUME mode = "leave", Depth = 0,
                    NEW S \in SUBSET Members(component), FitsWith(S)
             PROVE  Total(S) <= Total(Members(component) \ best.evicted)
    BY DEF ChoosesMostAccess, Members
<1>1. PICK T \in SUBSET Members(component) :
         FitsWith(T) /\ Total(S) <= Total(T) /\ (Total(T) <= best.score \/ Pending(T))
    BY DEF ChoiceInv, Searched, Covered
<1>2. ~Pending(T)
    <2>1. Len(path) = 0
        BY DEF Depth
    <2> QED BY <2>1 DEF Pending, LeftOut
<1>3. PICK others \in SUBSET Members(component) : others = Members(component) \ best.evicted
    OBVIOUS
<1>4. best.score = Total(others)
    BY <1>3 DEF ChoiceInv, Scored
<1>5. Total(S) \in Nat /\ Total(T) \in Nat /\ Total(others) \in Nat
    BY ChoiceTyped
<1> QED BY <1>1, <1>2, <1>3, <1>4, <1>5

\* ChoosesMostAccess: when the recursion has returned from a component, no
\* choice that fits beside what is kept has more access than the one that is
\* applied; unless an access count changes when it is converted to int.
THEOREM SearchChoosesMostAccess ==
    ASSUME ScoresFit PROVE SanitizerSpec => []ChoosesMostAccess
<1>1. SanitizerInit => SearchInv /\ ChoiceInv
    <2> SUFFICES ASSUME SanitizerInit PROVE SearchInv /\ ChoiceInv
        OBVIOUS
    <2>1. SearchInv /\ mode = "switches"
        BY SearchBegins DEF SanitizerInit, Init
    <2> QED BY <2>1 DEF ChoiceInv, Searched, Scored
<1>2. SearchInv /\ ChoiceInv /\ [SanitizerNext]_<<vars, sanitizerVars>> => (SearchInv /\ ChoiceInv)'
    BY SanitizerContinues, ChoiceContinues
<1>3. SearchInv /\ ChoiceInv => ChoosesMostAccess
    BY SearchedToTheEnd
<1> QED BY <1>1, <1>2, <1>3, PTL DEF SanitizerSpec

-----------------------------------------------------------------------------
(* The pass over elementwise operations.                                   *)

\* Its inputs are read by no later operation.
Unshared(k) == \A i \in ops[k].reads : \A j \in Consumers(i) : j <= k

\* Operations are visited in their order, once all ranges are decided; those
\* that were visited have their operands together, if no later one reads them.
VisitInv ==
    /\ DOMAIN ops = 1..Len(ops) /\ Len(ops) \in Nat /\ pos \in Nat
    /\ \A k \in DOMAIN ops : ops[k].reads \subseteq Lrs
    /\ mode \notin {"done", "end"} => pos = 0
    /\ pos = 0 => ops = <<>>
    /\ mode = "end" => pos > Len(ops)
    /\ \A k \in DOMAIN ops : k < pos /\ IsVisited(k) /\ Unshared(k) => OperandsTogether(k)

LEMMA VisitInvHolds ==
    ASSUME SearchInv, VisitInv, Visit PROVE VisitInv'
<1>1. PICK here, gone : /\ here = pos
                        /\ gone = IF IsVisited(pos) /\ HasSlowInput(pos) THEN Evicted(pos) ELSE {}
    OBVIOUS
<1>2. /\ mode = "done" /\ here \in DOMAIN ops /\ mode' \in {"done", "end"} /\ pos' = here + 1
      /\ UNCHANGED <<load, ops>>
      /\ place' = [i \in Lrs |-> IF i \in gone THEN "evicted" ELSE place[i]]
      /\ mode' = "end" => here = Len(ops)
    <2>1. mode = "done" /\ mode' = IF pos = Len(ops) THEN "end" ELSE mode
        BY DEF Visit
    <2> QED BY <1>1, <2>1 DEF Visit
<1>3. /\ DOMAIN ops = 1..Len(ops) /\ Len(ops) \in Nat /\ here \in 1..Len(ops)
      /\ \A k \in DOMAIN ops : ops[k].reads \subseteq Lrs
    BY <1>2 DEF VisitInv
<1>4. Lrs' = Lrs
    BY <1>2 DEF Lrs
<1>5. gone \subseteq Placed("kept") /\ gone \subseteq ops[here].reads
    BY <1>1 DEF Evicted
<1>6. \A i \in Lrs : place'[i] = IF i \in gone THEN "evicted" ELSE place[i]
    BY <1>2
<1>7. Placed("kept")' = Placed("kept") \ gone
    BY <1>4, <1>6 DEF Placed
<1>8. /\ \A k : IsVisited(k)' <=> IsVisited(k)
      /\ \A k : Unshared(k)' <=> Unshared(k)
      /\ \A i : MayBeEvicted(i)' <=> MayBeEvicted(i)
    BY <1>2 DEF IsVisited, Unshared, MayBeEvicted, Consumers
<1>9. ASSUME NEW k \in DOMAIN ops, k < pos', IsVisited(k), Unshared(k)
      PROVE  OperandsTogether(k)'
    <2>1. CASE k = here
        <3>1. CASE HasSlowInput(here)
            <4>1. gone = Evicted(here)
                BY <1>1, <1>9, <2>1, <3>1
            <4>2. ASSUME NEW i \in ops[k].reads, MayBeEvicted(i) PROVE place'[i] # "kept"
                <5>1. i \in Lrs
                    BY <1>3, <1>9
                <5>2. CASE place[i] = "kept"
                    <6>1. i \in gone
                        BY <2>1, <4>1, <4>2, <5>1, <5>2 DEF Evicted, Placed
                    <6> QED BY <1>6, <5>1, <6>1
                <5>3. CASE place[i] # "kept"
                    BY <1>6, <5>1, <5>3
                <5> QED BY <5>2, <5>3
            <4> QED BY <1>2, <1>8, <4>2 DEF OperandsTogether
        <3>2. CASE ~HasSlowInput(here)
            <4>1. gone = {} /\ ~ops[k].slowInput /\ \A i \in ops[k].reads : place[i] = "kept"
                BY <1>1, <2>1, <3>2 DEF HasSlowInput
            <4>2. ops[k].reads \subseteq Placed("kept")'
                <5>1. ops[k].reads \subseteq Placed("kept")
                    BY <1>3, <4>1 DEF Placed
                <5> QED BY <1>7, <4>1, <5>1
            <4> QED BY <1>2, <4>1, <4>2 DEF OperandsTogether
        <3> QED BY <3>1, <3>2
    <2>2. CASE k # here
        <3>1. k < here
            BY <1>2, <1>3, <1>9, <2>2
        <3>2. OperandsTogether(k)
            BY <1>1, <1>9, <3>1 DEF VisitInv
        <3>3. ASSUME NEW i \in ops[k].reads PROVE i \notin gone
            <4>1. here \notin Consumers(i)
                BY <1>3, <1>9, <3>1 DEF Unshared
            <4>2. i \notin ops[here].reads
                BY <1>2, <4>1 DEF Consumers
            <4> QED BY <1>5, <4>2
        <3>4. \A i \in ops[k].reads : place'[i] = place[i]
            BY <1>3, <1>6, <3>3
        <3>5. ops[k].reads \subseteq Placed("kept")' <=> ops[k].reads \subseteq Placed("kept")
            BY <1>7, <3>3
        <3> QED BY <1>2, <1>8, <3>2, <3>4, <3>5 DEF OperandsTogether
    <2> QED BY <2>1, <2>2
<1>10. \A k \in DOMAIN ops' : k < pos' /\ IsVisited(k)' /\ Unshared(k)' => OperandsTogether(k)'
    BY <1>2, <1>8, <1>9
<1>11. mode' = "end" => pos' > Len(ops')
    BY <1>2, <1>3
<1>12. pos' \in Nat /\ pos' # 0
    BY <1>2, <1>3
<1> QED BY <1>2, <1>3, <1>4, <1>10, <1>11, <1>12 DEF VisitInv

LEMMA VisitInvContinues ==
    ASSUME SearchInv, VisitInv, [SanitizerNext]_<<vars, sanitizerVars>> PROVE VisitInv'
<1>1. CASE Visit
    BY <1>1, VisitInvHolds
<1>2. CASE StartSanitizer
    <2>1. mode = "done" /\ ops' \in GraphsOf(load) /\ pos' = 1 /\ mode' = mode /\ load' = load
        BY <1>2 DEF StartSanitizer, vars
    <2>2. IsGraph(load, ops')
        BY <2>1, GraphsAssumption DEF SearchInv, Typed
    <2>3. PICK list, R : list = ops' /\ R = [reads : SUBSET DOMAIN load.lrs, slowInput : BOOLEAN,
                                             elementwise : BOOLEAN, npu : BOOLEAN, inCascade : BOOLEAN]
        OBVIOUS
    <2>4. list \in Seq(R)
        BY <2>2, <2>3 DEF IsGraph
    <2>5. DOMAIN list = 1..Len(list) /\ Len(list) \in Nat /\ \A k \in DOMAIN list : list[k] \in R
        BY <2>4
    <2>6. \A k \in DOMAIN ops' : ops'[k].reads \subseteq Lrs'
        BY <2>1, <2>3, <2>5 DEF Lrs
    <2>7. \A k \in DOMAIN ops' : ~(k < pos')
        BY <2>1, <2>3, <2>5
    <2> QED BY <2>1, <2>3, <2>5, <2>6, <2>7 DEF VisitInv
<1>3. CASE Next /\ UNCHANGED sanitizerVars
    <2>1. load' = load
        BY <1>3 DEF Next, EvictAcrossSwitches, Sweep, NextComponent, AllDivided, EnterKeep,
                    EnterEvict, Remember, RetryEvicted, Leave, ApplyBest
    <2>2. mode \notin {"done", "end"} /\ mode' # "end"
        BY <1>3 DEF Next, EvictAcrossSwitches, Sweep, NextComponent, AllDivided, EnterKeep,
                    EnterEvict, Remember, RetryEvicted, Leave, ApplyBest
    <2>3. pos' = 0 /\ ops' = <<>>
        BY <1>3, <2>2 DEF VisitInv, sanitizerVars
    <2>4. DOMAIN ops' = {} /\ Len(ops') = 0 /\ 1..0 = {}
        BY <2>3
    <2> QED BY <2>2, <2>3, <2>4 DEF VisitInv
<1>4. CASE UNCHANGED <<vars, sanitizerVars>>
    <2>1. UNCHANGED <<load, place, mode, ops, pos>>
        BY <1>4 DEF vars, sanitizerVars
    <2>2. Lrs' = Lrs /\ Placed("kept")' = Placed("kept")
        BY <2>1 DEF Lrs, Placed
    <2>3. /\ \A k : IsVisited(k)' <=> IsVisited(k)
          /\ \A k : Unshared(k)' <=> Unshared(k)
          /\ \A i : MayBeEvicted(i)' <=> MayBeEvicted(i)
        BY <2>1 DEF IsVisited, Unshared, MayBeEvicted, Consumers
    <2>4. \A k : OperandsTogether(k)' <=> OperandsTogether(k)
        BY <2>1, <2>2, <2>3 DEF OperandsTogether
    <2> QED BY <2>1, <2>2, <2>3, <2>4 DEF VisitInv
<1> QED BY <1>1, <1>2, <1>3, <1>4 DEF SanitizerNext

\* SameMemoryUnlessShared: after the pass, the operands of an operation that no
\* later one reads are together, whatever the search kept and evicted.
THEOREM OperandsEndTogether == SanitizerSpec => []SameMemoryUnlessShared
<1>1. SanitizerInit => SearchInv /\ VisitInv
    <2> SUFFICES ASSUME SanitizerInit PROVE SearchInv /\ VisitInv
        OBVIOUS
    <2>1. SearchInv /\ mode = "switches"
        BY SearchBegins DEF SanitizerInit, Init
    <2>2. ops = <<>> /\ pos = 0
        BY DEF SanitizerInit
    <2>3. DOMAIN ops = {} /\ Len(ops) = 0 /\ 1..0 = {}
        BY <2>2
    <2> QED BY <2>1, <2>2, <2>3 DEF VisitInv
<1>2. SearchInv /\ VisitInv /\ [SanitizerNext]_<<vars, sanitizerVars>> => (SearchInv /\ VisitInv)'
    BY SanitizerContinues, VisitInvContinues
<1>3. VisitInv => SameMemoryUnlessShared
    <2> SUFFICES ASSUME VisitInv, mode = "end", NEW k \in DOMAIN ops, IsVisited(k), Unshared(k)
                 PROVE  OperandsTogether(k)
        BY DEF SameMemoryUnlessShared, Unshared
    <2>1. k < pos
        BY DEF VisitInv
    <2> QED BY <2>1 DEF VisitInv
<1> QED BY <1>1, <1>2, <1>3, PTL DEF SanitizerSpec

-----------------------------------------------------------------------------
(* What a chain of operations a..b of a network takes.                     *)

NonNegativeOf(n) == Max({0, n})

UncascadedIn(w, i) == w.ops[i].local + w.ops[i].nonLocal

SpilledIn(w, i) ==
    w.spilling /\ (~w.selective \/ (w.ops[i].ifmStored = 0 /\ w.ops[i].ofmStored = 0))

\* Operation i of a chain from a writes its result over its input.
ReusesIn(w, a, i) ==
    w.ops[i].oneToOne /\ (IF i = a THEN 0 ELSE w.ops[i].buffer) = w.ops[i + 1].buffer

AliasesIn(w, a, b) == {i \in a..(b - 1) : ReusesIn(w, a, i)}

\* The operations of a chain with a rolling buffer of their own before them.
OwnBuffers(w, a, b) == {i \in (a + 1)..b : (i - 1) \notin AliasesIn(w, a, b)}

WeightsOf(w) == [i \in DOMAIN w.ops |-> w.ops[i].weights]

BuffersOf(w) == [i \in DOMAIN w.ops |-> w.ops[i].buffer]

Taken(w, a, b) == SumOf(WeightsOf(w), a..b) + SumOf(BuffersOf(w), OwnBuffers(w, a, b))

BesideIn(w, a, i) ==
    IF i > a /\ i <= w.ops[a].rangeEnd /\ w.ops[a].rangeSize > 0 /\ i > w.ops[a].fusedEnd
    THEN NonNegativeOf(NonNegativeOf(w.ops[i].nonLocal) - w.ops[a].rangeSize)
    ELSE NonNegativeOf(w.ops[i].nonLocal)

MostBeside(w, a, b) == Max({BesideIn(w, a, i) : i \in a..b})

\* The larger of two numbers, and what is left of one above zero (std::max).
LEMMA MaxOfTwo ==
    ASSUME NEW a \in Int, NEW b \in Int
    PROVE  Max({a, b}) = IF a <= b THEN b ELSE a
<1> DEFINE m == IF a <= b THEN b ELSE a
<1>1. m \in {a, b} /\ \A y \in {a, b} : m >= y
    OBVIOUS
<1>2. \A x \in {a, b} : (\A y \in {a, b} : x >= y) => x = m
    OBVIOUS
<1> QED BY <1>1, <1>2 DEF Max

LEMMA NonNegativeIsNatural ==
    ASSUME NEW n \in Int
    PROVE  NonNegativeOf(n) \in Nat
BY MaxOfTwo DEF NonNegativeOf

\* Of three naturals, as updateSegmentNonLocal takes it.
LEMMA MaxOfThree ==
    ASSUME NEW a \in Nat, NEW b \in Nat, NEW c \in Nat
    PROVE  /\ Max({a, b, c}) \in {a, b, c}
           /\ a <= Max({a, b, c}) /\ b <= Max({a, b, c}) /\ c <= Max({a, b, c})
<1>1. IsFiniteSet({a, b, c}) /\ {a, b, c} # {} /\ {a, b, c} \in SUBSET Nat
    <2>1. IsFiniteSet({c})
        BY FS_Singleton
    <2>2. IsFiniteSet({c} \cup {b})
        BY <2>1, FS_AddElement
    <2>3. IsFiniteSet(({c} \cup {b}) \cup {a})
        BY <2>2, FS_AddElement
    <2>4. {a, b, c} = ({c} \cup {b}) \cup {a}
        OBVIOUS
    <2> QED BY <2>3, <2>4
<1>2. PICK S : S = {a, b, c}
    OBVIOUS
<1>3. Max(S) \in S /\ \A y \in S : y <= Max(S)
    BY <1>1, <1>2, GreatestNatural
<1> QED BY <1>2, <1>3

\* The operations of a network are finitely many, and their sizes natural.
LEMMA NetworkFacts ==
    ASSUME NEW w, IsNetwork(w)
    PROVE  /\ IsFiniteSet(DOMAIN w.ops) /\ DOMAIN w.ops \in SUBSET Nat
           /\ WeightsOf(w) \in [DOMAIN w.ops -> Nat] /\ BuffersOf(w) \in [DOMAIN w.ops -> Nat]
           /\ \A i \in DOMAIN w.ops :
                 /\ w.ops[i].weights \in Nat /\ w.ops[i].buffer \in Nat
                 /\ w.ops[i].ifmStored \in Nat /\ w.ops[i].ofmStored \in Nat
                 /\ w.ops[i].rangeSize \in Nat /\ w.ops[i].local \in Int
                 /\ w.ops[i].nonLocal \in Int /\ w.ops[i].rangeEnd \in Int
                 /\ w.ops[i].fusedEnd \in Int
           /\ \A a, b \in DOMAIN w.ops : a..b \in SUBSET DOMAIN w.ops
<1>1. PICK n \in Nat : DOMAIN w.ops = 1..n
    BY DEF IsNetwork
<1>2. IsFiniteSet(1..n) /\ 1..n \in SUBSET Nat
    BY IndicesCounted
<1>3. \A i \in DOMAIN w.ops :
         /\ w.ops[i].weights \in Nat /\ w.ops[i].buffer \in Nat
         /\ w.ops[i].ifmStored \in Nat /\ w.ops[i].ofmStored \in Nat
         /\ w.ops[i].rangeSize \in Nat /\ w.ops[i].local \in Int
         /\ w.ops[i].nonLocal \in Int /\ w.ops[i].rangeEnd \in Int
         /\ w.ops[i].fusedEnd \in Int
    BY DEF IsNetwork
<1>4. \A a, b \in DOMAIN w.ops : a..b \in SUBSET DOMAIN w.ops
    BY <1>1
<1> QED BY <1>1, <1>2, <1>3, <1>4 DEF WeightsOf, BuffersOf

\* A chain of one operation takes its weights, and a buffer for nothing.
LEMMA TakenByOne ==
    ASSUME NEW w, IsNetwork(w), NEW a \in DOMAIN w.ops
    PROVE  Taken(w, a, a) = w.ops[a].weights
<1> DEFINE D == DOMAIN w.ops
           g == WeightsOf(w)
           h == BuffersOf(w)
<1>1. IsFiniteSet(D) /\ g \in [D -> Nat] /\ h \in [D -> Nat] /\ a \in Nat /\ g[a] = w.ops[a].weights
    BY NetworkFacts DEF WeightsOf
<1>2. a..a = {a} /\ OwnBuffers(w, a, a) = {}
    BY <1>1 DEF OwnBuffers
<1>3. SumOf(g, {a}) = g[a] /\ SumOf(h, {}) = 0
    <2>1. a \in D
        OBVIOUS
    <2> HIDE DEF D, g, h
    <2> QED BY <1>1, <2>1, SumOfOne, SumTyped
<1>4. Taken(w, a, a) = SumOf(g, {a}) + SumOf(h, {})
    BY <1>2 DEF Taken
<1>5. g[a] \in Nat
    BY <1>1
<1> HIDE DEF g, h
<1> QED BY <1>1, <1>3, <1>4, <1>5

\* What a chain takes is natural.
LEMMA TakenIsNatural ==
    ASSUME NEW w, IsNetwork(w), NEW a \in DOMAIN w.ops, NEW b \in DOMAIN w.ops
    PROVE  Taken(w, a, b) \in Nat
<1> DEFINE D == DOMAIN w.ops
           g == WeightsOf(w)
           h == BuffersOf(w)
<1>1. IsFiniteSet(D) /\ g \in [D -> Nat] /\ h \in [D -> Nat] /\ a \in Nat /\ b \in Nat /\ a..b \in SUBSET D
    BY NetworkFacts
<1>2. OwnBuffers(w, a, b) \in SUBSET D
    <2>1. (a + 1)..b \subseteq a..b
        BY <1>1
    <2> QED BY <1>1, <2>1 DEF OwnBuffers
<1>3. SumOf(g, a..b) \in Nat /\ SumOf(h, OwnBuffers(w, a, b)) \in Nat
    <2> HIDE DEF D, g, h
    <2> QED BY <1>1, <1>2, SumTyped
<1> HIDE DEF g, h
<1> QED BY <1>3 DEF Taken, g, h

\* One operation more takes its weights, and its buffer unless that is
\* written over the one before (cascadeBuffersSize).
LEMMA TakenByNext ==
    ASSUME NEW w, IsNetwork(w), NEW a \in DOMAIN w.ops, NEW b \in DOMAIN w.ops, a <= b,
           b + 1 \in DOMAIN w.ops
    PROVE  Taken(w, a, b + 1)
             = Taken(w, a, b) + w.ops[b + 1].weights
                 + (IF ReusesIn(w, a, b) THEN 0 ELSE w.ops[b + 1].buffer)
<1> DEFINE D == DOMAIN w.ops
           g == WeightsOf(w)
           h == BuffersOf(w)
<1>1. IsFiniteSet(D) /\ g \in [D -> Nat] /\ h \in [D -> Nat] /\ a \in Nat /\ b \in Nat /\ a..b \in SUBSET D
    BY NetworkFacts
<1>2. g[b + 1] = w.ops[b + 1].weights /\ h[b + 1] = w.ops[b + 1].buffer
    BY DEF WeightsOf, BuffersOf
<1>3. a..(b + 1) = (a..b) \cup {b + 1} /\ (a..b) \cap {b + 1} = {}
    BY <1>1
<1>4. PICK A, B, C : /\ A = a..b /\ B = OwnBuffers(w, a, b)
                     /\ C = IF ReusesIn(w, a, b) THEN {} ELSE {b + 1}
    OBVIOUS
<1>5. B \in SUBSET D /\ C \in SUBSET D /\ B \cap C = {} /\ A \in SUBSET D /\ {b + 1} \in SUBSET D
    <2>1. (a + 1)..b \subseteq a..b
        BY <1>1
    <2>2. B \subseteq (a + 1)..b
        BY <1>4 DEF OwnBuffers
    <2>3. b + 1 \notin (a + 1)..b
        BY <1>1
    <2> QED BY <1>1, <1>4, <2>1, <2>2, <2>3
<1>6. OwnBuffers(w, a, b + 1) = B \cup C
    <2>1. \A i \in (a + 1)..b : i - 1 \in AliasesIn(w, a, b + 1) <=> i - 1 \in AliasesIn(w, a, b)
        BY <1>1 DEF AliasesIn
    <2>2. b \in AliasesIn(w, a, b + 1) <=> ReusesIn(w, a, b)
        BY <1>1 DEF AliasesIn
    <2>3. (a + 1)..(b + 1) = ((a + 1)..b) \cup {b + 1} /\ (b + 1) - 1 = b
        BY <1>1
    <2>4. \A i : i \in OwnBuffers(w, a, b + 1)
                   <=> i \in OwnBuffers(w, a, b) \/ (i = b + 1 /\ ~ReusesIn(w, a, b))
        BY <2>1, <2>2, <2>3 DEF OwnBuffers
    <2>5. \A i : i \in C <=> (i = b + 1 /\ ~ReusesIn(w, a, b))
        BY <1>4
    <2> QED BY <1>4, <2>4, <2>5
<1>7. SumOf(g, A \cup {b + 1}) = SumOf(g, A) + SumOf(g, {b + 1})
    <2>1. A \cap {b + 1} = {}
        BY <1>3, <1>4
    <2> HIDE DEF D, g, h
    <2> QED BY <1>1, <1>5, <2>1, SumOfUnion
<1>8. SumOf(h, B \cup C) = SumOf(h, B) + SumOf(h, C)
    <2> HIDE DEF D, g, h
    <2> QED BY <1>1, <1>5, SumOfUnion
<1>9. SumOf(g, {b + 1}) = g[b + 1] /\ SumOf(h, {b + 1}) = h[b + 1] /\ SumOf(h, {}) = 0
    <2>1. b + 1 \in D
        OBVIOUS
    <2> HIDE DEF D, g, h
    <2> QED BY <1>1, <2>1, SumOfOne, SumTyped
<1>10. SumOf(g, A) \in Nat /\ SumOf(h, B) \in Nat /\ g[b + 1] \in Nat /\ h[b + 1] \in Nat
    <2>1. b + 1 \in D
        OBVIOUS
    <2> HIDE DEF D, g, h
    <2> QED BY <1>1, <1>5, <2>1, SumTyped
<1>11. Taken(w, a, b + 1) = (SumOf(g, A) + g[b + 1]) + (SumOf(h, B) + SumOf(h, C))
    BY <1>3, <1>4, <1>6, <1>7, <1>8, <1>9 DEF Taken
<1>12. Taken(w, a, b) = SumOf(g, A) + SumOf(h, B)
    BY <1>4 DEF Taken
<1>13. SumOf(h, C) = IF ReusesIn(w, a, b) THEN 0 ELSE h[b + 1]
    BY <1>4, <1>9
<1> HIDE DEF g, h
<1> QED BY <1>2, <1>10, <1>11, <1>12, <1>13

\* What is beside an operation is natural, and a chain of one operation has
\* beside it what that operation has.
LEMMA BesideIsNatural ==
    ASSUME NEW w, IsNetwork(w), NEW a \in DOMAIN w.ops, NEW i \in DOMAIN w.ops
    PROVE  BesideIn(w, a, i) \in Nat
<1>1. w.ops[i].nonLocal \in Int /\ w.ops[a].rangeSize \in Nat
    BY NetworkFacts
<1>2. NonNegativeOf(w.ops[i].nonLocal) \in Nat
    BY <1>1, NonNegativeIsNatural
<1>3. NonNegativeOf(w.ops[i].nonLocal) - w.ops[a].rangeSize \in Int
    BY <1>1, <1>2
<1>4. NonNegativeOf(NonNegativeOf(w.ops[i].nonLocal) - w.ops[a].rangeSize) \in Nat
    BY <1>3, NonNegativeIsNatural
<1> QED BY <1>2, <1>4 DEF BesideIn

\* The most beside a chain is beside one of its operations, and no less than
\* what is beside any.
LEMMA MostIsBesideOne ==
    ASSUME NEW w, IsNetwork(w), NEW a \in DOMAIN w.ops, NEW b \in DOMAIN w.ops, a <= b
    PROVE  /\ MostBeside(w, a, b) \in Nat
           /\ \E i \in a..b : MostBeside(w, a, b) = BesideIn(w, a, i)
           /\ \A i \in a..b : BesideIn(w, a, i) <= MostBeside(w, a, b)
<1> DEFINE f == [i \in a..b |-> BesideIn(w, a, i)]
           S == {f[i] : i \in a..b}
<1>1. a \in Nat /\ b \in Nat /\ a..b \in SUBSET DOMAIN w.ops /\ IsFiniteSet(DOMAIN w.ops)
    BY NetworkFacts
<1>2. S = {BesideIn(w, a, i) : i \in a..b}
    OBVIOUS
<1>3. IsFiniteSet(S)
    <2>1. IsFiniteSet(a..b)
        BY <1>1, FS_Subset
    <2> HIDE DEF f
    <2> QED BY <2>1, FiniteImage
<1>4. S \in SUBSET Nat /\ S # {}
    <2>1. \A i \in a..b : BesideIn(w, a, i) \in Nat
        BY <1>1, BesideIsNatural
    <2>2. a \in a..b
        BY <1>1
    <2> QED BY <1>2, <2>1, <2>2
<1>5. MostBeside(w, a, b) = Max(S)
    BY <1>2 DEF MostBeside
<1> HIDE DEF f, S
<1>6. Max(S) \in S /\ \A y \in S : y <= Max(S)
    BY <1>3, <1>4, GreatestNatural
<1> QED BY <1>2, <1>4, <1>5, <1>6

\* Of a chain of one operation it is what that operation has beside it.
LEMMA MostOfOne ==
    ASSUME NEW w, IsNetwork(w), NEW a \in DOMAIN w.ops
    PROVE  MostBeside(w, a, a) = NonNegativeOf(w.ops[a].nonLocal)
<1>1. a \in Nat
    BY NetworkFacts
<1>2. PICK i \in a..a : MostBeside(w, a, a) = BesideIn(w, a, i)
    BY <1>1, MostIsBesideOne
<1>3. i = a
    BY <1>1, <1>2
<1>4. BesideIn(w, a, a) = NonNegativeOf(w.ops[a].nonLocal)
    BY <1>1 DEF BesideIn
<1> QED BY <1>2, <1>3, <1>4

\* One operation more makes it the larger of what it was and what is beside
\* that operation.
LEMMA MostWithNext ==
    ASSUME NEW w, IsNetwork(w), NEW a \in DOMAIN w.ops, NEW b \in DOMAIN w.ops, a <= b,
           b + 1 \in DOMAIN w.ops, NEW m \in Nat,
           m = MostBeside(w, a, b) \/ m = BesideIn(w, a, b + 1),
           m >= MostBeside(w, a, b), m >= BesideIn(w, a, b + 1)
    PROVE  MostBeside(w, a, b + 1) = m
<1>1. a \in Nat /\ b \in Nat /\ a..(b + 1) = (a..b) \cup {b + 1} /\ a <= b + 1
    <2>1. a \in Nat /\ b \in Nat
        BY NetworkFacts
    <2> QED BY <2>1
<1>2. /\ \A i \in a..b : BesideIn(w, a, i) <= MostBeside(w, a, b)
      /\ MostBeside(w, a, b) \in Nat
    BY MostIsBesideOne
<1>3. PICK k \in a..b : MostBeside(w, a, b) = BesideIn(w, a, k)
    BY MostIsBesideOne
<1>4. PICK n : n = MostBeside(w, a, b + 1)
    OBVIOUS
<1>5. n \in Nat /\ \A i \in a..(b + 1) : BesideIn(w, a, i) <= n
    BY <1>1, <1>4, MostIsBesideOne
<1>6. PICK i \in a..(b + 1) : n = BesideIn(w, a, i)
    BY <1>1, <1>4, MostIsBesideOne
<1>7. n <= m
    <2>1. CASE i \in a..b
        BY <1>2, <1>5, <1>6, <2>1
    <2>2. CASE i = b + 1
        BY <1>5, <1>6, <2>2
    <2> QED BY <1>1, <1>6, <2>1, <2>2
<1>8. m <= n
    <2>1. MostBeside(w, a, b) <= n
        BY <1>1, <1>3, <1>5
    <2>2. BesideIn(w, a, b + 1) <= n
        BY <1>1, <1>5
    <2> QED BY <2>1, <2>2
<1> QED BY <1>4, <1>5, <1>7, <1>8

-----------------------------------------------------------------------------
(* The invariant.                                                          *)

Chains ==
    [start : Nat, end : Nat, buffers : Int, previous : Int, active : Nat, inactive : Nat,
     bestEnd : Nat, bestSize : Int, bestLocal : Int]

\* The variables; a chain is grown from the operation BuildCascades is at.
TypedCascades ==
    /\ network \in Networks
    /\ at \in 1..(Len(network.ops) + 1)
    /\ cost \in [Ops -> {"none", "fallback", "cascaded"}]
    /\ stagingPeak \in Int
    /\ chain \in Chains
    /\ building \in {"pick", "grow", "assign"}
    /\ building # "pick" => at \in Ops /\ chain.start = at

\* What is followed while a chain grows is what it takes.
ChainFollowed(w, c) ==
    /\ c.start \in DOMAIN w.ops /\ c.end \in DOMAIN w.ops /\ c.start <= c.end
    /\ c.buffers = Taken(w, c.start, c.end)
    /\ c.previous = IF c.end = c.start THEN 0 ELSE w.ops[c.end].buffer
    /\ Max({c.inactive, NonNegativeOf(w.ops[c.start].nonLocal), c.active})
         = MostBeside(w, c.start, c.end)

\* The size of operations a..b as a cascade, and what of it is its own.
IsExact(w, a, b, size, local) ==
    IF SpilledIn(w, a) THEN local = Taken(w, a, b) /\ size = local
    ELSE /\ local = w.ops[a].ifmStored + Taken(w, a, b) + w.ops[b].ofmStored
         /\ size = local + MostBeside(w, a, b)

\* A cascade is worth it: it fits if it spills, and otherwise takes less than
\* one of its operations by itself.
IsWorth(w, a, b, size, p) ==
    IF SpilledIn(w, a) THEN size <= p ELSE \E i \in a..b : size < UncascadedIn(w, i)

\* The best prefix so far is one operation, or a cascade as it would be recorded.
BestFollowed(w, c, p) ==
    /\ c.bestEnd \in c.start..c.end
    /\ c.bestEnd = c.start => c.bestSize = UncascadedIn(w, c.start)
    /\ c.bestEnd # c.start => /\ IsExact(w, c.start, c.bestEnd, c.bestSize, c.bestLocal)
                              /\ IsWorth(w, c.start, c.bestEnd, c.bestSize, p)

IsRecorded(w, c, p) ==
    /\ c.start \in DOMAIN w.ops /\ c.end \in DOMAIN w.ops /\ c.start < c.end
    /\ c.aliases = AliasesIn(w, c.start, c.end)
    /\ IsExact(w, c.start, c.end, c.size, c.local)
    /\ SpilledIn(w, c.start) \/ IsWorth(w, c.start, c.end, c.size, p)
    /\ c.size <= p

LeftBelow(w, costs, p) ==
    \A i \in DOMAIN w.ops :
        costs[i] = "fallback" /\ ~SpilledIn(w, i) => UncascadedIn(w, i) <= p

Decided ==
    /\ \A c \in cascades : IsRecorded(network, c, stagingPeak)
    /\ LeftBelow(network, cost, stagingPeak)

CascadeInv ==
    /\ TypedCascades
    /\ building # "pick" => ChainFollowed(network, chain) /\ BestFollowed(network, chain, stagingPeak)
    /\ Decided

\* The operators over the state are those over its network.
LEMMA OfNetwork ==
    /\ \A i : Spilled(i) = SpilledIn(network, i)
    /\ \A i : Uncascaded(i) = UncascadedIn(network, i)
    /\ \A a, b : Aliases(a, b) = AliasesIn(network, a, b)
    /\ \A n : NonNegative(n) = NonNegativeOf(n)
    /\ Ops = DOMAIN network.ops
<1>1. \A a, b : Aliases(a, b) = AliasesIn(network, a, b)
    BY DEF Aliases, AliasesIn, CanReuse, ReusesIn, Op
<1> QED BY <1>1 DEF Spilled, SpilledIn, Uncascaded, UncascadedIn, NonNegative, NonNegativeOf, Ops, Op

LEMMA StartsCorrect == ASSUME BuilderInit PROVE CascadeInv
<1>1. PICK w : w = network
    OBVIOUS
<1>2. IsNetwork(w) /\ w \in Networks
    BY <1>1, NetworksAssumption DEF BuilderInit
<1>3. Len(w.ops) \in Nat /\ w.limit \in Int
    BY <1>2 DEF IsNetwork
<1>4. NoChain \in Chains
    BY DEF NoChain, Chains
<1>5. TypedCascades
    BY <1>1, <1>2, <1>3, <1>4 DEF TypedCascades, BuilderInit
<1>6. LeftBelow(network, cost, stagingPeak)
    BY DEF LeftBelow, BuilderInit, Ops
<1>7. cascades = {} /\ building = "pick"
    BY DEF BuilderInit
<1> QED BY <1>5, <1>6, <1>7 DEF CascadeInv, Decided

\* The peak never falls, and covers what is resident (peakStagingUsage).
LEMMA PeakRises ==
    ASSUME stagingPeak \in Int, NEW i, NEW bytes \in Int
    PROVE  /\ RaisedPeak(i, bytes) \in Int /\ stagingPeak <= RaisedPeak(i, bytes)
           /\ ~SpilledIn(network, i) => bytes <= RaisedPeak(i, bytes)
<1>1. Max({stagingPeak, bytes}) = IF stagingPeak <= bytes THEN bytes ELSE stagingPeak
    BY MaxOfTwo
<1>2. Spilled(i) = SpilledIn(network, i)
    BY OfNetwork
<1> QED BY <1>1, <1>2 DEF RaisedPeak

\* What has been recorded stays so under a higher peak.
LEMMA RecordsStay ==
    ASSUME NEW w, NEW c, NEW p, NEW q \in Int, p <= q, p \in Int, IsRecorded(w, c, p), c.size \in Int
    PROVE  IsRecorded(w, c, q)
BY DEF IsRecorded, IsWorth

\* Sizes are integers.
LEMMA UsagesAreIntegers ==
    ASSUME NEW w, IsNetwork(w)
    PROVE  /\ \A i \in DOMAIN w.ops : UncascadedIn(w, i) \in Int
           /\ \A c, p : IsRecorded(w, c, p) => c.size \in Int
<1>1. ASSUME NEW i \in DOMAIN w.ops PROVE UncascadedIn(w, i) \in Int
    <2>1. w.ops[i].local \in Int /\ w.ops[i].nonLocal \in Int
        BY NetworkFacts
    <2> QED BY <2>1 DEF UncascadedIn
<1>2. ASSUME NEW c, NEW p, IsRecorded(w, c, p) PROVE c.size \in Int
    <2>1. PICK a, b : a = c.start /\ b = c.end
        OBVIOUS
    <2>2. a \in DOMAIN w.ops /\ b \in DOMAIN w.ops /\ a < b /\ IsExact(w, a, b, c.size, c.local)
        BY <1>2, <2>1 DEF IsRecorded
    <2>3. a \in Nat /\ b \in Nat /\ w.ops[a].ifmStored \in Nat /\ w.ops[b].ofmStored \in Nat
        BY <2>2, NetworkFacts
    <2>4. Taken(w, a, b) \in Nat
        BY <2>2, TakenIsNatural
    <2>5. MostBeside(w, a, b) \in Nat
        BY <2>2, <2>3, MostIsBesideOne
    <2> QED BY <2>2, <2>3, <2>4, <2>5 DEF IsExact
<1> QED BY <1>1, <1>2

\* What has been decided stays true when the peak rises.
LEMMA DecidedUnderHigherPeak ==
    ASSUME CascadeInv, NEW q \in Int, stagingPeak <= q
    PROVE  /\ \A c \in cascades : IsRecorded(network, c, q)
           /\ LeftBelow(network, cost, q)
<1>1. PICK w : w = network
    OBVIOUS
<1>2. IsNetwork(w) /\ stagingPeak \in Int
    BY <1>1, NetworksAssumption DEF CascadeInv, TypedCascades
<1>3. ASSUME NEW c \in cascades PROVE IsRecorded(w, c, q)
    <2>1. IsRecorded(w, c, stagingPeak)
        BY <1>1 DEF CascadeInv, Decided
    <2>2. c.size \in Int
        BY <1>2, <2>1, UsagesAreIntegers
    <2> QED BY <1>2, <2>1, <2>2, RecordsStay
<1>4. LeftBelow(w, cost, q)
    <2>1. LeftBelow(w, cost, stagingPeak)
        BY <1>1 DEF CascadeInv, Decided
    <2>2. \A i \in DOMAIN w.ops : UncascadedIn(w, i) \in Int
        BY <1>2, UsagesAreIntegers
    <2> QED BY <1>2, <2>1, <2>2 DEF LeftBelow
<1> QED BY <1>1, <1>3, <1>4

-----------------------------------------------------------------------------
(* Every step keeps it.                                                    *)

LEMMA PickStep ==
    ASSUME CascadeInv, Skip \/ NotCascaded
    PROVE  CascadeInv'
<1>1. /\ TypedCascades /\ network' = network /\ chain' = chain /\ building' = building /\ building = "pick"
      /\ cascades' = cascades /\ at' = at + 1 /\ at \in Ops
    BY DEF CascadeInv, Skip, NotCascaded
<1>2. IsNetwork(network) /\ Ops = 1..Len(network.ops) /\ Len(network.ops) \in Nat
    BY <1>1, NetworksAssumption DEF TypedCascades, IsNetwork, Ops
<1>3. at' \in 1..(Len(network.ops) + 1)
    BY <1>1, <1>2
<1>4. CASE Skip
    <2>1. cost' = cost /\ stagingPeak' = stagingPeak
        BY <1>4 DEF Skip
    <2>2. Decided'
        BY <1>1, <2>1 DEF CascadeInv, Decided
    <2> QED BY <1>1, <1>3, <2>1, <2>2 DEF CascadeInv, TypedCascades, Ops
<1>5. CASE NotCascaded
    <2>1. /\ cost' = [cost EXCEPT ![at] = "fallback"]
          /\ stagingPeak' = RaisedPeak(at, Uncascaded(at))
        BY <1>5 DEF NotCascaded
    <2>2. PICK q : q = stagingPeak'
        OBVIOUS
    <2>3. UncascadedIn(network, at) \in Int /\ UncascadedIn(network, at) = Uncascaded(at)
        BY <1>1, <1>2, UsagesAreIntegers, OfNetwork
    <2>4. /\ q \in Int /\ stagingPeak <= q
          /\ ~SpilledIn(network, at) => UncascadedIn(network, at) <= q
        <3>1. stagingPeak \in Int
            BY <1>1 DEF TypedCascades
        <3> QED BY <2>1, <2>2, <2>3, <3>1, PeakRises
    <2>5. (\A c \in cascades : IsRecorded(network, c, q)) /\ LeftBelow(network, cost, q)
        BY <2>4, DecidedUnderHigherPeak
    <2>6. LeftBelow(network, cost', q)
        BY <1>1, <2>1, <2>4, <2>5 DEF LeftBelow, TypedCascades, Ops
    <2>7. Decided'
        BY <1>1, <2>2, <2>5, <2>6 DEF Decided
    <2>8. cost' \in [Ops -> {"none", "fallback", "cascaded"}]
        BY <1>1, <2>1 DEF TypedCascades
    <2> QED BY <1>1, <1>3, <2>2, <2>4, <2>7, <2>8 DEF CascadeInv, TypedCascades, Ops
<1> QED BY <1>4, <1>5

\* A chain begins with the usage of its first operation.
LEMMA ProposeStep == ASSUME CascadeInv, Propose PROVE CascadeInv'
<1>1. /\ TypedCascades /\ network' = network /\ at' = at /\ cost' = cost /\ stagingPeak' = stagingPeak
      /\ cascades' = cascades /\ building' = "grow" /\ at \in Ops
      /\ chain' = [NoChain EXCEPT
                      !.start = at, !.end = at, !.bestEnd = at,
                      !.buffers = Op(at).weights,
                      !.bestSize = Uncascaded(at),
                      !.inactive = IF IsInRange(at, at) THEN 0 ELSE NonNegative(Op(at).nonLocal)]
    BY DEF CascadeInv, Propose
<1>2. PICK w, a, c : w = network /\ a = at /\ c = chain'
    OBVIOUS
<1>3. IsNetwork(w) /\ a \in DOMAIN w.ops
    BY <1>1, <1>2, NetworksAssumption DEF TypedCascades, Ops
<1>4. PICK beside : beside = NonNegativeOf(w.ops[a].nonLocal)
    OBVIOUS
<1>5. /\ a \in Nat /\ w.ops[a].weights \in Nat /\ beside \in Nat
      /\ UncascadedIn(w, a) \in Int
    BY <1>3, <1>4, NetworkFacts, NonNegativeIsNatural, UsagesAreIntegers
<1>6. /\ c.start = a /\ c.end = a /\ c.bestEnd = a /\ c.buffers = w.ops[a].weights
      /\ c.previous = 0 /\ c.active = 0 /\ c.bestLocal = 0
      /\ c.bestSize = UncascadedIn(w, a) /\ (c.inactive = 0 \/ c.inactive = beside)
      /\ c = [start |-> c.start, end |-> c.end, buffers |-> c.buffers, previous |-> c.previous,
              active |-> c.active, inactive |-> c.inactive, bestEnd |-> c.bestEnd,
              bestSize |-> c.bestSize, bestLocal |-> c.bestLocal]
    BY <1>1, <1>2, <1>4, OfNetwork DEF NoChain, Op
<1>7. c \in Chains
    BY <1>5, <1>6 DEF Chains
<1>8. ChainFollowed(w, c)
    <2>1. Taken(w, a, a) = w.ops[a].weights
        BY <1>3, TakenByOne
    <2>2. MostBeside(w, a, a) = beside
        BY <1>3, <1>4, MostOfOne
    <2>3. Max({c.inactive, beside, c.active}) = beside
        <3>1. PICK m : m = Max({c.inactive, beside, c.active})
            OBVIOUS
        <3>2. m \in {c.inactive, beside, c.active} /\ beside <= m
            BY <1>5, <1>6, <3>1, MaxOfThree
        <3> QED BY <1>5, <1>6, <3>1, <3>2
    <2> QED BY <1>3, <1>4, <1>5, <1>6, <2>1, <2>2, <2>3 DEF ChainFollowed
<1>9. BestFollowed(w, c, stagingPeak)
    BY <1>5, <1>6 DEF BestFollowed
<1>10. Decided'
    BY <1>1 DEF CascadeInv, Decided
<1> QED BY <1>1, <1>2, <1>6, <1>7, <1>8, <1>9, <1>10 DEF CascadeInv, TypedCascades, Ops

\* What an operation adds to a chain it follows.
LEMMA AppendFollows ==
    ASSUME CascadeInv, building = "grow", Follows(chain.end, chain.end + 1),
           NEW c, c = Appended(chain.end + 1)
    PROVE  /\ c \in Chains /\ ChainFollowed(network, c)
           /\ c.start = chain.start /\ c.end = chain.end + 1
           /\ c.bestEnd = chain.bestEnd /\ c.bestSize = chain.bestSize /\ c.bestLocal = chain.bestLocal
<1>1. PICK w, a, b, j : w = network /\ a = chain.start /\ b = chain.end /\ j = b + 1
    OBVIOUS
<1>2. IsNetwork(w) /\ chain \in Chains /\ ChainFollowed(w, chain)
    BY <1>1, NetworksAssumption DEF CascadeInv, TypedCascades
<1>3. a \in DOMAIN w.ops /\ b \in DOMAIN w.ops /\ a <= b /\ j \in DOMAIN w.ops /\ a \in Nat /\ b \in Nat
    BY <1>1, <1>2 DEF ChainFollowed, Follows, Ops, Chains
<1>4. PICK beside : beside = BesideIn(w, a, j)
    OBVIOUS
<1>5. /\ beside \in Nat /\ w.ops[j].weights \in Nat /\ w.ops[j].buffer \in Nat
      /\ w.ops[a].rangeSize \in Nat /\ w.ops[a].rangeEnd \in Int /\ w.ops[a].fusedEnd \in Int
    <2>1. beside \in Nat
        BY <1>2, <1>3, <1>4, BesideIsNatural
    <2> QED BY <1>2, <1>3, <2>1, NetworkFacts
<1>6. PICK least : least = NonNegativeOf(w.ops[a].nonLocal)
    OBVIOUS
<1>7. least \in Nat
    BY <1>2, <1>3, <1>6, NetworkFacts, NonNegativeIsNatural
<1>8. chain.previous = IF b = a THEN 0 ELSE w.ops[b].buffer
    BY <1>1, <1>2 DEF ChainFollowed
<1>9. CanReuse(b, chain.previous, Op(j).buffer) = ReusesIn(w, a, b)
    BY <1>1, <1>8 DEF CanReuse, ReusesIn, Op
<1>10. IF IsInRange(a, j) THEN AdjustedNonLocal(a, j) = beside ELSE NonNegative(Op(j).nonLocal) = beside
    <2>1. j > a
        BY <1>1, <1>3
    <2>2. NonNegative(Op(j).nonLocal) = NonNegativeOf(w.ops[j].nonLocal)
        BY <1>1, OfNetwork DEF Op
    <2>3. CASE IsInRange(a, j)
        <3>1. w.ops[a].rangeSize > 0 /\ j <= w.ops[a].rangeEnd
            BY <1>1, <2>3 DEF IsInRange, Op
        <3>2. CASE j <= w.ops[a].fusedEnd
            <4>1. AdjustedNonLocal(a, j) = NonNegativeOf(w.ops[j].nonLocal)
                BY <1>1, <2>2, <3>2 DEF AdjustedNonLocal, Op
            <4>2. ~(j > w.ops[a].fusedEnd)
                BY <1>1, <1>3, <1>5, <3>2
            <4> QED BY <1>4, <2>3, <4>1, <4>2 DEF BesideIn
        <3>3. CASE ~(j <= w.ops[a].fusedEnd)
            <4>1. AdjustedNonLocal(a, j)
                    = NonNegativeOf(NonNegativeOf(w.ops[j].nonLocal) - w.ops[a].rangeSize)
                BY <1>1, <2>2, <3>3, OfNetwork DEF AdjustedNonLocal, Op
            <4>2. j > w.ops[a].fusedEnd
                BY <1>1, <1>3, <1>5, <3>3
            <4> QED BY <1>4, <2>1, <2>3, <3>1, <4>1, <4>2 DEF BesideIn
        <3> QED BY <3>2, <3>3
    <2>4. CASE ~IsInRange(a, j)
        <3>1. ~(w.ops[a].rangeSize > 0 /\ j <= w.ops[a].rangeEnd)
            BY <1>1, <2>4 DEF IsInRange, Op
        <3> QED BY <1>4, <2>2, <2>4, <3>1 DEF BesideIn
    <2> QED BY <2>3, <2>4
<1>11. PICK taken, active, inactive :
          /\ taken = chain.buffers + w.ops[j].weights
                + IF CanReuse(j - 1, chain.previous, Op(j).buffer) THEN 0 ELSE Op(j).buffer
          /\ active = IF IsInRange(a, j) THEN Max({chain.active, AdjustedNonLocal(a, j)}) ELSE chain.active
          /\ inactive = IF IsInRange(a, j) THEN chain.inactive
                        ELSE Max({chain.inactive, NonNegative(Op(j).nonLocal)})
    OBVIOUS
<1>12. /\ c.start = a /\ c.end = j /\ c.buffers = taken /\ c.previous = w.ops[j].buffer
       /\ c.active = active /\ c.inactive = inactive
       /\ c.bestEnd = chain.bestEnd /\ c.bestSize = chain.bestSize /\ c.bestLocal = chain.bestLocal
       /\ c = [start |-> c.start, end |-> c.end, buffers |-> c.buffers, previous |-> c.previous,
               active |-> c.active, inactive |-> c.inactive, bestEnd |-> c.bestEnd,
               bestSize |-> c.bestSize, bestLocal |-> c.bestLocal]
    <2>1. c = [chain EXCEPT !.end = j, !.buffers = taken, !.previous = w.ops[j].buffer,
                            !.active = active, !.inactive = inactive]
        BY <1>1, <1>11 DEF Appended, PreviousAfter, Op
    <2> QED BY <1>1, <1>2, <2>1 DEF Chains
<1>13. /\ chain.active \in Nat /\ chain.inactive \in Nat
       /\ \/ c.active = Max({chain.active, beside}) /\ c.inactive = chain.inactive
          \/ c.inactive = Max({chain.inactive, beside}) /\ c.active = chain.active
    BY <1>2, <1>10, <1>11, <1>12 DEF Chains
<1>14. c.active \in Nat /\ c.inactive \in Nat
    <2>1. \A x \in Nat : Max({x, beside}) \in Nat
        <3>1. TAKE x \in Nat
        <3>2. Max({x, beside}) = IF x <= beside THEN beside ELSE x
            BY <1>5, MaxOfTwo
        <3> QED BY <1>5, <3>2
    <2> QED BY <1>13, <2>1
<1>15. c.buffers = Taken(w, a, j)
    <2>1. chain.buffers = Taken(w, a, b)
        BY <1>1, <1>2 DEF ChainFollowed
    <2>2. taken = chain.buffers + w.ops[j].weights
                    + (IF ReusesIn(w, a, b) THEN 0 ELSE w.ops[j].buffer)
        BY <1>1, <1>3, <1>9, <1>11 DEF Op
    <2> QED BY <1>1, <1>2, <1>3, <1>12, <2>1, <2>2, TakenByNext
<1>16. Max({c.inactive, least, c.active}) = MostBeside(w, a, j)
    <2>1. PICK m, n : m = Max({c.inactive, least, c.active}) /\ n = Max({chain.inactive, least, chain.active})
        OBVIOUS
    <2>2. n = MostBeside(w, a, b)
        BY <1>1, <1>2, <1>6, <2>1 DEF ChainFollowed
    <2>3. m \in {c.inactive, least, c.active} /\ c.inactive <= m /\ least <= m /\ c.active <= m
        BY <1>7, <1>14, <2>1, MaxOfThree
    <2>4. /\ n \in {chain.inactive, least, chain.active}
          /\ chain.inactive <= n /\ least <= n /\ chain.active <= n
        BY <1>7, <1>13, <2>1, MaxOfThree
    <2>5. m \in Nat /\ (m = n \/ m = beside) /\ m >= n /\ m >= beside
        <3>1. \A x \in Nat : Max({x, beside}) = IF x <= beside THEN beside ELSE x
            BY <1>5, MaxOfTwo
        <3> QED BY <1>5, <1>7, <1>13, <1>14, <2>3, <2>4, <3>1
    <2>6. MostBeside(w, a, j) = m
        BY <1>1, <1>2, <1>3, <1>4, <2>2, <2>5, MostWithNext
    <2> QED BY <2>1, <2>6
<1>17. ChainFollowed(w, c)
    <2>1. j # a /\ a <= j
        BY <1>1, <1>3
    <2> QED BY <1>3, <1>6, <1>12, <1>15, <1>16, <2>1 DEF ChainFollowed
<1>18. c \in Chains
    <2>1. Taken(w, a, j) \in Nat
        BY <1>2, <1>3, TakenIsNatural
    <2>2. j \in Nat
        BY <1>1, <1>3
    <2> QED BY <1>2, <1>3, <1>5, <1>12, <1>14, <1>15, <2>1, <2>2 DEF Chains
<1> QED BY <1>1, <1>12, <1>17, <1>18

\* The best prefix stays what it was while the chain grows past it ...
LEMMA BestStays ==
    ASSUME NEW w, NEW c \in Chains, NEW d \in Chains, NEW p, BestFollowed(w, c, p),
           d.start = c.start, d.end = c.end + 1,
           d.bestEnd = c.bestEnd, d.bestSize = c.bestSize, d.bestLocal = c.bestLocal
    PROVE  BestFollowed(w, d, p)
<1>1. c.start \in Nat /\ c.end \in Nat
    BY DEF Chains
<1>2. d.bestEnd \in d.start..d.end
    BY <1>1 DEF BestFollowed
<1> QED BY <1>2 DEF BestFollowed

\* ... or the whole chain becomes it.
LEMMA BestTaken ==
    ASSUME NEW w, NEW c \in Chains, NEW p, NEW size \in Int, NEW local \in Int,
           ChainFollowed(w, c), c.start # c.end,
           IsExact(w, c.start, c.end, size, local), IsWorth(w, c.start, c.end, size, p),
           NEW d, d = WithBest(c, size, local)
    PROVE  d \in Chains /\ d.start = c.start /\ ChainFollowed(w, d) /\ BestFollowed(w, d, p)
<1>1. d \in Chains
    BY DEF WithBest, Chains
<1>2. /\ d.start = c.start /\ d.end = c.end /\ d.buffers = c.buffers /\ d.previous = c.previous
      /\ d.active = c.active /\ d.inactive = c.inactive
      /\ d.bestEnd = c.end /\ d.bestSize = size /\ d.bestLocal = local
    BY DEF WithBest, Chains
<1>3. ChainFollowed(w, d)
    BY <1>2 DEF ChainFollowed
<1>4. d.bestEnd \in d.start..d.end
    BY <1>2 DEF ChainFollowed, Chains
<1> QED BY <1>1, <1>2, <1>3, <1>4 DEF BestFollowed

LEMMA GrowSpilledStep == ASSUME CascadeInv, GrowSpilled PROVE CascadeInv'
<1>1. PICK w, p : w = network /\ p = stagingPeak
    OBVIOUS
<1>2. /\ building = "grow" /\ Follows(chain.end, chain.end + 1) /\ SpilledIn(w, chain.start)
      /\ network' = network /\ at' = at /\ cost' = cost /\ stagingPeak' = stagingPeak /\ cascades' = cascades
    BY <1>1, OfNetwork DEF GrowSpilled
<1>3. PICK c : c = Appended(chain.end + 1)
    OBVIOUS
<1>4. /\ TypedCascades /\ IsNetwork(w) /\ chain \in Chains /\ chain.start \in Nat /\ chain.end \in Nat
      /\ ChainFollowed(w, chain) /\ BestFollowed(w, chain, p) /\ p \in Int
    BY <1>1, <1>2, NetworksAssumption DEF CascadeInv, TypedCascades, Chains
<1>5. /\ c \in Chains /\ ChainFollowed(w, c) /\ c.start = chain.start /\ c.end = chain.end + 1
      /\ c.bestEnd = chain.bestEnd /\ c.bestSize = chain.bestSize /\ c.bestLocal = chain.bestLocal
    BY <1>1, <1>2, <1>3, AppendFollows
<1>6. \/ chain' = c /\ building' = "assign"
      \/ chain' = WithBest(c, c.buffers, c.buffers) /\ building' = building /\ ~BuffersExceed(c.buffers)
    BY <1>3 DEF GrowSpilled
<1>7. chain' \in Chains /\ chain'.start = chain.start /\ ChainFollowed(w, chain') /\ BestFollowed(w, chain', p)
    <2>1. CASE chain' = c
        <3>1. BestFollowed(w, c, p)
            BY <1>4, <1>5, BestStays
        <3> QED BY <1>5, <2>1, <3>1
    <2>2. CASE chain' = WithBest(c, c.buffers, c.buffers) /\ ~BuffersExceed(c.buffers)
        <3>1. PICK d : d = chain'
            OBVIOUS
        <3>2. c.buffers \in Int /\ c.buffers = Taken(w, c.start, c.end) /\ c.buffers <= p
            BY <1>1, <1>4, <1>5, <2>2 DEF ChainFollowed, BuffersExceed, Chains
        <3>3. c.start # c.end
            BY <1>4, <1>5 DEF ChainFollowed
        <3>4. IsExact(w, c.start, c.end, c.buffers, c.buffers) /\ IsWorth(w, c.start, c.end, c.buffers, p)
            BY <1>2, <1>5, <3>2 DEF IsExact, IsWorth
        <3>5. d \in Chains /\ d.start = c.start /\ ChainFollowed(w, d) /\ BestFollowed(w, d, p)
            BY <1>5, <2>2, <3>1, <3>2, <3>3, <3>4, BestTaken
        <3> QED BY <1>5, <3>1, <3>5
    <2> QED BY <1>6, <2>1, <2>2
<1>8. TypedCascades'
    BY <1>2, <1>4, <1>6, <1>7 DEF TypedCascades, Ops
<1>9. Decided'
    BY <1>2 DEF CascadeInv, Decided
<1> QED BY <1>1, <1>2, <1>7, <1>8, <1>9 DEF CascadeInv

LEMMA GrowResidentStep == ASSUME CascadeInv, GrowResident PROVE CascadeInv'
<1>1. PICK w, p, j : w = network /\ p = stagingPeak /\ j = chain.end + 1
    OBVIOUS
<1>2. /\ building = "grow" /\ Follows(chain.end, chain.end + 1) /\ ~SpilledIn(w, chain.start)
      /\ network' = network /\ at' = at /\ cost' = cost /\ stagingPeak' = stagingPeak /\ cascades' = cascades
      /\ building' \in {"assign", "grow"}
    BY <1>1, OfNetwork DEF GrowResident
<1>3. PICK c : c = Appended(chain.end + 1)
    OBVIOUS
<1>4. /\ TypedCascades /\ IsNetwork(w) /\ chain \in Chains /\ chain.start \in Nat /\ chain.end \in Nat
      /\ ChainFollowed(w, chain) /\ BestFollowed(w, chain, p)
    BY <1>1, <1>2, NetworksAssumption DEF CascadeInv, TypedCascades, Chains
<1>5. /\ c \in Chains /\ ChainFollowed(w, c) /\ c.start = chain.start /\ c.end = chain.end + 1
      /\ c.bestEnd = chain.bestEnd /\ c.bestSize = chain.bestSize /\ c.bestLocal = chain.bestLocal
    BY <1>1, <1>2, <1>3, AppendFollows
<1>6. PICK local, size :
          /\ local = w.ops[c.start].ifmStored + c.buffers + w.ops[c.end].ofmStored
          /\ size = local + SegmentNonLocal(c)
    OBVIOUS
<1>7. \/ chain' = c
      \/ chain' = WithBest(c, size, local) /\ IsBest(size, j)
    BY <1>1, <1>3, <1>5, <1>6 DEF GrowResident, Op
<1>8. chain' \in Chains /\ chain'.start = chain.start /\ ChainFollowed(w, chain') /\ BestFollowed(w, chain', p)
    <2>1. CASE chain' = c
        <3>1. BestFollowed(w, c, p)
            BY <1>4, <1>5, BestStays
        <3> QED BY <1>5, <2>1, <3>1
    <2>2. CASE chain' = WithBest(c, size, local) /\ IsBest(size, j)
        <3>1. PICK d, a, b : d = chain' /\ a = c.start /\ b = c.end
            OBVIOUS
        <3>2. /\ a \in DOMAIN w.ops /\ b \in DOMAIN w.ops /\ a < b /\ a \in Nat /\ b \in Nat
              /\ c.buffers = Taken(w, a, b) /\ SegmentNonLocal(c) = MostBeside(w, a, b)
            <4>1. SegmentNonLocal(c) = Max({c.inactive, NonNegativeOf(w.ops[c.start].nonLocal), c.active})
                BY <1>1, OfNetwork DEF SegmentNonLocal, Op
            <4>2. c.start < c.end
                BY <1>4, <1>5 DEF ChainFollowed
            <4> QED BY <1>5, <3>1, <4>1, <4>2 DEF ChainFollowed, Chains
        <3>3. Taken(w, a, b) \in Nat /\ MostBeside(w, a, b) \in Nat
            BY <1>4, <3>2, TakenIsNatural, MostIsBesideOne
        <3>4. local \in Int /\ size \in Int
            <4>1. w.ops[a].ifmStored \in Nat /\ w.ops[b].ofmStored \in Nat
                BY <1>4, <3>2, NetworkFacts
            <4> QED BY <1>6, <3>1, <3>2, <3>3, <4>1
        <3>5. IsExact(w, a, b, size, local)
            BY <1>2, <1>5, <1>6, <3>1, <3>2 DEF IsExact
        <3>6. \E i \in a..b : size < UncascadedIn(w, i)
            <4>1. CASE size < Uncascaded(j)
                <5>1. b \in a..b /\ j = b
                    BY <1>1, <1>5, <3>1, <3>2
                <5> QED BY <1>1, <4>1, <5>1, OfNetwork
            <4>2. CASE size < chain.bestSize /\ chain.bestEnd = chain.start
                <5>1. a \in a..b
                    BY <3>2
                <5>2. chain.bestSize = UncascadedIn(w, a)
                    BY <1>4, <1>5, <3>1, <4>2 DEF BestFollowed
                <5> QED BY <4>2, <5>1, <5>2
            <4>3. CASE size < chain.bestSize /\ chain.bestEnd # chain.start
                <5>1. PICK i \in a..chain.bestEnd : chain.bestSize < UncascadedIn(w, i)
                    BY <1>2, <1>4, <1>5, <3>1, <4>3 DEF BestFollowed, IsWorth
                <5>2. chain.bestEnd \in a..chain.end
                    BY <1>4, <1>5, <3>1 DEF BestFollowed
                <5>3. i \in a..b
                    BY <1>4, <1>5, <3>1, <3>2, <5>1, <5>2
                <5>4. i \in DOMAIN w.ops
                    BY <1>4, <3>2, <5>3, NetworkFacts
                <5>5. UncascadedIn(w, i) \in Int /\ chain.bestSize \in Int
                    BY <1>4, <5>4, UsagesAreIntegers DEF Chains
                <5> QED BY <3>4, <4>3, <5>1, <5>3, <5>5
            <4> QED BY <2>2, <4>1, <4>2, <4>3 DEF IsBest
        <3>7. IsWorth(w, a, b, size, p)
            BY <1>2, <1>5, <3>1, <3>6 DEF IsWorth
        <3>8. d \in Chains /\ d.start = a /\ ChainFollowed(w, d) /\ BestFollowed(w, d, p)
            <4>1. c.start # c.end
                BY <3>1, <3>2
            <4> QED BY <1>5, <2>2, <3>1, <3>4, <3>5, <3>7, <4>1, BestTaken
        <3> QED BY <1>5, <3>1, <3>8
    <2> QED BY <1>7, <2>1, <2>2
<1>9. TypedCascades'
    BY <1>2, <1>4, <1>8 DEF TypedCascades, Ops
<1>10. Decided'
    BY <1>2 DEF CascadeInv, Decided
<1> QED BY <1>1, <1>2, <1>8, <1>9, <1>10 DEF CascadeInv

LEMMA ChainEndsStep == ASSUME CascadeInv, ChainEnds PROVE CascadeInv'
<1>1. /\ network' = network /\ at' = at /\ cost' = cost /\ stagingPeak' = stagingPeak /\ chain' = chain
      /\ cascades' = cascades /\ building = "grow" /\ building' = "assign"
    BY DEF ChainEnds
<1>2. TypedCascades'
    BY <1>1 DEF CascadeInv, TypedCascades, Ops
<1> QED BY <1>1, <1>2 DEF CascadeInv, Decided

\* What is recorded is what was followed, and the peak covers it from then on.
LEMMA AssignCascadeStep == ASSUME CascadeInv, AssignCascade PROVE CascadeInv'
<1>1. PICK w, p, q, a, b : w = network /\ p = stagingPeak /\ q = stagingPeak' /\ a = chain.start /\ b = chain.bestEnd
    OBVIOUS
<1>2. PICK new : new = [start |-> a, end |-> b, size |-> chain.bestSize,
                        local |-> chain.bestLocal, aliases |-> Aliases(a, b)]
    OBVIOUS
<1>3. /\ network' = network /\ at' = at /\ chain' = chain /\ building = "assign" /\ building' = "pick" /\ b > a
      /\ cost' = [i \in Ops |-> IF i \in a..b THEN "cascaded" ELSE cost[i]]
      /\ cascades' = cascades \cup {new} /\ q = RaisedPeak(a, chain.bestSize)
    BY <1>1, <1>2 DEF AssignCascade
<1>4. /\ TypedCascades /\ IsNetwork(w) /\ chain \in Chains
      /\ ChainFollowed(w, chain) /\ BestFollowed(w, chain, p) /\ p \in Int
    BY <1>1, <1>3, NetworksAssumption DEF CascadeInv, TypedCascades
<1>5. a \in Nat /\ b \in Nat /\ chain.bestSize \in Int
    BY <1>1, <1>4 DEF Chains
<1>6. a \in DOMAIN w.ops /\ b \in DOMAIN w.ops
    <2>1. b \in a..chain.end /\ a \in DOMAIN w.ops /\ chain.end \in DOMAIN w.ops
        BY <1>1, <1>4 DEF ChainFollowed, BestFollowed
    <2> QED BY <1>4, <2>1, NetworkFacts
<1>7. q \in Int /\ p <= q /\ (~SpilledIn(w, a) => chain.bestSize <= q)
    BY <1>1, <1>3, <1>4, <1>5, PeakRises
<1>8. IsExact(w, a, b, chain.bestSize, chain.bestLocal) /\ IsWorth(w, a, b, chain.bestSize, p)
    BY <1>1, <1>3, <1>4, <1>5 DEF BestFollowed
<1>9. chain.bestSize <= q
    BY <1>4, <1>5, <1>7, <1>8 DEF IsWorth
<1>10. IsRecorded(w, new, q)
    <2>1. new.aliases = AliasesIn(w, a, b)
        BY <1>1, <1>2, OfNetwork
    <2>2. new.start = a /\ new.end = b /\ new.size = chain.bestSize /\ new.local = chain.bestLocal
        BY <1>2
    <2>3. SpilledIn(w, a) \/ IsWorth(w, a, b, chain.bestSize, q)
        BY <1>8 DEF IsWorth
    <2> QED BY <1>3, <1>5, <1>6, <1>8, <1>9, <2>1, <2>2, <2>3 DEF IsRecorded
<1>11. (\A c \in cascades : IsRecorded(network, c, q)) /\ LeftBelow(network, cost, q)
    BY <1>1, <1>7, DecidedUnderHigherPeak
<1>12. LeftBelow(network, cost', q)
    BY <1>3, <1>11 DEF LeftBelow, Ops
<1>13. Decided'
    BY <1>1, <1>3, <1>10, <1>11, <1>12 DEF Decided
<1>14. TypedCascades'
    <2>1. cost' \in [Ops -> {"none", "fallback", "cascaded"}]
        BY <1>3, <1>4 DEF TypedCascades
    <2> QED BY <1>1, <1>3, <1>4, <1>7, <2>1 DEF TypedCascades, Ops
<1> QED BY <1>3, <1>13, <1>14 DEF CascadeInv

LEMMA AssignFallbackStep == ASSUME CascadeInv, AssignFallback PROVE CascadeInv'
<1>1. PICK w, p, q, a : w = network /\ p = stagingPeak /\ q = stagingPeak' /\ a = chain.start
    OBVIOUS
<1>2. /\ network' = network /\ at' = at /\ chain' = chain /\ building = "assign" /\ building' = "pick"
      /\ cost' = [cost EXCEPT ![a] = "fallback"]
      /\ cascades' = cascades /\ q = RaisedPeak(a, UncascadedIn(w, a))
    BY <1>1, OfNetwork DEF AssignFallback
<1>3. TypedCascades /\ IsNetwork(w) /\ p \in Int /\ a \in DOMAIN w.ops
    BY <1>1, <1>2, NetworksAssumption DEF CascadeInv, TypedCascades, ChainFollowed
<1>4. UncascadedIn(w, a) \in Int
    BY <1>3, UsagesAreIntegers
<1>5. q \in Int /\ p <= q /\ (~SpilledIn(w, a) => UncascadedIn(w, a) <= q)
    BY <1>1, <1>2, <1>3, <1>4, PeakRises
<1>6. (\A c \in cascades : IsRecorded(network, c, q)) /\ LeftBelow(network, cost, q)
    BY <1>1, <1>5, DecidedUnderHigherPeak
<1>7. LeftBelow(network, cost', q)
    BY <1>1, <1>2, <1>3, <1>5, <1>6 DEF LeftBelow, TypedCascades, Ops
<1>8. Decided'
    BY <1>1, <1>2, <1>6, <1>7 DEF Decided
<1>9. TypedCascades'
    <2>1. cost' \in [Ops -> {"none", "fallback", "cascaded"}]
        BY <1>2, <1>3 DEF TypedCascades
    <2> QED BY <1>1, <1>2, <1>3, <1>5, <2>1 DEF TypedCascades, Ops
<1> QED BY <1>2, <1>8, <1>9 DEF CascadeInv

\* What is followed while cascades are grown and taken is exact, whatever the
\* network (CascadeBuilder::BuildCascades).
THEOREM CascadesCorrect == BuilderSpec => []CascadeInv
<1>1. BuilderInit => CascadeInv
    BY StartsCorrect
<1>2. CascadeInv /\ [BuilderNext]_builderVars => CascadeInv'
    <2> SUFFICES ASSUME CascadeInv, [BuilderNext]_builderVars PROVE CascadeInv'
        OBVIOUS
    <2>1. CASE Skip \/ NotCascaded
        BY <2>1, PickStep
    <2>2. CASE Propose
        BY <2>2, ProposeStep
    <2>3. CASE GrowSpilled
        BY <2>3, GrowSpilledStep
    <2>4. CASE GrowResident
        BY <2>4, GrowResidentStep
    <2>5. CASE ChainEnds
        BY <2>5, ChainEndsStep
    <2>6. CASE AssignCascade
        BY <2>6, AssignCascadeStep
    <2>7. CASE AssignFallback
        BY <2>7, AssignFallbackStep
    <2>8. CASE UNCHANGED builderVars
        BY <2>8 DEF builderVars, CascadeInv, TypedCascades, Decided, Ops
    <2> QED BY <2>1, <2>2, <2>3, <2>4, <2>5, <2>6, <2>7, <2>8 DEF BuilderNext
<1> QED BY <1>1, <1>2, PTL DEF BuilderSpec

-----------------------------------------------------------------------------
(* What follows.                                                           *)

\* The bytes of a recorded cascade are those its chain takes: LocalBytes adds
\* them up over the record's aliases.
LEMMA LocalBytesAreTaken ==
    ASSUME NEW w, w = network, IsNetwork(w), NEW c, NEW p, IsRecorded(w, c, p)
    PROVE  LocalBytes(c) = Taken(w, c.start, c.end)
<1> DEFINE Adds(f, T, g(_)) == f = [s \in SUBSET T |-> IF s = {} THEN 0 ELSE g(First(s)) + f[s \ {First(s)}]]
           Weight(i) == Op(i).weights
           Buffer(i) == Op(i).buffer
           A == c.start..c.end
           B == {i \in (c.start + 1)..c.end : (i - 1) \notin c.aliases}
<1>1. B = OwnBuffers(w, c.start, c.end) /\ A \in SUBSET DOMAIN w.ops /\ B \in SUBSET A
    <2>1. c.start \in Nat /\ c.end \in Nat /\ A \in SUBSET DOMAIN w.ops
        BY NetworkFacts DEF IsRecorded
    <2>2. (c.start + 1)..c.end \in SUBSET A
        BY <2>1
    <2> QED BY <2>1, <2>2 DEF IsRecorded, OwnBuffers
<1>2. LocalBytes(c) = (CHOOSE f : Adds(f, A, Weight))[A] + (CHOOSE f : Adds(f, B, Buffer))[B]
    BY DEF LocalBytes, MapThenSumSet, MapThenFoldSet, First
<1>3. \A f : Adds(f, A, Weight) <=> AddsUp(f, WeightsOf(w), A)
    <2>1. \A s \in SUBSET A : s # {} => Weight(First(s)) = WeightsOf(w)[First(s)]
        <3>1. \A i \in A : Weight(i) = WeightsOf(w)[i]
            BY <1>1 DEF WeightsOf, Op
        <3> HIDE DEF A, Weight
        <3> QED BY <3>1, FirstIsMember
    <2> HIDE DEF A, Weight
    <2>2. ASSUME NEW f
          PROVE  [s \in SUBSET A |-> IF s = {} THEN 0 ELSE Weight(First(s)) + f[s \ {First(s)}]]
                 = [s \in SUBSET A |-> IF s = {} THEN 0 ELSE WeightsOf(w)[First(s)] + f[s \ {First(s)}]]
        BY <2>1
    <2> QED BY <2>2 DEF AddsUp
<1>4. \A f : Adds(f, B, Buffer) <=> AddsUp(f, BuffersOf(w), B)
    <2>1. \A s \in SUBSET B : s # {} => Buffer(First(s)) = BuffersOf(w)[First(s)]
        <3>1. \A i \in B : Buffer(i) = BuffersOf(w)[i]
            BY <1>1 DEF BuffersOf, Op
        <3> HIDE DEF A, B, Buffer
        <3> QED BY <3>1, FirstIsMember
    <2> HIDE DEF A, B, Buffer
    <2>2. ASSUME NEW f
          PROVE  [s \in SUBSET B |-> IF s = {} THEN 0 ELSE Buffer(First(s)) + f[s \ {First(s)}]]
                 = [s \in SUBSET B |-> IF s = {} THEN 0 ELSE BuffersOf(w)[First(s)] + f[s \ {First(s)}]]
        BY <2>1
    <2> QED BY <2>2 DEF AddsUp
<1>5. (CHOOSE f : Adds(f, A, Weight)) = (CHOOSE f : AddsUp(f, WeightsOf(w), A))
    <2> HIDE DEF Adds, A, Weight
    <2> QED BY <1>3
<1>6. (CHOOSE f : Adds(f, B, Buffer)) = (CHOOSE f : AddsUp(f, BuffersOf(w), B))
    <2> HIDE DEF Adds, B, Buffer
    <2> QED BY <1>4
<1>7. LocalBytes(c) = SumOf(WeightsOf(w), A) + SumOf(BuffersOf(w), B)
    <2> HIDE DEF Adds, A, B, Weight, Buffer
    <2> QED BY <1>2, <1>5, <1>6 DEF SumOf
<1> QED BY <1>1, <1>7 DEF Taken

\* The variables keep their types, and a chain lies within the network.
THEOREM CascadesTypeCorrect == BuilderSpec => []BuilderTypeOK
<1>1. CascadeInv => BuilderTypeOK
    <2> SUFFICES ASSUME CascadeInv PROVE BuilderTypeOK
        OBVIOUS
    <2>1. IsNetwork(network) /\ TypedCascades /\ Ops = DOMAIN network.ops
        BY NetworksAssumption DEF CascadeInv, TypedCascades, Ops
    <2>2. ASSUME building # "pick"
          PROVE  chain.start = at /\ chain.bestEnd \in at..chain.end /\ chain.end \in Ops
        BY <2>1, <2>2 DEF CascadeInv, TypedCascades, ChainFollowed, BestFollowed
    <2>3. ASSUME NEW c \in cascades PROVE c.aliases \subseteq c.start..c.end
        <3>1. IsRecorded(network, c, stagingPeak)
            BY DEF CascadeInv, Decided
        <3>2. c.start \in Nat /\ c.end \in Nat
            BY <2>1, <3>1, NetworkFacts DEF IsRecorded
        <3>3. c.aliases \subseteq c.start..(c.end - 1)
            BY <3>1 DEF IsRecorded, AliasesIn
        <3> QED BY <3>2, <3>3
    <2> QED BY <2>1, <2>2, <2>3 DEF BuilderTypeOK, TypedCascades
<1> QED BY <1>1, CascadesCorrect, PTL

\* The size a cascade is recorded with is what its buffers take, those that
\* share memory counted once, plus the most that is alive beside it
\* (cascadeBuffersSize, segmentNonLocalMax).
THEOREM SizesAreExact == BuilderSpec => []CascadeSizeExact
<1>1. CascadeInv => CascadeSizeExact
    <2> SUFFICES ASSUME CascadeInv, NEW c \in cascades
                 PROVE  IF Spilled(c.start) THEN c.local = LocalBytes(c) /\ c.size = c.local
                        ELSE /\ c.local = Op(c.start).ifmStored + LocalBytes(c) + Op(c.end).ofmStored
                             /\ c.size = c.local + Max({BesideCascade(c, i) : i \in c.start..c.end})
        BY DEF CascadeSizeExact
    <2>1. IsNetwork(network) /\ IsRecorded(network, c, stagingPeak)
        BY NetworksAssumption DEF CascadeInv, TypedCascades, Decided
    <2>2. LocalBytes(c) = Taken(network, c.start, c.end)
        BY <2>1, LocalBytesAreTaken
    <2>3. \A i : BesideCascade(c, i) = BesideIn(network, c.start, i)
        BY OfNetwork DEF BesideCascade, BesideIn, Op
    <2>4. {BesideCascade(c, i) : i \in c.start..c.end} = {BesideIn(network, c.start, i) : i \in c.start..c.end}
        BY <2>3
    <2>5. Max({BesideCascade(c, i) : i \in c.start..c.end}) = MostBeside(network, c.start, c.end)
        BY <2>4 DEF MostBeside
    <2>6. Spilled(c.start) = SpilledIn(network, c.start)
        BY OfNetwork
    <2> QED BY <2>1, <2>2, <2>5, <2>6 DEF IsRecorded, IsExact, Op
<1> QED BY <1>1, CascadesCorrect, PTL

\* A resident cascade takes less than one of its operations by itself
\* (cascade_builder.cpp:342).
THEOREM CascadesReducePeak == BuilderSpec => []CascadeReducesPeak
<1>1. CascadeInv => CascadeReducesPeak
    <2> SUFFICES ASSUME CascadeInv, NEW c \in cascades, ~Spilled(c.start)
                 PROVE  \E i \in c.start..c.end : c.size < Uncascaded(i)
        BY DEF CascadeReducesPeak
    <2>1. IsRecorded(network, c, stagingPeak) /\ ~SpilledIn(network, c.start)
        BY OfNetwork DEF CascadeInv, Decided
    <2> QED BY <2>1, OfNetwork DEF IsRecorded, IsWorth
<1> QED BY <1>1, CascadesCorrect, PTL

\* The peak covers every cascade and every resident operation left by itself
\* (peakStagingUsage).
THEOREM PeakIsCovered == BuilderSpec => []PeakCovers
<1>1. CascadeInv => PeakCovers
    <2> SUFFICES ASSUME CascadeInv PROVE PeakCovers
        OBVIOUS
    <2>1. \A c \in cascades : c.size <= stagingPeak
        BY DEF CascadeInv, Decided, IsRecorded
    <2>2. LeftBelow(network, cost, stagingPeak)
        BY DEF CascadeInv, Decided
    <2> QED BY <2>1, <2>2, OfNetwork DEF PeakCovers, LeftBelow
<1> QED BY <1>1, CascadesCorrect, PTL

=============================================================================
