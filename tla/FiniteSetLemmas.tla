--------------------------- MODULE FiniteSetLemmas --------------------------
(***************************************************************************)
(* Least and greatest elements of sets of naturals, and what a sum over a  *)
(* finite set (MapThenSumSet) is: the facts the proofs about the models    *)
(* share.  Where a proof calls for induction it takes the smallest number  *)
(* or the smallest subset that the claim fails for.                        *)
(***************************************************************************)
EXTENDS Integers, FiniteSets, FiniteSetsExt, Functions, FiniteSetTheorems, WellFoundedInduction, TLAPS

-----------------------------------------------------------------------------
(* Sets of numbers.                                                        *)

\* Every inhabited set of naturals has a least element: proofs about the graph
\* take the first command for which the edges would fail.
LEMMA LeastElement ==
    ASSUME NEW T \in SUBSET Nat, T # {}
    PROVE  \E x \in T : \A y \in T : x <= y
<1>1. PICK x \in T : \A y \in T : <<y, x>> \notin OpToRel(<, Nat)
    BY NatLessThanWellFounded, WFMin
<1>2. \A y \in T : ~(y < x)
    BY <1>1 DEF OpToRel
<1> QED BY <1>2

\* Min finds it: the lowest free address (AllocateLr).
LEMMA LeastNatural ==
    ASSUME NEW T \in SUBSET Nat, T # {}
    PROVE  /\ Min(T) \in T
           /\ \A y \in T : Min(T) <= y
BY LeastElement DEF Min

\* A nonempty finite family of sets has a member that none of the others lies
\* strictly inside of; over the subsets of a finite set this is induction.
LEMMA SmallestSubset ==
    ASSUME NEW S, IsFiniteSet(S), NEW F, F # {}, \A T \in F : T \subseteq S
    PROVE  \E T \in F : \A U \in F : ~(U \subseteq T /\ U # T)
<1>1. FiniteSubsetsOf(S) = SUBSET S
    BY FS_FiniteSubsetsOfFinite
<1>2. IsWellFoundedOn(StrictSubsetOrdering(S), SUBSET S)
    BY <1>1, FS_StrictSubsetOrderingWellFounded
<1>3. PICK T \in F : \A U \in F : <<U, T>> \notin StrictSubsetOrdering(S)
    BY <1>2, WFMin
<1>4. \A U \in F : ~(U \subseteq T /\ U # T)
    BY <1>3 DEF StrictSubsetOrdering
<1> QED BY <1>4

\* Every inhabited finite set of naturals has a greatest element.
LEMMA GreatestNatural ==
    ASSUME NEW S \in SUBSET Nat, IsFiniteSet(S), S # {}
    PROVE  /\ Max(S) \in S
           /\ \A y \in S : y <= Max(S)
<1> DEFINE HasGreatest(T) == \E x \in T : \A y \in T : y <= x
           F == {T \in SUBSET S : T # {} /\ ~HasGreatest(T)}
<1>1. F = {}
    <2> SUFFICES ASSUME F # {} PROVE FALSE
        OBVIOUS
    <2>1. PICK T \in F : \A U \in F : ~(U \subseteq T /\ U # T)
        <3>1. \A T \in F : T \subseteq S
            OBVIOUS
        <3> HIDE DEF F
        <3> QED BY <3>1, SmallestSubset
    <2>2. PICK x \in T : x \in Nat
        BY <2>1
    <2> DEFINE U == T \ {x}
    <2>3. U = {} \/ HasGreatest(U)
        <3>1. U \in SUBSET S /\ U \subseteq T /\ U # T
            BY <2>1, <2>2
        <3>2. U \notin F
            BY <2>1, <3>1
        <3> QED BY <3>1, <3>2
    <2>4. HasGreatest(T)
        <3>1. CASE U = {}
            BY <2>2, <3>1
        <3>2. CASE HasGreatest(U)
            <4>1. PICK m \in U : \A y \in U : y <= m
                BY <3>2
            <4>2. m \in Nat /\ T = U \cup {x}
                BY <2>1, <2>2, <4>1
            <4>3. CASE m <= x
                BY <2>1, <2>2, <4>1, <4>2, <4>3
            <4>4. CASE x <= m
                BY <2>1, <2>2, <4>1, <4>2, <4>4
            <4> QED BY <2>2, <4>2, <4>3, <4>4
        <3> QED BY <2>3, <3>1, <3>2
    <2> QED BY <2>1, <2>4
<1>2. HasGreatest(S)
    BY <1>1
<1> QED BY <1>2 DEF Max

\* Every inhabited bounded set of naturals has a greatest element: the last
\* writer or the last fence before a command (StateHazards, lastFence).
LEMMA GreatestElement ==
    ASSUME NEW n \in Nat, NEW T \in SUBSET (0..n), T # {}
    PROVE  \E x \in T : \A y \in T : y <= x
<1>1. T \in SUBSET Nat /\ \A x \in T : x <= n
    OBVIOUS
<1>2. IsFiniteSet(T)
    BY <1>1, FS_BoundedSetOfNaturals
<1> QED BY <1>1, <1>2, GreatestNatural

-----------------------------------------------------------------------------
(* Sums over finite sets.  A sum is the value of a function that is defined *)
(* by recursion over the subsets; that this function exists, and that it is *)
(* one of naturals, follows from the smallest subset it could fail for.     *)

First(s) == CHOOSE x \in s : TRUE

AddsUp(f, g, S) ==
    f = [s \in SUBSET S |-> IF s = {} THEN 0 ELSE g[First(s)] + f[s \ {First(s)}]]

\* The indices of a list of n elements (a std::vector) are n.
LEMMA IndicesCounted ==
    ASSUME NEW n \in Nat
    PROVE  IsFiniteSet(1..n) /\ Cardinality(1..n) = n
<1>1. IsFiniteSet(1..n) /\ Cardinality(1..n) = IF 1 > n THEN 0 ELSE n - 1 + 1
    BY FS_Interval
<1> QED BY <1>1

\* The first element of a set, as the fold takes it, is one of its own.
LEMMA FirstIsMember == ASSUME NEW s, s # {} PROVE First(s) \in s
BY DEF First

\* There is a function that adds up.
LEMMA SumExists ==
    ASSUME NEW S, IsFiniteSet(S), NEW g \in [S -> Nat]
    PROVE  \E f : AddsUp(f, g, S)
<1> DEFINE Sums(h, T) ==
        /\ h \in [SUBSET T -> Nat]
        /\ \A s \in SUBSET T :
              h[s] = IF s = {} THEN 0 ELSE g[First(s)] + h[s \ {First(s)}]
    F == {T \in SUBSET S : ~\E h : Sums(h, T)}
<1>1. ASSUME NEW T \in SUBSET S, NEW h, NEW k, Sums(h, T), Sums(k, T) PROVE h = k
    <2> DEFINE D == {s \in SUBSET T : h[s] # k[s]}
    <2>1. D = {}
        <3> SUFFICES ASSUME D # {} PROVE FALSE
            OBVIOUS
        <3>1. PICK s \in D : \A u \in D : ~(u \subseteq s /\ u # s)
            <4>1. IsFiniteSet(T) /\ \A u \in D : u \subseteq T
                BY FS_Subset
            <4> HIDE DEF D
            <4> QED BY <4>1, SmallestSubset
        <3>2. s \in SUBSET T /\ h[s] # k[s]
            BY <3>1
        <3>3. CASE s = {}
            BY <1>1, <3>2, <3>3
        <3>4. CASE s # {}
            <4>1. s \ {First(s)} \in SUBSET T /\ s \ {First(s)} # s
                BY <3>2, <3>4, FirstIsMember
            <4>2. h[s \ {First(s)}] = k[s \ {First(s)}]
                BY <3>1, <4>1
            <4>3. /\ h[s] = g[First(s)] + h[s \ {First(s)}]
                  /\ k[s] = g[First(s)] + k[s \ {First(s)}]
                BY <1>1, <3>2, <3>4
            <4> QED BY <3>2, <4>2, <4>3
        <3> QED BY <3>3, <3>4
    <2> QED BY <1>1, <2>1
<1>2. F = {}
    <2> SUFFICES ASSUME F # {} PROVE FALSE
        OBVIOUS
    <2>1. PICK T \in F : \A U \in F : ~(U \subseteq T /\ U # T)
        <3>1. \A T \in F : T \subseteq S
            OBVIOUS
        <3> HIDE DEF F
        <3> QED BY <3>1, SmallestSubset
    <2>2. T \in SUBSET S /\ ~\E h : Sums(h, T)
        BY <2>1
    <2>3. \A U \in SUBSET T : U # T => \E h : Sums(h, U)
        BY <2>1
    <2>4. CASE T = {}
        <3>1. Sums([s \in SUBSET T |-> 0], T)
            BY <2>4
        <3> HIDE DEF Sums
        <3> QED BY <2>2, <3>1
    <2>5. CASE T # {}
        <3> DEFINE below(s) == s \ {First(s)}
                   part(U) == CHOOSE h : Sums(h, U)
                   f == [s \in SUBSET T |->
                            IF s = {} THEN 0 ELSE g[First(s)] + part(below(s))[below(s)]]
        <3>1. ASSUME NEW U \in SUBSET T, U # T PROVE Sums(part(U), U)
            <4>1. \E h : Sums(h, U)
                BY <2>3, <3>1
            <4> HIDE DEF Sums
            <4> QED BY <4>1
        <3>2. ASSUME NEW s \in SUBSET T, s # {}
              PROVE  /\ First(s) \in s /\ below(s) \in SUBSET T /\ below(s) # T
                     /\ below(s) \in SUBSET below(s)
                     /\ part(below(s))[below(s)] \in Nat /\ g[First(s)] \in Nat
            <4>1. First(s) \in s
                BY <3>2, FirstIsMember
            <4>2. below(s) \in SUBSET T /\ below(s) # T
                BY <4>1
            <4>3. Sums(part(below(s)), below(s))
                BY <3>1, <4>2
            <4>4. part(below(s)) \in [SUBSET below(s) -> Nat]
                BY <4>3
            <4>5. g[First(s)] \in Nat
                BY <2>2, <4>1
            <4> HIDE DEF below, part
            <4> QED BY <4>1, <4>2, <4>4, <4>5
        <3>3. f \in [SUBSET T -> Nat]
            <4> HIDE DEF below, part
            <4> QED BY <3>2
        <3>4. ASSUME NEW s \in SUBSET T, s # {}
              PROVE  f[below(s)] = part(below(s))[below(s)]
            <4> DEFINE b == below(s)
            <4>1. b \in SUBSET T /\ b # T /\ Sums(part(b), b)
                BY <3>1, <3>2, <3>4, ZenonT(40)
            <4>2. CASE b = {}
                <5>1. part(b)[b] = 0
                    BY <4>1, <4>2
                <5> QED BY <4>1, <4>2, <5>1
            <4>3. CASE b # {}
                <5> DEFINE c == below(b)
                <5>1. c \in SUBSET b /\ c \in SUBSET T /\ c # T
                    BY <4>1
                <5>2. Sums(part(c), c)
                    BY <3>1, <5>1
                <5>3. Sums([u \in SUBSET c |-> part(b)[u]], c)
                    <6>1. \A u \in SUBSET c : u \in SUBSET b /\ u \ {First(u)} \in SUBSET c
                        BY <5>1
                    <6> HIDE DEF b, c, part
                    <6> QED BY <4>1, <6>1
                <5>4. part(c) = [u \in SUBSET c |-> part(b)[u]]
                    <6>1. c \in SUBSET S
                        BY <2>2, <5>1
                    <6> HIDE DEF Sums, part, c, b
                    <6> QED BY <1>1, <5>2, <5>3, <6>1
                <5>5. part(b)[c] = part(c)[c]
                    BY <5>4
                <5>6. part(b)[b] = g[First(b)] + part(b)[c]
                    BY <4>1, <4>3
                <5>7. f[b] = g[First(b)] + part(c)[c]
                    BY <4>1, <4>3
                <5> QED BY <5>5, <5>6, <5>7
            <4> QED BY <4>2, <4>3
        <3>5. Sums(f, T)
            <4>1. ASSUME NEW s \in SUBSET T
                  PROVE  f[s] = IF s = {} THEN 0 ELSE g[First(s)] + f[s \ {First(s)}]
                <5>1. s # {} => f[s] = g[First(s)] + part(below(s))[below(s)]
                    <6> HIDE DEF part, below
                    <6> QED OBVIOUS
                <5>2. s # {} => f[s] = g[First(s)] + f[below(s)]
                    <6>1. s # {} => f[below(s)] = part(below(s))[below(s)]
                        BY <3>4
                    <6> HIDE DEF f, part, below
                    <6> QED BY <5>1, <6>1
                <5>3. s = {} => f[s] = 0
                    OBVIOUS
                <5> HIDE DEF f
                <5> QED BY <5>2, <5>3
            <4> HIDE DEF f
            <4> QED BY <3>3, <4>1
        <3> HIDE DEF Sums, f
        <3> QED BY <2>2, <3>5
    <2> QED BY <2>4, <2>5
<1>3. PICK h : Sums(h, S)
    BY <1>2
<1> QED BY <1>3 DEF AddsUp

\* Whatever adds up naturals is natural, for every part of the set.
LEMMA SumsAreNatural ==
    ASSUME NEW S, IsFiniteSet(S), NEW g \in [S -> Nat], NEW f, AddsUp(f, g, S)
    PROVE  \A s \in SUBSET S : f[s] \in Nat
<1> DEFINE D == {s \in SUBSET S : f[s] \notin Nat}
<1>1. D = {}
    <2> SUFFICES ASSUME D # {} PROVE FALSE
        OBVIOUS
    <2>1. PICK s \in D : \A u \in D : ~(u \subseteq s /\ u # s)
        <3>1. \A T \in D : T \subseteq S
            OBVIOUS
        <3> HIDE DEF D
        <3> QED BY <3>1, SmallestSubset
    <2>2. s \in SUBSET S /\ f[s] \notin Nat
        BY <2>1
    <2>3. f[s] = IF s = {} THEN 0 ELSE g[First(s)] + f[s \ {First(s)}]
        BY <2>2 DEF AddsUp
    <2>4. s # {}
        BY <2>2, <2>3
    <2>5. First(s) \in S /\ s \ {First(s)} \in SUBSET S /\ s \ {First(s)} # s
        BY <2>2, <2>4, FirstIsMember
    <2>6. f[s \ {First(s)}] \in Nat
        BY <2>1, <2>5
    <2> QED BY <2>2, <2>3, <2>4, <2>5, <2>6
<1> QED BY <1>1

\* The sum of a function over part of the set it is defined on.
SumOf(g, T) == (CHOOSE f : AddsUp(f, g, T))[T]

\* Two functions that add up the same numbers agree on the parts both have.
LEMMA SumsAgree ==
    ASSUME NEW S, IsFiniteSet(S), NEW T \in SUBSET S, NEW g, NEW f, AddsUp(f, g, S), NEW h, AddsUp(h, g, T)
    PROVE  \A s \in SUBSET T : f[s] = h[s]
<1> DEFINE D == {s \in SUBSET T : f[s] # h[s]}
<1>1. D = {}
    <2> SUFFICES ASSUME D # {} PROVE FALSE
        OBVIOUS
    <2>1. PICK s \in D : \A u \in D : ~(u \subseteq s /\ u # s)
        <3>1. IsFiniteSet(T) /\ \A u \in D : u \subseteq T
            BY FS_Subset
        <3> HIDE DEF D
        <3> QED BY <3>1, SmallestSubset
    <2>2. s \in SUBSET T /\ s \in SUBSET S /\ f[s] # h[s]
        BY <2>1
    <2>3. f[s] = IF s = {} THEN 0 ELSE g[First(s)] + f[s \ {First(s)}]
        BY <2>2 DEF AddsUp
    <2>4. h[s] = IF s = {} THEN 0 ELSE g[First(s)] + h[s \ {First(s)}]
        BY <2>2 DEF AddsUp
    <2>5. s # {}
        BY <2>2, <2>3, <2>4
    <2>6. s \ {First(s)} \in SUBSET T /\ s \ {First(s)} # s
        BY <2>2, <2>5, FirstIsMember
    <2>7. f[s \ {First(s)}] = h[s \ {First(s)}]
        BY <2>1, <2>6
    <2> QED BY <2>2, <2>3, <2>4, <2>5, <2>7
<1> QED BY <1>1

\* Whichever set the numbers are added up over, a part of it has one sum.
LEMMA SumOfPart ==
    ASSUME NEW S, IsFiniteSet(S), NEW T \in SUBSET S, NEW g, NEW f, AddsUp(f, g, S)
    PROVE  SumOf(g, T) = f[T]
<1> DEFINE part == [s \in SUBSET T |-> f[s]]
           sum == CHOOSE h : AddsUp(h, g, T)
<1>1. AddsUp(part, g, T)
    <2>1. ASSUME NEW s \in SUBSET T
          PROVE  part[s] = IF s = {} THEN 0 ELSE g[First(s)] + part[s \ {First(s)}]
        <3>1. s \in SUBSET S /\ s \ {First(s)} \in SUBSET T
            OBVIOUS
        <3>2. f[s] = IF s = {} THEN 0 ELSE g[First(s)] + f[s \ {First(s)}]
            BY <3>1 DEF AddsUp
        <3>3. part[s] = f[s] /\ part[s \ {First(s)}] = f[s \ {First(s)}]
            BY <3>1
        <3> HIDE DEF part
        <3> QED BY <3>2, <3>3
    <2>2. part = [s \in SUBSET T |-> part[s]]
        OBVIOUS
    <2> HIDE DEF part
    <2>3. [s \in SUBSET T |-> part[s]]
          = [s \in SUBSET T |-> IF s = {} THEN 0 ELSE g[First(s)] + part[s \ {First(s)}]]
        BY <2>1
    <2> QED BY <2>2, <2>3 DEF AddsUp
<1> HIDE DEF part
<1>2. AddsUp(sum, g, T)
    BY <1>1
<1> HIDE DEF sum
<1>3. f[T] = sum[T]
    BY <1>2, SumsAgree
<1> QED BY <1>3 DEF SumOf, sum

\* A sum may begin with any of its terms.
LEMMA AnyTermFirst ==
    ASSUME NEW S, IsFiniteSet(S), NEW g \in [S -> Nat], NEW f, AddsUp(f, g, S)
    PROVE  \A s \in SUBSET S : \A x \in s : f[s] = g[x] + f[s \ {x}]
<1> DEFINE Splits(s) == \A x \in s : f[s] = g[x] + f[s \ {x}]
           D == {s \in SUBSET S : ~Splits(s)}
<1>1. D = {}
    <2> SUFFICES ASSUME D # {} PROVE FALSE
        OBVIOUS
    <2>1. PICK s \in D : \A u \in D : ~(u \subseteq s /\ u # s)
        <3>1. \A u \in D : u \subseteq S
            OBVIOUS
        <3> HIDE DEF D
        <3> QED BY <3>1, SmallestSubset
    <2>2. s \in SUBSET S
        BY <2>1
    <2>3. PICK x \in s : f[s] # g[x] + f[s \ {x}]
        BY <2>1
    <2>4. PICK y : y = First(s)
        OBVIOUS
    <2>5. y \in s
        BY <2>3, <2>4, FirstIsMember
    <2>6. f[s] = g[y] + f[s \ {y}]
        BY <2>2, <2>4, <2>5 DEF AddsUp
    <2>7. x # y
        BY <2>3, <2>6
    <2>8. f[s \ {y}] = g[x] + f[(s \ {y}) \ {x}]
        <3>1. s \ {y} \in SUBSET S /\ s \ {y} # s /\ x \in s \ {y}
            BY <2>2, <2>3, <2>5, <2>7
        <3>2. s \ {y} \notin D
            BY <2>1, <3>1
        <3> QED BY <3>1, <3>2
    <2>9. f[s \ {x}] = g[y] + f[(s \ {x}) \ {y}]
        <3>1. s \ {x} \in SUBSET S /\ s \ {x} # s /\ y \in s \ {x}
            BY <2>2, <2>3, <2>5, <2>7
        <3>2. s \ {x} \notin D
            BY <2>1, <3>1
        <3> QED BY <3>1, <3>2
    <2>10. (s \ {y}) \ {x} = (s \ {x}) \ {y}
        OBVIOUS
    <2>11. PICK rest : rest = (s \ {x}) \ {y}
        OBVIOUS
    <2>12. f[rest] \in Nat
        BY <2>2, <2>11, SumsAreNatural
    <2>13. g[x] \in Nat /\ g[y] \in Nat
        BY <2>2, <2>3, <2>5
    <2>14. f[s] = g[y] + (g[x] + f[rest])
        BY <2>6, <2>8, <2>10, <2>11
    <2>15. g[x] + f[s \ {x}] = g[x] + (g[y] + f[rest])
        BY <2>9, <2>11
    <2> QED BY <2>3, <2>12, <2>13, <2>14, <2>15
<1> QED BY <1>1

\* The sum over nothing is zero, and over any part a natural.
LEMMA SumTyped ==
    ASSUME NEW S, IsFiniteSet(S), NEW g \in [S -> Nat]
    PROVE  /\ SumOf(g, {}) = 0
           /\ \A T \in SUBSET S : SumOf(g, T) \in Nat
<1>1. PICK f : AddsUp(f, g, S)
    BY SumExists
<1>2. f[{}] = 0
    BY <1>1 DEF AddsUp
<1> QED BY <1>1, <1>2, SumOfPart, SumsAreNatural

\* Sums over two sets with nothing in common add up.
LEMMA SumOfUnion ==
    ASSUME NEW S, IsFiniteSet(S), NEW g \in [S -> Nat],
           NEW A \in SUBSET S, NEW B \in SUBSET S, A \cap B = {}
    PROVE  SumOf(g, A \cup B) = SumOf(g, A) + SumOf(g, B)
<1>1. PICK f : AddsUp(f, g, S)
    BY SumExists
<1> DEFINE D == {C \in SUBSET B : f[A \cup C] # f[A] + f[C]}
<1>2. \A s \in SUBSET S : f[s] \in Nat
    BY <1>1, SumsAreNatural
<1>3. D = {}
    <2> SUFFICES ASSUME D # {} PROVE FALSE
        OBVIOUS
    <2>1. PICK C \in D : \A u \in D : ~(u \subseteq C /\ u # C)
        <3>1. IsFiniteSet(B) /\ \A u \in D : u \subseteq B
            BY FS_Subset
        <3> HIDE DEF D
        <3> QED BY <3>1, SmallestSubset
    <2>2. C \in SUBSET B /\ f[A \cup C] # f[A] + f[C]
        BY <2>1
    <2>3. C # {}
        <3>1. f[{}] = 0 /\ f[A] \in Nat /\ A \cup {} = A
            BY <1>1, <1>2 DEF AddsUp
        <3>2. ASSUME C = {} PROVE f[A \cup C] = f[A] /\ f[A] + f[C] = f[A] + f[{}]
            BY <3>1, <3>2
        <3>3. f[A] + f[{}] = f[A]
            BY <3>1
        <3> QED BY <2>2, <3>2, <3>3
    <2>4. PICK x \in C : TRUE
        BY <2>3
    <2>5. f[A \cup C] = g[x] + f[(A \cup C) \ {x}]
        BY <1>1, <2>2, <2>4, AnyTermFirst
    <2>6. f[C] = g[x] + f[C \ {x}]
        BY <1>1, <2>2, <2>4, AnyTermFirst
    <2>7. f[A \cup (C \ {x})] = f[A] + f[C \ {x}]
        <3>1. C \ {x} \in SUBSET B /\ C \ {x} # C
            BY <2>2, <2>4
        <3> QED BY <2>1, <3>1
    <2>8. (A \cup C) \ {x} = A \cup (C \ {x})
        BY <2>2, <2>4
    <2>9. PICK rest : rest = C \ {x}
        OBVIOUS
    <2>10. f[rest] \in Nat /\ f[A] \in Nat /\ g[x] \in Nat
        BY <1>2, <2>2, <2>4, <2>9
    <2>11. f[A \cup C] = g[x] + (f[A] + f[rest])
        BY <2>5, <2>7, <2>8, <2>9
    <2>12. f[A] + f[C] = f[A] + (g[x] + f[rest])
        BY <2>6, <2>9
    <2> QED BY <2>2, <2>10, <2>11, <2>12
<1>4. f[A \cup B] = f[A] + f[B]
    BY <1>3
<1>5. A \cup B \in SUBSET S
    OBVIOUS
<1> QED BY <1>1, <1>4, <1>5, SumOfPart

\* The sum over one element is its number.
LEMMA SumOfOne ==
    ASSUME NEW S, IsFiniteSet(S), NEW g \in [S -> Nat], NEW x \in S
    PROVE  SumOf(g, {x}) = g[x]
<1>1. PICK f : AddsUp(f, g, S)
    BY SumExists
<1>2. f[{x}] = g[x] + f[{}]
    <2>1. {x} \in SUBSET S /\ {x} # {}
        OBVIOUS
    <2>2. f[{x}] = g[First({x})] + f[{x} \ {First({x})}]
        BY <1>1, <2>1 DEF AddsUp
    <2>3. First({x}) = x
        BY FirstIsMember, <2>1
    <2>4. {x} \ {First({x})} = {}
        BY <2>3
    <2> QED BY <2>2, <2>3, <2>4
<1>3. f[{}] = 0
    BY <1>1 DEF AddsUp
<1>4. f[{x}] = g[x]
    <2>1. g[x] \in Nat
        OBVIOUS
    <2> QED BY <1>2, <1>3, <2>1
<1>5. {x} \in SUBSET S
    OBVIOUS
<1> QED BY <1>1, <1>4, <1>5, SumOfPart

\* The values of a function on a finite set are finitely many.
LEMMA FiniteImage ==
    ASSUME NEW S, IsFiniteSet(S), NEW f
    PROVE  IsFiniteSet({f[x] : x \in S})
<1> DEFINE T == {f[x] : x \in S}
<1>1. [x \in S |-> f[x]] \in Surjection(S, T)
    BY DEF Surjection
<1> QED BY <1>1, FS_Surjection

-----------------------------------------------------------------------------
(* Sorting.                                                                *)

\* Ranks that no two elements share list a finite set.
LEMMA RanksList ==
    ASSUME NEW S, IsFiniteSet(S), NEW n \in Nat, n = Cardinality(S), NEW rank \in [S -> 0..(n - 1)],
           \A x, y \in S : rank[x] = rank[y] => x = y,
           NEW sorted, sorted = [k \in 1..n |-> sorted[k]],
           \A k \in 1..n, x \in S :
              rank[x] = k - 1 => sorted[k] \in S /\ rank[sorted[k]] = k - 1
    PROVE  sorted \in Bijection(1..n, S)
<1> DEFINE place == [x \in S |-> rank[x] + 1]
<1>1. /\ place \in [S -> 1..n]
      /\ \A x \in S : rank[x] \in Int /\ place[x] = rank[x] + 1
    OBVIOUS
<1>2. place \in Injection(S, 1..n)
    <2> HIDE DEF place
    <2> QED BY <1>1 DEF Injection, IsInjective
<1>3. place \in Surjection(S, 1..n)
    <2>1. IsFiniteSet(1..n) /\ Cardinality(1..n) = n
        BY IndicesCounted
    <2> HIDE DEF place
    <2> QED BY <1>2, <2>1, FS_Injection
<1>4. ASSUME NEW k \in 1..n PROVE sorted[k] \in S /\ rank[sorted[k]] = k - 1
    <2>1. PICK x \in S : place[x] = k
        <3> HIDE DEF place
        <3> QED BY <1>3 DEF Surjection
    <2>2. rank[x] = k - 1
        BY <1>1, <2>1
    <2> QED BY <2>2
<1>5. sorted \in Bijection(1..n, S)
    <2>1. sorted \in [1..n -> S]
        BY <1>4
    <2>2. \A k, l \in 1..n : sorted[k] = sorted[l] => k = l
        BY <1>4
    <2>3. \A x \in S : \E k \in 1..n : sorted[k] = x
        <3>1. TAKE x \in S
        <3>2. place[x] \in 1..n /\ rank[sorted[place[x]]] = place[x] - 1 /\ sorted[place[x]] \in S
            <4> HIDE DEF place
            <4> QED BY <1>1, <1>4
        <3>3. rank[sorted[place[x]]] = rank[x]
            <4> HIDE DEF place
            <4> QED BY <1>1, <3>2
        <3> HIDE DEF place
        <3> QED BY <3>2, <3>3
    <2> QED BY <2>1, <2>2, <2>3 DEF Bijection, Injection, Surjection, IsInjective
<1> QED BY <1>5

\* A strict total order lists a finite set: the k-th element is the one with
\* k - 1 elements before it (std::sort, by any order that no two elements
\* tie in).
LEMMA SortingPermutes ==
    ASSUME NEW S, IsFiniteSet(S), NEW R,
           \A x \in S : <<x, x>> \notin R,
           \A x, y \in S : x # y => <<x, y>> \in R \/ <<y, x>> \in R,
           \A x, y, z \in S : <<x, y>> \in R /\ <<y, z>> \in R => <<x, z>> \in R,
           NEW n, n = Cardinality(S), NEW sorted, sorted = [k \in 1..n |-> sorted[k]],
           \A k \in 1..n, x \in S :
              Cardinality({y \in S : <<y, x>> \in R}) = k - 1 =>
                 /\ sorted[k] \in S
                 /\ Cardinality({y \in S : <<y, sorted[k]>> \in R}) = k - 1
    PROVE  sorted \in Bijection(1..n, S)
<1> DEFINE before(x) == {y \in S : <<y, x>> \in R}
           rank == [x \in S |-> Cardinality(before(x))]
<1>1. n \in Nat
    BY FS_CardinalityType
<1>2. \A x \in S : before(x) \in SUBSET S /\ x \notin before(x) /\ rank[x] = Cardinality(before(x))
    OBVIOUS
<1>3. \A x, y \in S : <<x, y>> \in R => before(x) \in SUBSET before(y) /\ before(x) # before(y)
    OBVIOUS
<1>4. \A x, y \in S : x # y => <<x, y>> \in R \/ <<y, x>> \in R
    OBVIOUS
<1>5. \A k \in 1..n, x \in S : rank[x] = k - 1 => sorted[k] \in S /\ rank[sorted[k]] = k - 1
    OBVIOUS
<1>6. rank \in [S -> 0..(n - 1)]
    <2>1. ASSUME NEW x \in S PROVE rank[x] \in 0..(n - 1)
        <3>1. PICK B : B = before(x)
            OBVIOUS
        <3>2. PICK c : c = Cardinality(B)
            OBVIOUS
        <3>3. B \in SUBSET S /\ B # S /\ rank[x] = c
            BY <1>2, <3>1, <3>2
        <3>4. IsFiniteSet(B) /\ c <= n /\ c # n
            <4> HIDE DEF before, rank
            <4> QED BY <3>2, <3>3, FS_Subset
        <3>5. c \in Nat
            BY <3>2, <3>4, FS_CardinalityType
        <3> HIDE DEF before, rank
        <3> QED BY <1>1, <3>3, <3>4, <3>5
    <2>2. rank = [x \in S |-> rank[x]]
        OBVIOUS
    <2> HIDE DEF rank
    <2> QED BY <2>1, <2>2
<1>7. ASSUME NEW x \in S, NEW y \in S, <<x, y>> \in R PROVE rank[x] # rank[y]
    <2>1. PICK B, C : B = before(x) /\ C = before(y)
        OBVIOUS
    <2>2. B \in SUBSET C /\ B # C /\ C \in SUBSET S
        BY <1>2, <1>3, <1>7, <2>1
    <2>3. rank[x] = Cardinality(B) /\ rank[y] = Cardinality(C)
        BY <1>2, <2>1
    <2> HIDE DEF before, rank
    <2>4. IsFiniteSet(C) /\ Cardinality(B) # Cardinality(C)
        BY <2>2, FS_Subset
    <2> QED BY <2>3, <2>4
<1> HIDE DEF rank, before
<1>8. \A x, y \in S : rank[x] = rank[y] => x = y
    BY <1>4, <1>7
<1> QED BY <1>1, <1>5, <1>6, <1>8, RanksList

=============================================================================
