-------------------------- MODULE CommandIRProofs --------------------------
(***************************************************************************)
(* Facts about the dependency graph of an arbitrary stream, said without   *)
(* the loop that builds it: its edges lead from the first to the second    *)
(* command of every hazard although most hazards have no edge of their     *)
(* own.                                                                    *)
(***************************************************************************)
EXTENDS CommandIR, FiniteSetLemmas

-----------------------------------------------------------------------------
(* Hazards and the cells they are about.                                   *)

\* A hazard has no direction: whichever of two commands comes first, their
\* order can be observed.
LEMMA HazardSymmetric ==
    ASSUME NEW c, NEW d
    PROVE  Hazard(c, d) <=> Hazard(d, c)
<1>1. AccessesConflict(c, d) <=> AccessesConflict(d, c)
    BY DEF AccessesConflict, Overlaps
<1>2. StateConflict(c, d) <=> StateConflict(d, c)
    BY DEF StateConflict, Touches
<1> QED BY <1>1, <1>2 DEF Hazard

\* A cell of memory lies in one of the accesses of the command.
LEMMA CellsOfAccesses ==
    ASSUME NEW c \in SemanticCommand, NEW write \in BOOLEAN, NEW cell \in MemoryCells(c, write)
    PROVE  \E m \in DOMAIN c.accesses :
              /\ c.accesses[m] \in MemoryAccess /\ c.accesses[m].write = write
              /\ \E o \in c.accesses[m].begin..(c.accesses[m].end - 1) :
                    cell = <<c.accesses[m].storage, o>>
<1>1. PICK m \in DOMAIN c.accesses :
        cell \in {<<c.accesses[m].storage, o>> :
                    o \in {x \in c.accesses[m].begin..(c.accesses[m].end - 1) :
                             c.accesses[m].write = write}}
    BY DEF MemoryCells
<1>2. c.accesses[m] \in MemoryAccess
    <2>1. c.accesses \in Seq(MemoryAccess)
        BY DEF SemanticCommand
    <2> QED BY <1>1, <2>1
<1> QED BY <1>1, <1>2

\* Memory cells are never state keys: a cell names its region.
LEMMA CellsAreNoKeys ==
    ASSUME NEW c \in SemanticCommand, NEW write \in BOOLEAN, NEW cell \in MemoryCells(c, write)
    PROVE  cell \notin StateKeys
<1>1. PICK storage \in Regions, o \in Int : cell = <<storage, o>>
    <2>1. PICK m \in DOMAIN c.accesses :
              /\ c.accesses[m] \in MemoryAccess
              /\ \E o \in c.accesses[m].begin..(c.accesses[m].end - 1) :
                    cell = <<c.accesses[m].storage, o>>
        BY CellsOfAccesses
    <2>2. c.accesses[m].storage \in Regions /\ c.accesses[m].begin \in Nat
          /\ c.accesses[m].end \in Nat
        BY <2>1 DEF MemoryAccess
    <2> QED BY <2>1, <2>2
<1>2. cell[1] = storage
    BY <1>1
<1>3. \A key \in StateKeys : key[1] \notin Regions
    BY DEF StateKeys, Regions
<1> QED BY <1>1, <1>2, <1>3

\* A command has a hazard with each command that writes a cell it touches, in
\* either order (AccessesConflict and the states of the graph builder).
LEMMA SharedCellIsHazard ==
    ASSUME NEW c \in SemanticCommand, NEW d \in SemanticCommand,
           NEW cell \in CellsWritten(c), cell \in CellsRead(d) \cup CellsWritten(d)
    PROVE  Hazard(c, d) /\ Hazard(d, c)
<1>1. /\ c.writes \in SUBSET StateKeys
      /\ d.reads \in SUBSET StateKeys /\ d.writes \in SUBSET StateKeys
    BY DEF SemanticCommand
<1>2. CASE cell \in StateKeys
    <2>1. cell \in c.writes /\ Touches(d, cell)
        BY <1>2, CellsAreNoKeys DEF CellsRead, CellsWritten, Touches
    <2> QED BY <1>2, <2>1 DEF Hazard, StateConflict, Touches
<1>3. CASE cell \notin StateKeys
    <2>1. cell \in MemoryCells(c, TRUE)
        BY <1>1, <1>3 DEF CellsWritten
    <2>2. PICK write \in BOOLEAN : cell \in MemoryCells(d, write)
        BY <1>1, <1>3 DEF CellsRead, CellsWritten
    <2>3. PICK m \in DOMAIN c.accesses :
              /\ c.accesses[m] \in MemoryAccess /\ c.accesses[m].write = TRUE
              /\ \E o \in c.accesses[m].begin..(c.accesses[m].end - 1) :
                    cell = <<c.accesses[m].storage, o>>
        BY <2>1, CellsOfAccesses
    <2>4. PICK n \in DOMAIN d.accesses :
              /\ d.accesses[n] \in MemoryAccess
              /\ \E o \in d.accesses[n].begin..(d.accesses[n].end - 1) :
                    cell = <<d.accesses[n].storage, o>>
        BY <2>2, CellsOfAccesses
    <2> DEFINE a == c.accesses[m]
               b == d.accesses[n]
    <2>5. a.begin \in Nat /\ a.end \in Nat /\ b.begin \in Nat /\ b.end \in Nat
        BY <2>3, <2>4 DEF MemoryAccess
    <2>6. PICK o \in a.begin..(a.end - 1) : cell = <<a.storage, o>>
        BY <2>3
    <2>7. PICK p \in b.begin..(b.end - 1) : cell = <<b.storage, p>>
        BY <2>4
    <2>8. a.storage = b.storage /\ o = p
        BY <2>6, <2>7
    <2>9. Overlaps(a, b) /\ Overlaps(b, a) /\ a.write
        <3>1. a.begin < b.end /\ b.begin < a.end
            BY <2>5, <2>6, <2>7, <2>8
        <3> QED BY <2>3, <2>8, <3>1 DEF Overlaps
    <2> QED BY <2>9 DEF Hazard, AccessesConflict
<1> QED BY <1>2, <1>3

-----------------------------------------------------------------------------
(* The edges reach every hazard.                                           *)

\* The edges into the first last commands lead backwards inside S.
ClosedUpTo(prog, last, S) ==
    \A e \in DependencyEdges(prog) : e[2] <= last /\ e[2] \in S => e[1] \in S

StateOrder(prog, i, j, key) ==
    \/ key \in prog[i].writes /\ Touches(prog[j], key)
    \/ key \in prog[i].reads  /\ key \in prog[j].writes

\* A closed set that contains a command contains each command it directly
\* depends on, for which the builder draws an edge.
LEMMA EdgeInto ==
    ASSUME NEW prog, Len(prog) \in Nat, NEW last \in 1..Len(prog), NEW S,
           ClosedUpTo(prog, last, S),
           NEW j \in 1..last, j \in S, NEW i \in 1..(j - 1), DirectDependency(prog, i, j)
    PROVE  i \in S
<1>1. <<i, j>> \in DependencyEdges(prog)
    BY DEF DependencyEdges
<1> QED BY <1>1 DEF ClosedUpTo

\* The accesses to one state form a chain: each write is connected to the
\* next one, and every command that touches the state to the writes around it.
LEMMA StateChain ==
    ASSUME NEW prog, Len(prog) \in Nat, NEW last \in 1..Len(prog), NEW S,
           ClosedUpTo(prog, last, S), NEW key \in StateKeys
    PROVE  \A j \in 1..last : j \in S =>
                \A i \in 1..(j - 1) : StateOrder(prog, i, j, key) => i \in S
<1> DEFINE Bad == {j \in 1..last : j \in S /\
                      \E i \in 1..(j - 1) : StateOrder(prog, i, j, key) /\ i \notin S}
<1> SUFFICES ASSUME Bad # {} PROVE FALSE
    OBVIOUS
<1>1. PICK j \in Bad : \A k \in Bad : j <= k
    <2>1. Bad \in SUBSET Nat
        OBVIOUS
    <2> HIDE DEF Bad
    <2> QED BY <2>1, LeastElement
<1>2. j \in 1..last /\ j \in S
    OBVIOUS
<1>3. PICK i \in 1..(j - 1) : StateOrder(prog, i, j, key) /\ i \notin S
    OBVIOUS
<1> HIDE DEF Bad
<1>4. CASE NoneBetween(prog, i, j, key)
    <2>1. DirectDependency(prog, i, j)
        BY <1>3, <1>4 DEF DirectDependency, StateOrder
    <2> QED BY <1>2, <1>3, <2>1, EdgeInto
<1>5. CASE ~NoneBetween(prog, i, j, key)
    <2> DEFINE Writers == {m \in (i + 1)..(j - 1) : key \in prog[m].writes}
    <2>1. Writers \in SUBSET (0..last) /\ Writers # {} /\ last \in Nat
        BY <1>2, <1>5 DEF NoneBetween
    <2>2. PICK m \in Writers : \A w \in Writers : w <= m
        <3> HIDE DEF Writers
        <3> QED BY <2>1, GreatestElement
    <2>3. m \in (i + 1)..(j - 1) /\ key \in prog[m].writes
        OBVIOUS
    <2>4. NoneBetween(prog, m, j, key)
        BY <1>2, <2>2, <2>3 DEF NoneBetween
    <2>5. DirectDependency(prog, m, j)
        BY <1>3, <2>3, <2>4 DEF DirectDependency, StateOrder, Touches
    <2>6. m \in 1..(j - 1) /\ m \in 1..last /\ i \in 1..(m - 1) /\ m < j
        BY <1>2, <2>3
    <2>7. m \in S
        BY <1>2, <2>5, <2>6, EdgeInto
    <2>8. StateOrder(prog, i, m, key)
        BY <1>3, <2>3 DEF StateOrder, Touches
    <2>9. m \in Bad
        BY <1>3, <2>6, <2>7, <2>8 DEF Bad
    <2> QED BY <1>1, <1>2, <2>6, <2>9
<1> QED BY <1>4, <1>5

\* A fence is connected to every later command through the fences between.
LEMMA FenceChain ==
    ASSUME NEW prog, Len(prog) \in Nat, NEW last \in 1..Len(prog), NEW S,
           ClosedUpTo(prog, last, S), NEW j \in 1..last, j \in S,
           NEW i \in 1..(j - 1), prog[i].controlFence
    PROVE  i \in S
<1> DEFINE Fences == {m \in i..(j - 1) : prog[m].controlFence}
<1>1. Fences \in SUBSET (0..last) /\ Fences # {} /\ last \in Nat
    <2>1. i \in Fences
        OBVIOUS
    <2> QED BY <2>1
<1>2. PICK m \in Fences : \A f \in Fences : f <= m
    <2> HIDE DEF Fences
    <2> QED BY <1>1, GreatestElement
<1>3. m \in i..(j - 1) /\ prog[m].controlFence
    OBVIOUS
<1>4. \A f \in (m + 1)..(j - 1) : ~prog[f].controlFence
    BY <1>2, <1>3
<1>5. m \in 1..(j - 1) /\ m \in 1..last
    BY <1>3
<1>6. m \in S
    <2>1. DirectDependency(prog, m, j)
        BY <1>3, <1>4 DEF DirectDependency
    <2> QED BY <1>5, <2>1, EdgeInto
<1>7. CASE m = i
    BY <1>6, <1>7
<1>8. CASE m # i
    <2>1. i \in 1..(m - 1)
        BY <1>3, <1>8
    <2>2. DirectDependency(prog, i, m)
        BY <1>3 DEF DirectDependency
    <2> QED BY <1>5, <1>6, <2>1, <2>2, EdgeInto
<1> QED BY <1>7, <1>8

\* A set that contains j and follows the edges into its members backwards
\* contains every earlier command that has a hazard with j: no hazard is lost
\* by keeping only the last fence, the last writer and the readers since
\* (BuildCommandDependencyGraph).
THEOREM EdgesReachEveryHazard ==
    ASSUME NEW prog, Len(prog) \in Nat, NEW last \in 1..Len(prog), NEW S,
           ClosedUpTo(prog, last, S), NEW j \in 1..last, j \in S,
           NEW i \in 1..(j - 1), Hazard(prog[i], prog[j])
    PROVE  i \in S
<1>1. CASE prog[i].controlFence
    BY <1>1, FenceChain
<1>2. CASE prog[j].controlFence \/ AccessesConflict(prog[i], prog[j])
    <2>1. DirectDependency(prog, i, j)
        BY <1>2 DEF DirectDependency
    <2> QED BY <2>1, EdgeInto
<1>3. CASE StateConflict(prog[i], prog[j])
    <2>1. PICK key \in StateKeys : StateOrder(prog, i, j, key)
        BY <1>3 DEF StateConflict, StateOrder
    <2> QED BY <2>1, StateChain
<1> QED BY <1>1, <1>2, <1>3 DEF Hazard

=============================================================================
