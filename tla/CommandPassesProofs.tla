------------------------ MODULE CommandPassesProofs ------------------------
(***************************************************************************)
(* The passes over a command stream.  The transfers that DMAResidency      *)
(* drops leave no memory different, and the loads of parameters and tables *)
(* that StateResidency drops show to no user of them.  The loop of         *)
(* BuildCommandDependencyGraph draws exactly the edges of DependencyEdges, *)
(* whatever the stream; with the facts about those edges every property of *)
(* the graph follows.                                                      *)
(***************************************************************************)
EXTENDS CommandPasses, CommandIRProofs

-----------------------------------------------------------------------------
(* What each variable of the loop says about the commands visited so far.  *)

FenceIsLast ==
    /\ lastFence > 0 => program[lastFence].controlFence
    /\ \A m \in (lastFence + 1)..(current - 1) : ~program[m].controlFence

WritersAreLast ==
    \A key \in StateKeys :
        /\ lastWriter[key] > 0 => key \in program[lastWriter[key]].writes
        /\ \A m \in (lastWriter[key] + 1)..(current - 1) : key \notin program[m].writes

ReadersSinceWriter ==
    \A key \in StateKeys :
        readers[key] = {r \in 1..(current - 1) :
            /\ key \in program[r].reads
            /\ \A m \in r..(current - 1) : key \notin program[m].writes}

LoopInv ==
    /\ TypeOK
    /\ FenceIsLast
    /\ WritersAreLast
    /\ ReadersSinceWriter
    /\ EdgesAreDirectDependencies

-----------------------------------------------------------------------------

\* A decoded command names only known states in its reads and writes
\* (SemanticCommand of neural_ai_command_ir.hpp).
LEMMA CommandTyped ==
    ASSUME NEW prog \in Seq(SemanticCommand), NEW i \in 1..Len(prog)
    PROVE  /\ Len(prog) \in Nat
           /\ prog[i].reads \in SUBSET StateKeys
           /\ prog[i].writes \in SUBSET StateKeys
           /\ prog[i].controlFence \in BOOLEAN
<1>1. prog[i] \in SemanticCommand
    OBVIOUS
<1>2. Len(prog) \in Nat
    OBVIOUS
<1> QED BY <1>1, <1>2 DEF SemanticCommand

\* Before the first visit the summaries say nothing has been seen (the loop's
\* initial lastFence and the empty StateHazards).
LEMMA LoopBegins ==
    ASSUME program \in Seq(SemanticCommand),
           current = 1, edges = {}, lastFence = 0,
           lastWriter = [key \in StateKeys |-> 0], readers = [key \in StateKeys |-> {}]
    PROVE  LoopInv
<1>1. Len(program) \in Nat
    OBVIOUS
<1>2. TypeOK
    BY <1>1 DEF TypeOK, Indices
<1>3. FenceIsLast /\ WritersAreLast
    BY DEF FenceIsLast, WritersAreLast
<1>4. ReadersSinceWriter
    BY DEF ReadersSinceWriter
<1>5. EdgesAreDirectDependencies
    BY <1>1 DEF EdgesAreDirectDependencies, DependencyEdges
<1> QED BY <1>2, <1>3, <1>4, <1>5 DEF LoopInv

\* The predecessors the visit of a command finds are those it should have.
LEMMA VisitFindsPredecessors ==
    ASSUME LoopInv, current <= Len(program)
    PROVE  LET c == program[current]
           IN  ControlPredecessors(c) \cup MemoryPredecessors(c) \cup StatePredecessors(c)
                 = {p \in 1..(current - 1) : DirectDependency(program, p, current)}
<1> DEFINE c == program[current]
<1>1. /\ program \in Seq(SemanticCommand) /\ Len(program) \in Nat
      /\ current \in 1..Len(program)
    BY DEF LoopInv, TypeOK
<1>2. c.reads \in SUBSET StateKeys /\ c.writes \in SUBSET StateKeys
    BY <1>1, CommandTyped
<1>t. /\ lastFence \in 0..(current - 1)
      /\ lastWriter \in [StateKeys -> 0..(current - 1)]
    BY DEF LoopInv, TypeOK
<1> HIDE DEF c
<1>3. ControlPredecessors(c) =
        {p \in 1..(current - 1) :
            \/ c.controlFence
            \/ /\ program[p].controlFence
               /\ \A m \in (p + 1)..(current - 1) : ~program[m].controlFence}
    <2>1. ASSUME NEW p \in 1..(current - 1), program[p].controlFence,
                 \A m \in (p + 1)..(current - 1) : ~program[m].controlFence
          PROVE  p = lastFence
        BY <1>1, <1>t, <2>1 DEF LoopInv, FenceIsLast
    <2>2. lastFence > 0 =>
            /\ lastFence \in 1..(current - 1)
            /\ program[lastFence].controlFence
            /\ \A m \in (lastFence + 1)..(current - 1) : ~program[m].controlFence
        BY <1>1, <1>t DEF LoopInv, FenceIsLast
    <2> QED BY <1>1, <1>t, <2>1, <2>2 DEF ControlPredecessors
<1>4. MemoryPredecessors(c) = {p \in 1..(current - 1) : AccessesConflict(program[p], c)}
    BY DEF MemoryPredecessors
<1>5. ASSUME NEW p \in 1..(current - 1), NEW key \in StateKeys
      PROVE  p = lastWriter[key] <=>
                key \in program[p].writes /\ NoneBetween(program, p, current, key)
    BY <1>1, <1>t DEF LoopInv, WritersAreLast, NoneBetween
<1>6. ASSUME NEW p \in 1..(current - 1), NEW key \in StateKeys
      PROVE  p \in readers[key] <=>
                /\ key \in program[p].reads /\ key \notin program[p].writes
                /\ NoneBetween(program, p, current, key)
    <2>1. p \in readers[key] <=>
            key \in program[p].reads /\ \A m \in p..(current - 1) : key \notin program[m].writes
        BY DEF LoopInv, ReadersSinceWriter
    <2>2. (\A m \in p..(current - 1) : key \notin program[m].writes) <=>
            key \notin program[p].writes /\ NoneBetween(program, p, current, key)
        <3>1. \A m : m \in p..(current - 1) <=> m = p \/ m \in (p + 1)..(current - 1)
            BY <1>1
        <3> QED BY <3>1 DEF NoneBetween
    <2> QED BY <2>1, <2>2
<1>7. StatePredecessors(c) =
        {p \in 1..(current - 1) : \E key \in StateKeys :
            /\ NoneBetween(program, p, current, key)
            /\ \/ key \in program[p].writes /\ Touches(c, key)
               \/ key \in program[p].reads  /\ key \in c.writes}
    <2> DEFINE wanted(p) == \E key \in StateKeys :
            /\ NoneBetween(program, p, current, key)
            /\ \/ key \in program[p].writes /\ Touches(c, key)
               \/ key \in program[p].reads  /\ key \in c.writes
    <2>1. ASSUME NEW p, p \in StatePredecessors(c)
          PROVE  p \in 1..(current - 1) /\ wanted(p)
        <3>1. CASE \E key \in c.reads \cup c.writes : lastWriter[key] > 0 /\ p = lastWriter[key]
            <4>1. PICK key \in c.reads \cup c.writes : lastWriter[key] > 0 /\ p = lastWriter[key]
                BY <3>1
            <4>2. key \in StateKeys /\ p \in 1..(current - 1) /\ Touches(c, key)
                BY <1>1, <1>2, <1>t, <4>1 DEF Touches
            <4> QED BY <1>5, <4>1, <4>2
        <3>2. CASE \E key \in c.writes : p \in readers[key]
            <4>1. PICK key \in c.writes : p \in readers[key]
                BY <3>2
            <4>2. key \in StateKeys /\ p \in 1..(current - 1)
                BY <1>1, <1>2, <4>1 DEF LoopInv, ReadersSinceWriter
            <4> QED BY <1>6, <4>1, <4>2
        <3> QED BY <2>1, <3>1, <3>2 DEF StatePredecessors
    <2>2. ASSUME NEW p \in 1..(current - 1), wanted(p)
          PROVE  p \in StatePredecessors(c)
        <3>1. PICK key \in StateKeys :
                /\ NoneBetween(program, p, current, key)
                /\ \/ key \in program[p].writes /\ Touches(c, key)
                   \/ key \in program[p].reads  /\ key \in c.writes
            BY <2>2
        <3>2. CASE key \in program[p].writes
            <4>1. p = lastWriter[key] /\ p > 0
                BY <1>1, <1>5, <3>1, <3>2
            <4>2. key \in c.reads \cup c.writes
                BY <3>1, <3>2 DEF Touches
            <4> QED BY <4>1, <4>2 DEF StatePredecessors
        <3>3. CASE key \notin program[p].writes
            <4>1. p \in readers[key] /\ key \in c.writes
                BY <1>6, <3>1, <3>3
            <4> QED BY <4>1 DEF StatePredecessors
        <3> QED BY <3>2, <3>3
    <2> HIDE DEF wanted
    <2>3. StatePredecessors(c) = {p \in 1..(current - 1) : wanted(p)}
        BY <2>1, <2>2
    <2> QED BY <2>3 DEF wanted
<1>8. ASSUME NEW p
      PROVE  p \in ControlPredecessors(c) \cup MemoryPredecessors(c) \cup StatePredecessors(c)
             <=> p \in 1..(current - 1) /\ DirectDependency(program, p, current)
    BY <1>3, <1>4, <1>7 DEF DirectDependency, c
<1> QED BY <1>8 DEF c

\* One visit of the loop of BuildCommandDependencyGraph keeps every summary
\* right.
LEMMA VisitKeepsLoop == LoopInv /\ Visit => LoopInv'
<1> SUFFICES ASSUME LoopInv, Visit PROVE LoopInv'
    OBVIOUS
<1> DEFINE c == program[current]
<1>1. /\ program \in Seq(SemanticCommand) /\ Len(program) \in Nat
      /\ current \in 1..Len(program)
      /\ lastFence \in 0..(current - 1)
      /\ lastWriter \in [StateKeys -> 0..(current - 1)]
      /\ readers \in [StateKeys -> SUBSET Indices]
      /\ edges \in SUBSET (Indices \X Indices)
    BY DEF LoopInv, TypeOK, Visit
<1>2. c.reads \in SUBSET StateKeys /\ c.writes \in SUBSET StateKeys
    BY <1>1, CommandTyped
<1>3. /\ program' = program /\ current' = current + 1
      /\ current' - 1 = current
      /\ lastFence' = IF c.controlFence THEN current ELSE lastFence
      /\ lastWriter' = [key \in StateKeys |->
            IF key \in c.writes THEN current ELSE lastWriter[key]]
      /\ readers' = ReadersAfter(c)
      /\ edges' = edges \cup
            {p \in 1..(current - 1) : DirectDependency(program, p, current)} \X {current}
    BY <1>1, VisitFindsPredecessors DEF Visit
<1>4. \A m : m \in 1..(current' - 1) <=> m \in 1..(current - 1) \/ m = current
    BY <1>1, <1>3
<1> HIDE DEF c
<1>5. TypeOK'
    <2>1. readers' \in [StateKeys -> SUBSET Indices]
        BY <1>1, <1>3 DEF ReadersAfter, Indices
    <2>2. edges' \in SUBSET (Indices \X Indices)
        BY <1>1, <1>3 DEF Indices
    <2>3. lastWriter' \in [StateKeys -> 0..(current' - 1)]
        BY <1>1, <1>3
    <2> QED BY <1>1, <1>3, <2>1, <2>2, <2>3 DEF TypeOK, Indices
<1>6. FenceIsLast'
    <2>1. CASE c.controlFence
        BY <1>1, <1>3, <2>1 DEF FenceIsLast, c
    <2>2. CASE ~c.controlFence
        BY <1>1, <1>3, <1>4, <2>2 DEF LoopInv, FenceIsLast, c
    <2> QED BY <2>1, <2>2
<1>7. WritersAreLast'
    <2> SUFFICES ASSUME NEW key \in StateKeys
                 PROVE  /\ lastWriter'[key] > 0 => key \in program[lastWriter'[key]].writes
                        /\ \A m \in (lastWriter'[key] + 1)..current : key \notin program[m].writes
        BY <1>3 DEF WritersAreLast
    <2>1. CASE key \in c.writes
        BY <1>1, <1>3, <2>1 DEF c
    <2>2. CASE key \notin c.writes
        <3>1. lastWriter'[key] = lastWriter[key]
            BY <1>3, <2>2
        <3>2. ASSUME NEW m \in (lastWriter[key] + 1)..current
              PROVE  m = current \/ m \in (lastWriter[key] + 1)..(current - 1)
            BY <1>1
        <3> QED BY <2>2, <3>1, <3>2 DEF LoopInv, WritersAreLast, c
    <2> QED BY <2>1, <2>2
<1>8. ReadersSinceWriter'
    <2> SUFFICES ASSUME NEW key \in StateKeys
                 PROVE  readers'[key] = {r \in 1..current :
                            /\ key \in program[r].reads
                            /\ \A m \in r..current : key \notin program[m].writes}
        BY <1>3 DEF ReadersSinceWriter
    <2>1. readers[key] = {r \in 1..(current - 1) :
            /\ key \in program[r].reads
            /\ \A m \in r..(current - 1) : key \notin program[m].writes}
        BY DEF LoopInv, ReadersSinceWriter
    <2>2. CASE key \in c.writes
        <3>1. readers'[key] = {}
            BY <1>3, <2>2 DEF ReadersAfter
        <3>2. \A r \in 1..current : current \in r..current
            BY <1>1
        <3> QED BY <2>2, <3>1, <3>2 DEF c
    <2>3. CASE key \notin c.writes
        <3>1. readers'[key] = readers[key] \cup (IF key \in c.reads THEN {current} ELSE {})
            BY <1>3, <2>3 DEF ReadersAfter
        <3>2. ASSUME NEW r \in 1..(current - 1)
              PROVE  (\A m \in r..current : key \notin program[m].writes) <=>
                     (\A m \in r..(current - 1) : key \notin program[m].writes)
            <4>1. \A m : m \in r..current <=> m = current \/ m \in r..(current - 1)
                BY <1>1
            <4> QED BY <2>3, <4>1 DEF c
        <3>3. (\A m \in current..current : key \notin program[m].writes)
            BY <1>1, <2>3 DEF c
        <3> QED BY <1>3, <1>4, <2>1, <3>1, <3>2, <3>3 DEF c
    <2> QED BY <2>2, <2>3
<1>9. EdgesAreDirectDependencies'
    <2>1. edges = {e \in DependencyEdges(program) : e[2] < current}
        BY DEF LoopInv, EdgesAreDirectDependencies
    <2>2. ASSUME NEW e
          PROVE  e \in edges' <=> e \in DependencyEdges(program) /\ e[2] < current + 1
        <3>1. e \in edges' <=>
                \/ e \in DependencyEdges(program) /\ e[2] < current
                \/ /\ e \in (1..(current - 1)) \X {current}
                   /\ DirectDependency(program, e[1], current)
            BY <1>3, <2>1
        <3>2. (/\ e \in (1..(current - 1)) \X {current}
               /\ DirectDependency(program, e[1], current))
               <=> e \in DependencyEdges(program) /\ e[2] = current
            BY <1>1 DEF DependencyEdges
        <3>3. e \in DependencyEdges(program) => e[2] \in Nat
            BY <1>1 DEF DependencyEdges
        <3> QED BY <1>1, <3>1, <3>2, <3>3
    <2> QED BY <1>3, <2>2 DEF EdgesAreDirectDependencies
<1> QED BY <1>5, <1>6, <1>7, <1>8, <1>9 DEF LoopInv

\* The loop's summaries are right for every stream: the inductive invariant.
THEOREM LoopCorrect == Spec => []LoopInv
<1>1. Init => LoopInv
    BY LoopBegins, ProgramsAssumption DEF Init
<1>2. LoopInv /\ [Next]_vars => LoopInv'
    <2> SUFFICES ASSUME LoopInv, [Next]_vars PROVE LoopInv'
        OBVIOUS
    <2>1. CASE Visit
        BY <2>1, VisitKeepsLoop
    <2>2. CASE UNCHANGED vars
        BY <2>2 DEF vars, LoopInv, TypeOK, Indices, FenceIsLast, WritersAreLast,
                    ReadersSinceWriter, EdgesAreDirectDependencies
    <2> QED BY <2>1, <2>2 DEF Next
<1> QED BY <1>1, <1>2, PTL DEF Spec

\* Type correctness of the loop's variables.
THEOREM TypeCorrect == Spec => []TypeOK
<1>1. LoopInv => TypeOK
    BY DEF LoopInv
<1> QED BY <1>1, LoopCorrect, PTL

\* The loop computes the loop-free definition of the graph.
THEOREM EdgesCorrect == Spec => []EdgesAreDirectDependencies
<1>1. LoopInv => EdgesAreDirectDependencies
    BY DEF LoopInv
<1> QED BY <1>1, LoopCorrect, PTL

\* A direct dependency is a hazard.
LEMMA EdgesAreHazards == LoopInv => OrdersOnlyHazards
<1> SUFFICES ASSUME LoopInv, NEW e \in edges
             PROVE  e[1] < e[2] /\ Hazard(program[e[1]], program[e[2]])
    BY DEF OrdersOnlyHazards
<1>1. e[1] < e[2] /\ DirectDependency(program, e[1], e[2])
    BY DEF LoopInv, EdgesAreDirectDependencies, DependencyEdges
<1> QED BY <1>1 DEF DirectDependency, Hazard, StateConflict

\* The direct dependencies of the visited commands lead to every hazard.
LEMMA LoopOrdersHazards == LoopInv => OrdersEveryHazard
<1> SUFFICES ASSUME LoopInv, NEW i \in 1..(current - 1), NEW j \in 1..(current - 1),
                    i < j, Hazard(program[i], program[j]),
                    NEW S \in SUBSET (1..Len(program)), j \in S,
                    \A e \in edges : e[2] \in S => e[1] \in S
             PROVE  i \in S
    BY DEF OrdersEveryHazard, LeadsTo
<1>1. Len(program) \in Nat /\ current \in 1..(Len(program) + 1)
    BY DEF LoopInv, TypeOK
<1>2. current - 1 \in 1..Len(program) /\ i \in 1..(j - 1)
    BY <1>1
<1>3. ClosedUpTo(program, current - 1, S)
    <2>1. ASSUME NEW e \in DependencyEdges(program), e[2] <= current - 1
          PROVE  e \in edges
        <3>1. e[2] \in Nat
            BY <1>1 DEF DependencyEdges
        <3> QED BY <1>1, <2>1, <3>1 DEF LoopInv, EdgesAreDirectDependencies
    <2> QED BY <2>1 DEF ClosedUpTo
<1> QED BY <1>1, <1>2, <1>3, EdgesReachEveryHazard

\* No edge orders two commands without a hazard.
THEOREM OnlyHazards == Spec => []OrdersOnlyHazards
BY EdgesAreHazards, LoopCorrect, PTL

\* Every hazard between visited commands is ordered by a path of edges.
THEOREM EveryHazard == Spec => []OrdersEveryHazard
BY LoopOrdersHazards, LoopCorrect, PTL

-----------------------------------------------------------------------------
(* Copies stay inside the bounding spans of their two sides.               *)

IsShape(shape) == shape \in Loads!CopyShape /\ shape.length > 0 /\ shape.repeat2 > 0 /\ shape.repeat3 > 0

\* A word of a run lies in the bounding span, whatever the strides (DecodeDMA).
LEMMA RunsLieInSpan ==
    ASSUME NEW shape, IsShape(shape), NEW strides \in Nat \X Nat,
           NEW r \in Loads!Runs(shape), NEW x \in 0..(shape.length - 1)
    PROVE  /\ Loads!Offset(strides, r) \in Nat
           /\ Loads!Offset(strides, r) + x \in 0..(Loads!Span(shape, strides) - 1)
<1>1. PICK a, b, m, n, l : /\ a = strides[1] /\ b = strides[2] /\ l = shape.length
                           /\ m = shape.repeat2 - 1 /\ n = shape.repeat3 - 1
    OBVIOUS
<1>2. /\ a \in Nat /\ b \in Nat /\ m \in Nat /\ n \in Nat /\ l \in Nat
      /\ r[2] \in 0..m /\ r[1] \in 0..n
    BY <1>1 DEF IsShape, Loads!CopyShape, Loads!Runs
<1>3. \A u, v, w \in Nat : v <= w => u * v \in Nat /\ u * w \in Nat /\ u * v <= u * w
    OBVIOUS
<1>4. /\ a * r[2] \in Nat /\ a * m \in Nat /\ a * r[2] <= a * m
      /\ b * r[1] \in Nat /\ b * n \in Nat /\ b * r[1] <= b * n
    BY <1>2, <1>3
<1>5. Loads!Offset(strides, r) = a * r[2] + b * r[1] /\ Loads!Span(shape, strides) = l + a * m + b * n
    BY <1>1 DEF Loads!Offset, Loads!Span
<1>6. x \in Nat /\ x <= l - 1
    BY <1>1, <1>2
<1>7. PICK p, q, s, t \in Nat :
          /\ p = a * r[2] /\ q = a * m /\ s = b * r[1] /\ t = b * n
          /\ p <= q /\ s <= t
    BY <1>4
<1>8. PICK o, z \in Nat : o = p + s /\ z = l + q + t
    BY <1>2
<1>9. o + x \in 0..(z - 1)
    BY <1>2, <1>6, <1>7, <1>8
<1>10. Loads!Offset(strides, r) = o /\ Loads!Span(shape, strides) = z
    BY <1>5, <1>7, <1>8
<1> QED BY <1>8, <1>9, <1>10

\* Of the runs that write a word one is last.
LEMMA LastRun ==
    ASSUME NEW shape, IsShape(shape), NEW offset, Loads!RunsWriting(shape, offset) # {}
    PROVE  \E r \in Loads!RunsWriting(shape, offset) :
              \A s \in Loads!RunsWriting(shape, offset) \ {r} : Loads!RunsBefore(s, r)
<1> DEFINE W == Loads!RunsWriting(shape, offset)
<1>1. PICK m, n \in Nat : W \in SUBSET ((0..n) \X (0..m))
    <2>1. shape.repeat2 - 1 \in Nat /\ shape.repeat3 - 1 \in Nat
        BY DEF IsShape, Loads!CopyShape
    <2> QED BY <2>1 DEF Loads!RunsWriting, Loads!Runs
<1> HIDE DEF W
<1>2. PICK a \in {r[1] : r \in W} : \A y \in {r[1] : r \in W} : y <= a
    <2>1. {r[1] : r \in W} \in SUBSET (0..n) /\ {r[1] : r \in W} # {}
        BY <1>1 DEF W
    <2> QED BY <2>1, GreatestElement
<1>3. PICK b \in {r[2] : r \in {s \in W : s[1] = a}} :
          \A y \in {r[2] : r \in {s \in W : s[1] = a}} : y <= b
    <2>1. {r[2] : r \in {s \in W : s[1] = a}} \in SUBSET (0..m)
          /\ {r[2] : r \in {s \in W : s[1] = a}} # {}
        BY <1>1, <1>2
    <2> QED BY <2>1, GreatestElement
<1>4. PICK r \in W : r[1] = a /\ r[2] = b
    BY <1>3
<1>5. ASSUME NEW s \in W \ {r} PROVE Loads!RunsBefore(s, r)
    <2>1. s = <<s[1], s[2]>> /\ r = <<r[1], r[2]>> /\ s[1] \in Int /\ s[2] \in Int
          /\ r[1] \in Int /\ r[2] \in Int
        BY <1>1
    <2>2. s[1] <= a
        BY <1>2
    <2>3. s[1] = a => s[2] <= b
        BY <1>3
    <2> QED BY <1>4, <1>5, <2>1, <2>2, <2>3 DEF Loads!RunsBefore
<1> QED BY <1>4, <1>5 DEF W

\* A word that is written is one of the destination's span, and its source is
\* one of the source's.
LEMMA SourceLiesInSpan ==
    ASSUME NEW shape, IsShape(shape), NEW offset \in Int, Loads!RunsWriting(shape, offset) # {}
    PROVE  /\ offset \in 0..(Loads!Span(shape, shape.destination) - 1)
           /\ Loads!SourceOffset(shape, offset) \in 0..(Loads!Span(shape, shape.source) - 1)
<1> DEFINE last == CHOOSE r \in Loads!RunsWriting(shape, offset) :
                      \A s \in Loads!RunsWriting(shape, offset) \ {r} : Loads!RunsBefore(s, r)
<1>1. last \in Loads!RunsWriting(shape, offset)
    BY LastRun
<1>2. Loads!SourceOffset(shape, offset)
      = Loads!Offset(shape.source, last) + offset - Loads!Offset(shape.destination, last)
    BY DEF Loads!SourceOffset
<1> HIDE DEF last
<1>3. last \in Loads!Runs(shape) /\ offset - Loads!Offset(shape.destination, last) \in 0..(shape.length - 1)
    BY <1>1 DEF Loads!RunsWriting
<1>4. shape.source \in Nat \X Nat /\ shape.destination \in Nat \X Nat
    BY DEF IsShape, Loads!CopyShape
<1>5. PICK x : x = offset - Loads!Offset(shape.destination, last)
    OBVIOUS
<1>6. /\ Loads!Offset(shape.destination, last) \in Nat /\ Loads!Offset(shape.source, last) \in Nat
      /\ Loads!Offset(shape.destination, last) + x \in 0..(Loads!Span(shape, shape.destination) - 1)
      /\ Loads!Offset(shape.source, last) + x \in 0..(Loads!Span(shape, shape.source) - 1)
    BY <1>3, <1>4, <1>5, RunsLieInSpan
<1>7. x \in Int /\ offset = Loads!Offset(shape.destination, last) + x
    BY <1>5, <1>6
<1>8. Loads!SourceOffset(shape, offset) = Loads!Offset(shape.source, last) + x
    BY <1>2, <1>5, <1>6, <1>7
<1> QED BY <1>6, <1>7, <1>8

-----------------------------------------------------------------------------
(* What a command does to a memory.                                        *)

IsMemory(mem) == mem = [c \in Loads!MemoryOf(input) |-> mem[c]]

\* The commands of a decoded stream and what decoding fixes of its copies
\* (DecodeDMA).
LEMMA CopyTyped ==
    ASSUME input \in Loads!DecodedStreams, NEW i \in DOMAIN input
    PROVE  /\ input[i].accesses \in Seq(Loads!MemoryAccess)
           /\ input[i].shape \in Loads!CopyShape
           /\ \A m \in DOMAIN input[i].accesses :
                 /\ input[i].accesses[m].begin \in Nat /\ input[i].accesses[m].end \in Nat
                 /\ input[i].accesses[m].write \in BOOLEAN
           /\ Loads!IsCopy(input[i]) =>
                 /\ Loads!IsDecodedCopy(input[i]) /\ IsShape(input[i].shape)
                 /\ 1 \in DOMAIN input[i].accesses /\ 2 \in DOMAIN input[i].accesses
<1>1. input[i] \in Loads!SemanticCommand /\ (Loads!IsCopy(input[i]) => Loads!IsDecodedCopy(input[i]))
    BY DEF Loads!DecodedStreams
<1>2. input[i].accesses \in Seq(Loads!MemoryAccess) /\ input[i].shape \in Loads!CopyShape
    BY <1>1 DEF Loads!SemanticCommand
<1>3. \A m \in DOMAIN input[i].accesses : input[i].accesses[m] \in Loads!MemoryAccess
    BY <1>2
<1> QED BY <1>1, <1>2, <1>3 DEF Loads!MemoryAccess, Loads!IsDecodedCopy, IsShape

\* The words of a command's accesses are words of the memory.
LEMMA AccessesInMemory ==
    ASSUME input \in Loads!DecodedStreams, NEW i \in DOMAIN input,
           NEW m \in DOMAIN input[i].accesses,
           NEW o \in input[i].accesses[m].begin..(input[i].accesses[m].end - 1)
    PROVE  <<input[i].accesses[m].storage, o>> \in Loads!MemoryOf(input)
<1>1. input[i].accesses[m].write \in BOOLEAN
    BY CopyTyped
<1>2. CASE input[i].accesses[m].write = TRUE
    <2>1. <<input[i].accesses[m].storage, o>> \in Loads!MemoryCells(input[i], TRUE)
        BY <1>2 DEF Loads!MemoryCells
    <2> QED BY <2>1, ZenonT(40) DEF Loads!MemoryOf
<1>3. CASE input[i].accesses[m].write = FALSE
    <2>1. <<input[i].accesses[m].storage, o>> \in Loads!MemoryCells(input[i], FALSE)
        BY <1>3 DEF Loads!MemoryCells
    <2> QED BY <2>1, ZenonT(40) DEF Loads!MemoryOf
<1> QED BY <1>1, <1>2, <1>3

\* Cells are pairs of a storage and an address.
LEMMA CellsArePairs ==
    ASSUME input \in Loads!DecodedStreams, NEW c \in Loads!MemoryOf(input)
    PROVE  c = <<c[1], c[2]>> /\ c[2] \in Int
<1>1. PICK i \in DOMAIN input, w \in BOOLEAN : c \in Loads!MemoryCells(input[i], w)
    BY DEF Loads!MemoryOf
<1>2. PICK m \in DOMAIN input[i].accesses :
          \E o \in input[i].accesses[m].begin..(input[i].accesses[m].end - 1) :
              c = <<input[i].accesses[m].storage, o>>
    BY <1>1 DEF Loads!MemoryCells
<1>3. input[i].accesses[m].begin \in Nat /\ input[i].accesses[m].end \in Nat
    BY CopyTyped
<1> QED BY <1>2, <1>3

\* A command changes a word only where it has an access that writes (Executed).
LEMMA OnlyWritesChange ==
    ASSUME input \in Loads!DecodedStreams, NEW i \in DOMAIN input, NEW mem, IsMemory(mem),
           NEW c \in Loads!MemoryOf(input), Loads!Executed(mem, i)[c] # mem[c]
    PROVE  \E m \in DOMAIN input[i].accesses :
              /\ input[i].accesses[m].write /\ input[i].accesses[m].storage = c[1]
              /\ c[2] \in input[i].accesses[m].begin..(input[i].accesses[m].end - 1)
<1>1. DOMAIN mem = Loads!MemoryOf(input)
    BY DEF IsMemory
<1>2. CASE Loads!IsCopy(input[i])
    <2> DEFINE to == input[i].accesses[2]
    <2>1. c[1] = to.storage /\ Loads!RunsWriting(input[i].shape, c[2] - to.begin) # {}
        BY <1>1, <1>2 DEF Loads!Executed, Loads!Copied
    <2>2. /\ Loads!IsDecodedCopy(input[i]) /\ IsShape(input[i].shape)
          /\ 2 \in DOMAIN input[i].accesses /\ to.begin \in Nat /\ to.end \in Nat /\ c[2] \in Int
        BY <1>2, CopyTyped, CellsArePairs
    <2>3. c[2] - to.begin \in 0..(Loads!Span(input[i].shape, input[i].shape.destination) - 1)
        BY <2>1, <2>2, SourceLiesInSpan
    <2>4. to.write /\ to.end = to.begin + Loads!Span(input[i].shape, input[i].shape.destination)
        BY <2>2 DEF Loads!IsDecodedCopy
    <2>5. c[2] \in to.begin..(to.end - 1)
        <3>1. PICK s : s = Loads!Span(input[i].shape, input[i].shape.destination)
            OBVIOUS
        <3>2. s \in Int
            BY <2>2, <3>1 DEF Loads!Span, IsShape, Loads!CopyShape
        <3> QED BY <2>2, <2>3, <2>4, <3>1, <3>2
    <2> QED BY <2>1, <2>2, <2>4, <2>5
<1>3. CASE ~Loads!IsCopy(input[i])
    <2>1. c \in Loads!MemoryCells(input[i], TRUE)
        BY <1>1, <1>3 DEF Loads!Executed
    <2> QED BY <2>1 DEF Loads!MemoryCells
<1> QED BY <1>2, <1>3

\* Executing a command only changes the words of a memory, not which there are.
LEMMA ExecutedIsMemory ==
    ASSUME NEW mem, IsMemory(mem), NEW i
    PROVE  IsMemory(Loads!Executed(mem, i))
BY DEF IsMemory, Loads!Executed, Loads!Copied

\* A copy puts the word of the source it says into each word of the destination
\* it writes (Copied).
LEMMA CopyMovesWords ==
    ASSUME input \in Loads!DecodedStreams, NEW i \in DOMAIN input, Loads!IsCopy(input[i]),
           NEW mem, IsMemory(mem), NEW offset \in Int,
           Loads!RunsWriting(input[i].shape, offset) # {},
           NEW from, from = input[i].accesses[1], NEW to, to = input[i].accesses[2]
    PROVE  /\ <<to.storage, to.begin + offset>> \in Loads!MemoryOf(input)
           /\ to.begin + offset \in to.begin..(to.end - 1)
           /\ <<from.storage, from.begin + Loads!SourceOffset(input[i].shape, offset)>>
                  \in Loads!MemoryOf(input)
           /\ from.begin + Loads!SourceOffset(input[i].shape, offset) \in from.begin..(from.end - 1)
           /\ Loads!Executed(mem, i)[<<to.storage, to.begin + offset>>]
                  = mem[<<from.storage, from.begin + Loads!SourceOffset(input[i].shape, offset)>>]
<1>1. /\ Loads!IsDecodedCopy(input[i]) /\ IsShape(input[i].shape)
      /\ 1 \in DOMAIN input[i].accesses /\ 2 \in DOMAIN input[i].accesses
      /\ from.begin \in Nat /\ from.end \in Nat /\ to.begin \in Nat /\ to.end \in Nat
    BY CopyTyped
<1>2. PICK o : o = Loads!SourceOffset(input[i].shape, offset)
    OBVIOUS
<1>3. PICK s, d \in Int : /\ s = Loads!Span(input[i].shape, input[i].shape.source)
                          /\ d = Loads!Span(input[i].shape, input[i].shape.destination)
    <2>1. /\ input[i].shape.source \in Nat \X Nat /\ input[i].shape.destination \in Nat \X Nat
          /\ input[i].shape.length \in Nat /\ input[i].shape.repeat2 \in Nat
          /\ input[i].shape.repeat3 \in Nat
        BY <1>1 DEF IsShape, Loads!CopyShape
    <2>2. \A strides \in Nat \X Nat : Loads!Span(input[i].shape, strides) \in Int
        BY <2>1 DEF Loads!Span
    <2> QED BY <2>1, <2>2
<1>4. offset \in 0..(d - 1) /\ o \in 0..(s - 1)
    BY <1>1, <1>2, <1>3, SourceLiesInSpan
<1>5. from.end = from.begin + s /\ to.end = to.begin + d
    BY <1>1, <1>3 DEF Loads!IsDecodedCopy
<1>6. to.begin + offset \in to.begin..(to.end - 1) /\ from.begin + o \in from.begin..(from.end - 1)
    BY <1>1, <1>4, <1>5
<1>7. <<to.storage, to.begin + offset>> \in Loads!MemoryOf(input)
      /\ <<from.storage, from.begin + o>> \in Loads!MemoryOf(input)
    BY <1>1, <1>6, AccessesInMemory
<1>8. Loads!Executed(mem, i)[<<to.storage, to.begin + offset>>] = mem[<<from.storage, from.begin + o>>]
    <2>1. DOMAIN mem = Loads!MemoryOf(input)
        BY DEF IsMemory
    <2>2. PICK cell : cell = <<to.storage, to.begin + offset>>
        OBVIOUS
    <2>3. cell[1] = to.storage /\ cell[2] - to.begin = offset /\ cell \in DOMAIN mem
        <3>1. cell[1] = to.storage /\ cell[2] = to.begin + offset
            BY <2>2
        <3> QED BY <1>1, <1>7, <2>1, <2>2, <3>1
    <2>4. Loads!Executed(mem, i) = Loads!Copied(mem, input[i])
        BY DEF Loads!Executed
    <2>5. Loads!Copied(mem, input[i])[cell]
          = mem[<<from.storage, from.begin + Loads!SourceOffset(input[i].shape, cell[2] - to.begin)>>]
        BY <2>3 DEF Loads!Copied
    <2> QED BY <1>2, <2>2, <2>3, <2>4, <2>5
<1> QED BY <1>2, <1>6, <1>7, <1>8

-----------------------------------------------------------------------------
(* The pass.                                                               *)

\* A resident transfer is a load of the stream that leaves its source alone.
IsLoaded(t) ==
    \E i \in DOMAIN input :
        Loads!IsLoad(input[i]) /\ t = Loads!Transfer(input[i]) /\ ~Loads!Overlaps(t.source, t.destination)

LoadInv ==
    /\ input \in Loads!DecodedStreams
    /\ Loads!TypeOK
    /\ IsMemory(inputMem) /\ IsMemory(outputMem)
    /\ \A t \in transfers : IsLoaded(t)
    /\ Loads!SameMemory
    /\ Loads!ResidentTransfersHold

DestinationCell(t, offset) == <<t.destination.storage, t.destination.begin + offset>>
SourceCell(t, offset) == <<t.source.storage, t.source.begin + Loads!SourceOffset(t.shape, offset)>>

\* The word a resident transfer says it wrote is where the transfer writes.
LEMMA CellsOfTransfer ==
    ASSUME input \in Loads!DecodedStreams, NEW t, IsLoaded(t), NEW offset \in Int,
           Loads!RunsWriting(t.shape, offset) # {}
    PROVE  /\ DestinationCell(t, offset) \in Loads!MemoryOf(input)
           /\ SourceCell(t, offset) \in Loads!MemoryOf(input)
           /\ t.destination.begin + offset \in t.destination.begin..(t.destination.end - 1)
           /\ t.source.begin + Loads!SourceOffset(t.shape, offset) \in t.source.begin..(t.source.end - 1)
           /\ t.destination.begin \in Nat /\ t.destination.end \in Nat
           /\ t.source.begin \in Nat /\ t.source.end \in Nat
           /\ offset \in 0..(t.destination.end - t.destination.begin - 1)
<1>1. PICK i \in DOMAIN input : Loads!IsLoad(input[i]) /\ t = Loads!Transfer(input[i])
    BY DEF IsLoaded
<1>2. /\ Loads!IsCopy(input[i]) /\ t.shape = input[i].shape
      /\ t.source = input[i].accesses[1] /\ t.destination = input[i].accesses[2]
    BY <1>1 DEF Loads!IsLoad, Loads!Transfer
<1>3. PICK mem : IsMemory(mem)
    BY DEF IsMemory
<1>4. /\ DestinationCell(t, offset) \in Loads!MemoryOf(input)
      /\ SourceCell(t, offset) \in Loads!MemoryOf(input)
      /\ t.destination.begin + offset \in t.destination.begin..(t.destination.end - 1)
      /\ t.source.begin + Loads!SourceOffset(t.shape, offset) \in t.source.begin..(t.source.end - 1)
    BY <1>2, <1>3, CopyMovesWords DEF DestinationCell, SourceCell
<1>5. /\ t.destination.begin \in Nat /\ t.destination.end \in Nat
      /\ t.source.begin \in Nat /\ t.source.end \in Nat
    BY <1>2, CopyTyped
<1>6. offset \in 0..(t.destination.end - t.destination.begin - 1)
    BY <1>4, <1>5
<1> QED BY <1>4, <1>5, <1>6

\* Running a resident transfer again changes nothing.
LEMMA ResidentIsIdempotent ==
    ASSUME LoadInv, NEW i \in DOMAIN input, Loads!IsLoad(input[i]), Loads!IsResident(input[i])
    PROVE  Loads!Executed(inputMem, i) = inputMem
<1> DEFINE t == Loads!Transfer(input[i])
           c == input[i]
<1>1. /\ Loads!IsCopy(c) /\ t \in transfers /\ IsLoaded(t) /\ input \in Loads!DecodedStreams
      /\ t.shape = c.shape /\ t.source = c.accesses[1] /\ t.destination = c.accesses[2]
    BY DEF Loads!IsLoad, Loads!IsResident, LoadInv, Loads!Transfer
<1>2. IsMemory(inputMem) /\ IsMemory(Loads!Executed(inputMem, i))
    BY ExecutedIsMemory DEF LoadInv
<1>3. ASSUME NEW cell \in Loads!MemoryOf(input) PROVE Loads!Executed(inputMem, i)[cell] = inputMem[cell]
    <2>1. cell = <<cell[1], cell[2]>> /\ cell[2] \in Int /\ DOMAIN inputMem = Loads!MemoryOf(input)
        BY <1>1, <1>2, CellsArePairs DEF IsMemory
    <2>2. CASE cell[1] = c.accesses[2].storage
               /\ Loads!RunsWriting(c.shape, cell[2] - c.accesses[2].begin) # {}
        <3>1. PICK o : o = cell[2] - c.accesses[2].begin
            OBVIOUS
        <3>2. c.accesses[2].begin \in Nat
            BY <1>1, CopyTyped
        <3>3. o \in Int /\ cell = DestinationCell(t, o) /\ Loads!RunsWriting(t.shape, o) # {}
            BY <1>1, <2>1, <2>2, <3>1, <3>2 DEF DestinationCell
        <3>4. o \in 0..(t.destination.end - t.destination.begin - 1)
            BY <1>1, <3>3, CellsOfTransfer
        <3>5. inputMem[DestinationCell(t, o)] = inputMem[SourceCell(t, o)]
            BY <1>1, <3>3, <3>4 DEF LoadInv, Loads!ResidentTransfersHold, DestinationCell, SourceCell
        <3>6. Loads!Executed(inputMem, i)[DestinationCell(t, o)] = inputMem[SourceCell(t, o)]
            <4>1. PICK shape, from, to : /\ shape = input[i].shape /\ from = input[i].accesses[1]
                                         /\ to = input[i].accesses[2]
                OBVIOUS
            <4>2. t.shape = shape /\ t.source = from /\ t.destination = to
                BY <1>1, <4>1
            <4>3. Loads!RunsWriting(input[i].shape, o) # {} /\ o \in Int /\ Loads!IsCopy(input[i])
                BY <1>1, <3>3
            <4> HIDE DEF t, c
            <4>4. Loads!Executed(inputMem, i)[<<to.storage, to.begin + o>>]
                    = inputMem[<<from.storage, from.begin + Loads!SourceOffset(shape, o)>>]
                BY <1>1, <1>2, <4>1, <4>3, CopyMovesWords
            <4> QED BY <4>2, <4>4 DEF DestinationCell, SourceCell
        <3> QED BY <3>3, <3>5, <3>6
    <2>3. CASE ~(cell[1] = c.accesses[2].storage
                 /\ Loads!RunsWriting(c.shape, cell[2] - c.accesses[2].begin) # {})
        BY <1>1, <2>1, <2>3 DEF Loads!Executed, Loads!Copied
    <2> QED BY <2>2, <2>3
<1> QED BY <1>2, <1>3 DEF IsMemory

\* A command that does not overlap a resident transfer leaves its words alone.
LEMMA UntouchedKeepTheirWords ==
    ASSUME input \in Loads!DecodedStreams, NEW mem, IsMemory(mem), NEW i \in DOMAIN input,
           NEW t, IsLoaded(t), NEW offset \in Int, Loads!RunsWriting(t.shape, offset) # {},
           \A m \in DOMAIN input[i].accesses : input[i].accesses[m].write =>
              /\ ~Loads!Overlaps(input[i].accesses[m], t.source)
              /\ ~Loads!Overlaps(input[i].accesses[m], t.destination)
    PROVE  /\ Loads!Executed(mem, i)[DestinationCell(t, offset)] = mem[DestinationCell(t, offset)]
           /\ Loads!Executed(mem, i)[SourceCell(t, offset)] = mem[SourceCell(t, offset)]
<1>1. \A m \in DOMAIN input[i].accesses :
          input[i].accesses[m].begin \in Nat /\ input[i].accesses[m].end \in Nat
    BY CopyTyped
<1>2. ASSUME NEW s, NEW o, <<s.storage, o>> \in Loads!MemoryOf(input), o \in s.begin..(s.end - 1),
             s.begin \in Nat, s.end \in Nat,
             \A m \in DOMAIN input[i].accesses : input[i].accesses[m].write =>
                ~Loads!Overlaps(input[i].accesses[m], s)
      PROVE  Loads!Executed(mem, i)[<<s.storage, o>>] = mem[<<s.storage, o>>]
    <2> SUFFICES ASSUME Loads!Executed(mem, i)[<<s.storage, o>>] # mem[<<s.storage, o>>] PROVE FALSE
        OBVIOUS
    <2>1. PICK cell : cell = <<s.storage, o>>
        OBVIOUS
    <2>2. PICK m \in DOMAIN input[i].accesses :
              /\ input[i].accesses[m].write /\ input[i].accesses[m].storage = cell[1]
              /\ cell[2] \in input[i].accesses[m].begin..(input[i].accesses[m].end - 1)
        BY <1>2, <2>1, OnlyWritesChange
    <2>3. Loads!Overlaps(input[i].accesses[m], s)
        BY <1>1, <1>2, <2>1, <2>2 DEF Loads!Overlaps
    <2> QED BY <1>2, <2>2, <2>3
<1>3. /\ DestinationCell(t, offset) \in Loads!MemoryOf(input)
      /\ SourceCell(t, offset) \in Loads!MemoryOf(input)
      /\ t.destination.begin + offset \in t.destination.begin..(t.destination.end - 1)
      /\ t.source.begin + Loads!SourceOffset(t.shape, offset) \in t.source.begin..(t.source.end - 1)
      /\ t.destination.begin \in Nat /\ t.destination.end \in Nat
      /\ t.source.begin \in Nat /\ t.source.end \in Nat
    BY CellsOfTransfer
<1> QED BY <1>2, <1>3 DEF DestinationCell, SourceCell

\* A transfer in memory keeps holding over any command that leaves it alone,
\* and holds once it has been run.
LEMMA TransfersKeepHolding ==
    ASSUME LoadInv, NEW i \in DOMAIN input, NEW t \in transfers, t \notin Loads!Invalidated(input[i]),
           NEW offset \in 0..(t.destination.end - t.destination.begin - 1),
           Loads!RunsWriting(t.shape, offset) # {}
    PROVE  Loads!Executed(inputMem, i)[DestinationCell(t, offset)]
               = Loads!Executed(inputMem, i)[SourceCell(t, offset)]
<1>1. IsLoaded(t) /\ input \in Loads!DecodedStreams /\ IsMemory(inputMem) /\ offset \in Int
    BY DEF LoadInv
<1>2. inputMem[DestinationCell(t, offset)] = inputMem[SourceCell(t, offset)]
    BY DEF LoadInv, Loads!ResidentTransfersHold, DestinationCell, SourceCell
<1>3. \A m \in DOMAIN input[i].accesses : input[i].accesses[m].write =>
              /\ ~Loads!Overlaps(input[i].accesses[m], t.source)
              /\ ~Loads!Overlaps(input[i].accesses[m], t.destination)
    BY DEF Loads!Invalidated
<1> QED BY <1>1, <1>2, <1>3, UntouchedKeepTheirWords

\* A kept load is resident from here on: its destination holds its source's
\* words (the push into resident in OptimizeDMAResidency).
LEMMA LoadsHold ==
    ASSUME LoadInv, NEW i \in DOMAIN input, Loads!IsLoad(input[i]),
           ~Loads!Overlaps(input[i].accesses[1], input[i].accesses[2]),
           NEW t, t = Loads!Transfer(input[i]), NEW offset \in Int, Loads!RunsWriting(t.shape, offset) # {}
    PROVE  Loads!Executed(inputMem, i)[DestinationCell(t, offset)]
               = Loads!Executed(inputMem, i)[SourceCell(t, offset)]
<1>1. /\ input \in Loads!DecodedStreams /\ IsMemory(inputMem) /\ Loads!IsCopy(input[i])
      /\ t.shape = input[i].shape
      /\ t.source = input[i].accesses[1] /\ t.destination = input[i].accesses[2]
    BY DEF LoadInv, Loads!IsLoad, Loads!Transfer
<1>2. IsLoaded(t)
    BY <1>1 DEF IsLoaded
<1>3. Loads!Executed(inputMem, i)[DestinationCell(t, offset)] = inputMem[SourceCell(t, offset)]
    BY <1>1, CopyMovesWords DEF DestinationCell, SourceCell
<1>4. Loads!Executed(inputMem, i)[SourceCell(t, offset)] = inputMem[SourceCell(t, offset)]
    <2> SUFFICES ASSUME Loads!Executed(inputMem, i)[SourceCell(t, offset)]
                            # inputMem[SourceCell(t, offset)]
                 PROVE  FALSE
        OBVIOUS
    <2>1. /\ SourceCell(t, offset) \in Loads!MemoryOf(input)
          /\ t.source.begin + Loads!SourceOffset(t.shape, offset) \in t.source.begin..(t.source.end - 1)
          /\ t.source.begin \in Nat /\ t.source.end \in Nat
        BY <1>1, <1>2, CellsOfTransfer
    <2>2. PICK cell : /\ cell = SourceCell(t, offset) /\ cell[1] = t.source.storage
                      /\ cell[2] \in t.source.begin..(t.source.end - 1)
        BY <2>1 DEF SourceCell
    <2>3. PICK m \in DOMAIN input[i].accesses :
              /\ input[i].accesses[m].write /\ input[i].accesses[m].storage = cell[1]
              /\ cell[2] \in input[i].accesses[m].begin..(input[i].accesses[m].end - 1)
        BY <1>1, <2>1, <2>2, OnlyWritesChange
    <2>4. m = 2
        <3>1. Loads!IsDecodedCopy(input[i]) /\ input[i].accesses \in Seq(Loads!MemoryAccess)
            BY <1>1, CopyTyped
        <3>2. m \in {1, 2} /\ ~input[i].accesses[1].write
            BY <3>1, <2>3 DEF Loads!IsDecodedCopy
        <3> QED BY <2>3, <3>2
    <2>5. t.destination.begin \in Nat /\ t.destination.end \in Nat
        BY <1>1, <1>2, CellsOfTransfer
    <2>6. Loads!Overlaps(input[i].accesses[1], input[i].accesses[2])
        BY <1>1, <2>1, <2>2, <2>3, <2>4, <2>5 DEF Loads!Overlaps
    <2> QED BY <2>6
<1> QED BY <1>3, <1>4

\* Nothing is resident at first.
LEMMA LoadsBegin ==
    ASSUME Programs \subseteq Loads!DecodedStreams
    PROVE  Loads!Init => LoadInv
<1> SUFFICES ASSUME Loads!Init PROVE LoadInv
    OBVIOUS
<1>1. input \in Loads!DecodedStreams /\ Len(input) \in Nat
    BY DEF Loads!Init, Loads!DecodedStreams
<1>2. Loads!TypeOK
    <2>1. kept \in Seq(1..Len(input)) /\ visited \in 1..(Len(input) + 1)
        BY <1>1 DEF Loads!Init
    <2> QED BY <2>1 DEF Loads!Init, Loads!TypeOK
<1>3. IsMemory(inputMem) /\ IsMemory(outputMem)
    BY DEF Loads!Init, IsMemory
<1>4. Loads!SameMemory /\ Loads!ResidentTransfersHold /\ \A t \in transfers : IsLoaded(t)
    BY DEF Loads!Init, Loads!SameMemory, Loads!ResidentTransfersHold
<1> QED BY <1>1, <1>2, <1>3, <1>4 DEF LoadInv

\* A visit drops only what changes no word and keeps what it claims of the rest
\* (the loop body of OptimizeDMAResidency).
LEMMA VisitKeepsLoads == LoadInv /\ Loads!Visit => LoadInv'
<1> SUFFICES ASSUME LoadInv, Loads!Visit PROVE LoadInv'
    OBVIOUS
<1> DEFINE c == input[visited]
<1>1. /\ input \in Loads!DecodedStreams /\ Len(input) \in Nat /\ visited \in DOMAIN input
      /\ visited \in 1..Len(input) /\ ~failed /\ outputMem = inputMem
      /\ IsMemory(inputMem) /\ input' = input /\ visited' = visited + 1
      /\ inputMem' = Loads!Executed(inputMem, visited) /\ kept \in Seq(1..Len(input))
    BY DEF LoadInv, Loads!TypeOK, Loads!Visit, Loads!DecodedStreams, Loads!SameMemory
<1>2. IsMemory(inputMem)' /\ DOMAIN inputMem' = Loads!MemoryOf(input)
    BY <1>1, ExecutedIsMemory DEF IsMemory
<1>3. CASE Loads!IsLoad(c) /\ Loads!IsResident(c)
    <2>1. UNCHANGED <<transfers, kept, failed, outputMem>>
        BY <1>3 DEF Loads!Visit, Loads!Drop
    <2>2. inputMem' = inputMem
        BY <1>1, <1>3, ResidentIsIdempotent
    <2>3. Loads!TypeOK'
        BY <1>1, <2>1, <2>2 DEF LoadInv, Loads!TypeOK
    <2>4. Loads!ResidentTransfersHold'
        BY <2>1, <2>2 DEF LoadInv, Loads!ResidentTransfersHold
    <2>5. Loads!SameMemory' /\ IsMemory(outputMem)'
        BY <1>1, <1>2, <2>1, <2>2 DEF Loads!SameMemory, IsMemory
    <2>6. (\A t \in transfers : IsLoaded(t))'
        BY <1>1, <2>1 DEF LoadInv, IsLoaded
    <2> QED BY <1>1, <1>2, <2>3, <2>4, <2>5, <2>6 DEF LoadInv
<1>4. CASE ~(Loads!IsLoad(c) /\ Loads!IsResident(c))
    <2>1. Loads!Keep(c)
        BY <1>4 DEF Loads!Visit
    <2>2. /\ outputMem' = inputMem' /\ failed' \in BOOLEAN
          /\ kept' \in Seq(1..Len(input))
        <3>1. outputMem' = inputMem'
            BY <1>1, <2>1 DEF Loads!Keep
        <3>2. failed' \in BOOLEAN
            BY <2>1, Zenon DEF Loads!Keep
        <3>3. kept' = kept \/ kept' = Append(kept, visited)
            BY <2>1 DEF Loads!Keep
        <3>4. Append(kept, visited) \in Seq(1..Len(input))
            BY <1>1
        <3> QED BY <1>1, <3>1, <3>2, <3>3, <3>4
    <2>7. \A t \in transfers' : \/ t \in transfers /\ t \notin Loads!Invalidated(c)
                               \/ /\ Loads!IsLoad(c) /\ t = Loads!Transfer(c)
                                  /\ ~Loads!Overlaps(c.accesses[1], c.accesses[2])
        BY <2>1 DEF Loads!Keep
    <2>3. \A t \in transfers' : IsLoaded(t)
        BY <1>1, <2>7 DEF LoadInv, IsLoaded, Loads!Transfer
    <2>4. Loads!ResidentTransfersHold'
        <3> SUFFICES ASSUME NEW t \in transfers',
                            NEW offset \in 0..(t.destination.end - t.destination.begin - 1),
                            Loads!RunsWriting(t.shape, offset) # {}
                     PROVE  inputMem'[DestinationCell(t, offset)] = inputMem'[SourceCell(t, offset)]
            BY DEF Loads!ResidentTransfersHold, DestinationCell, SourceCell
        <3>1. CASE t \in transfers /\ t \notin Loads!Invalidated(c)
            BY <1>1, <3>1, TransfersKeepHolding
        <3>2. CASE Loads!IsLoad(c) /\ t = Loads!Transfer(c) /\ ~Loads!Overlaps(c.accesses[1], c.accesses[2])
            <4>1. offset \in Int
                OBVIOUS
            <4> QED BY <1>1, <3>2, <4>1, LoadsHold
        <3> QED BY <2>7, <3>1, <3>2
    <2>5. Loads!TypeOK'
        <3>1. \A t \in transfers' : t.destination.storage = Loads!TCDM /\ t.destination.write
            <4> TAKE t \in transfers'
            <4>1. PICK i \in DOMAIN input : Loads!IsLoad(input[i]) /\ t = Loads!Transfer(input[i])
                BY <2>3 DEF IsLoaded
            <4> QED BY <1>1, <4>1, CopyTyped DEF Loads!IsLoad, Loads!Transfer, Loads!IsDecodedCopy
        <3> QED BY <1>1, <2>2, <3>1 DEF Loads!TypeOK
    <2>6. (\A t \in transfers : IsLoaded(t))'
        BY <1>1, <2>3 DEF IsLoaded
    <2> QED BY <1>1, <1>2, <2>2, <2>4, <2>5, <2>6 DEF LoadInv, Loads!SameMemory, IsMemory
<1> QED BY <1>3, <1>4

\* The invariant is about the variables of the pass alone.
LEMMA StutterKeepsLoads == LoadInv /\ UNCHANGED Loads!vars => LoadInv'
<1> SUFFICES ASSUME LoadInv, UNCHANGED Loads!vars PROVE LoadInv'
    OBVIOUS
<1>1. /\ input' = input /\ visited' = visited /\ transfers' = transfers /\ kept' = kept
      /\ failed' = failed /\ inputMem' = inputMem /\ outputMem' = outputMem
    BY DEF Loads!vars
<1>2. Loads!TypeOK' /\ Loads!SameMemory'
    BY <1>1 DEF LoadInv, Loads!TypeOK, Loads!SameMemory
<1>3. Loads!ResidentTransfersHold'
    BY <1>1 DEF LoadInv, Loads!ResidentTransfersHold
<1>4. IsMemory(inputMem)' /\ IsMemory(outputMem)' /\ (\A t \in transfers : IsLoaded(t))'
    BY <1>1 DEF LoadInv, IsMemory, IsLoaded
<1> QED BY <1>1, <1>2, <1>3, <1>4 DEF LoadInv

\* Every reachable state of the pass keeps both memories alike, and every
\* transfer it counts as resident in place (OptimizeDMAResidency).
THEOREM LoadsCorrect ==
    ASSUME Programs \subseteq Loads!DecodedStreams
    PROVE  Loads!Spec => []LoadInv
<1>1. LoadInv /\ [Loads!Next]_(Loads!vars) => LoadInv'
    BY VisitKeepsLoads, StutterKeepsLoads DEF Loads!Next
<1> QED BY <1>1, LoadsBegin, PTL DEF Loads!Spec

\* The passes after it leave its work alone.
LEMMA PassesImplementLoads == PassSpec => Loads!Spec
<1>1. PassInit => Loads!Init
    BY DEF PassInit
<1>2. [PassNext]_passVars => [Loads!Next]_(Loads!vars)
    BY DEF PassNext, passVars, DropLoads, DropStateLoads, DrawEdges, StartAnnotation,
           AnnotateContent, Loads!Next, Loads!vars, loadVars
<1> QED BY <1>1, <1>2, PTL DEF PassSpec, Loads!Spec

\* Dropping loads shows in no word of any memory, whatever part of the stream
\* has run and whatever the stream; what counts as resident is in place
\* (OptimizeDMAResidency).
THEOREM LoadsShowNowhere == PassSpec => []SameMemory
<1>1. LoadInv => SameMemory
    BY DEF LoadInv, SameMemory
<1> QED BY <1>1, LoadsCorrect, CopiesAssumption, PassesImplementLoads, PTL

-----------------------------------------------------------------------------
(* The two passes over the parameters and the tables.  Commands are named   *)
(* by their number in the stream they come from, KeptStream.                *)

\* The commands left, as the parameter pass leaves them.
Left == [k \in DOMAIN origin |-> KeptStream[origin[k]]]

Before(i, key) == States!Content(KeptStream, States!Identity(KeptStream), i, key)
After(k, key)  == States!Content(Left, origin, k, key)
Final(k, key)  == States!Content(program, origin, k, key)

\* Until the loads have been dropped the passes have not begun.
NotBegun ==
    /\ pass = "qparam" /\ rewritten = 1 /\ programmed = 0
    /\ origin = <<>> /\ program = <<>>

StreamTyped ==
    /\ input \in Programs
    /\ visited \in Nat \ {0}
    /\ kept \in Seq(DOMAIN input)
    /\ visited <= Len(input) \/ failed => NotBegun

StateTyped ==
    /\ pass \in {"qparam", "lut", "done"}
    /\ rewritten \in Nat \ {0}
    /\ programmed \in Nat
    /\ origin \in Seq(DOMAIN KeptStream)
    /\ program \in Seq(SemanticCommand)
    /\ Len(program) = Len(origin)

\* The parameter pass leaves each command what it found, and every command
\* visited but a load.
ParametersStay ==
    /\ \A k \in DOMAIN origin, key \in StateKeys : After(k, key) = Before(origin[k], key)
    /\ \A i \in DOMAIN KeptStream :
          (pass = "qparam" => i < rewritten) /\ KeptStream[i].type # "RQLoad" =>
              \E k \in DOMAIN origin : origin[k] = i

\* While it runs: the state that is left so far, and the block it remembers.
ParametersKnown ==
    pass = "qparam" =>
        /\ program = Left
        /\ rewritten <= Len(KeptStream) + 1
        /\ \A key \in StateKeys : After(Len(origin) + 1, key) = Before(rewritten, key)
        /\ programmed # 0 => Before(rewritten, Quantization) = <<"block", programmed>>

\* The table pass marks visited lookups as reusing and changes nothing else;
\* a lookup visited reuses exactly the table it finds, and every reader finds
\* the table it found.
TablesStay ==
    pass # "qparam" =>
        /\ rewritten <= Len(origin) + 1
        /\ \A k \in DOMAIN origin :
              \/ program[k] = Left[k]
              \/ /\ k < rewritten /\ Left[k].type = "AFULut"
                 /\ program[k] = States!Reusing(Left[k])
        /\ \A k \in 1..rewritten : Final(k, AFULutBanks) = After(k, AFULutBanks)
        /\ \A k \in 1..(rewritten - 1) : program[k].type = "AFULut" =>
              (program[k].reuse <=>
                  Final(k, AFULutBanks) = <<"block", program[k].identity>>)

\* The table it remembers is in the banks; without one they hold no table.
TableKnown ==
    pass # "qparam" =>
        IF programmed # 0
        THEN Final(rewritten, AFULutBanks) = <<"block", programmed>>
        ELSE Final(rewritten, AFULutBanks)[1] # "block"

StateInv ==
    /\ StreamTyped
    /\ pass = "done" => rewritten = Len(origin) + 1
    /\ pass # "failed" =>
          StateTyped /\ ParametersStay /\ ParametersKnown /\ TablesStay /\ TableKnown

\* The state passes speak of commands as the rest does (the SemanticCommand of
\* neural_ai_command_ir.hpp).
LEMMA StatesOperators ==
    /\ States!SemanticCommand = SemanticCommand
    /\ States!Quantization = Quantization /\ States!AFULutBanks = AFULutBanks
    /\ Quantization \in StateKeys /\ AFULutBanks \in StateKeys /\ Quantization # AFULutBanks
<1>1. States!SemanticCommand = SemanticCommand
    BY DEF States!SemanticCommand, SemanticCommand, Resources, States!Resources,
           States!MemoryAccess, MemoryAccess, States!Regions, Regions, States!NoPhase, NoPhase,
           States!StateKeys, StateKeys, States!ExternalToLocal, ExternalToLocal,
           States!LocalToExternal, LocalToExternal, States!CopyShape, CopyShape
<1>2. /\ States!Quantization = Quantization /\ States!AFULutBanks = AFULutBanks
      /\ Quantization \in StateKeys /\ AFULutBanks \in StateKeys /\ Quantization # AFULutBanks
    BY DEF States!Quantization, Quantization, States!AFULutBanks, AFULutBanks, StateKeys
<1> QED BY <1>1, <1>2

\* The last writer of a state before a command (the resident identity is what
\* it left).
LEMMA LastWriterIsLast ==
    ASSUME NEW stream, NEW i \in Nat \ {0}, NEW key
    PROVE  LET last == States!LastWriter(stream, i, key)
           IN  /\ last \in 0..(i - 1)
               /\ last # 0 => key \in stream[last].writes
               /\ \A w \in 1..(i - 1) : key \in stream[w].writes => w <= last
<1> DEFINE writers == {w \in 1..(i - 1) : key \in stream[w].writes}
<1>1. CASE writers = {}
    BY <1>1 DEF States!LastWriter
<1>2. CASE writers # {}
    <2>1. writers \in SUBSET (0..(i - 1)) /\ i - 1 \in Nat
        OBVIOUS
    <2>2. PICK g \in writers : \A x \in writers : x <= g
        <3> HIDE DEF writers
        <3> QED BY <1>2, <2>1, GreatestElement
    <2>3. States!LastWriter(stream, i, key) = CHOOSE w \in writers : \A x \in writers : x <= w
        BY <1>2 DEF States!LastWriter
    <2>4. /\ States!LastWriter(stream, i, key) \in writers
          /\ \A x \in writers : x <= States!LastWriter(stream, i, key)
        <3> HIDE DEF writers
        <3> QED BY <2>2, <2>3
    <2> QED BY <2>4
<1> QED BY <1>1, <1>2

\* Before the first command nothing is known of any state (resident = false).
LEMMA ContentBegins ==
    ASSUME NEW stream, NEW names, NEW key
    PROVE  States!Content(stream, names, 1, key) = <<"unknown", 0>>
<1>1. {w \in 1..(1 - 1) : key \in stream[w].writes} = {}
    OBVIOUS
<1> QED BY <1>1 DEF States!Content, States!LastWriter, States!ContentAfter

\* A command changes the states it writes and no other.
LEMMA ContentStep ==
    ASSUME NEW stream, NEW names, NEW i \in Nat \ {0}, NEW key
    PROVE  States!Content(stream, names, i + 1, key)
             = IF key \in stream[i].writes THEN States!ContentAfter(stream, names, i)
               ELSE States!Content(stream, names, i, key)
<1> DEFINE now  == States!LastWriter(stream, i, key)
           next == States!LastWriter(stream, i + 1, key)
<1>1. /\ now \in 0..(i - 1)
      /\ now # 0 => key \in stream[now].writes
      /\ \A w \in 1..(i - 1) : key \in stream[w].writes => w <= now
    BY LastWriterIsLast
<1>2. /\ next \in 0..i
      /\ next # 0 => key \in stream[next].writes
      /\ \A w \in 1..i : key \in stream[w].writes => w <= next
    <2>1. i + 1 \in Nat \ {0} /\ (i + 1) - 1 = i
        OBVIOUS
    <2> QED BY <2>1, LastWriterIsLast
<1> HIDE DEF now, next
<1>3. next = IF key \in stream[i].writes THEN i ELSE now
    BY <1>1, <1>2
<1> QED BY <1>3 DEF States!Content, now, next

\* Two streams whose first commands leave the same in a state.
SameWriters(a, b, m, n, i, key) ==
    \A w \in 1..(i - 1) :
        /\ key \in a[w].writes <=> key \in b[w].writes
        /\ a[w].type = b[w].type /\ a[w].identity = b[w].identity
        /\ m[w] = n[w]

\* What a command finds depends only on what the commands before it write.
LEMMA ContentDependsOnPrefix ==
    ASSUME NEW a, NEW b, NEW m, NEW n, NEW i \in Nat \ {0}, NEW key,
           SameWriters(a, b, m, n, i, key)
    PROVE  States!Content(a, m, i, key) = States!Content(b, n, i, key)
<1> DEFINE one == States!LastWriter(a, i, key)
           two == States!LastWriter(b, i, key)
<1>1. /\ one \in 0..(i - 1)
      /\ one # 0 => key \in a[one].writes
      /\ \A w \in 1..(i - 1) : key \in a[w].writes => w <= one
    BY LastWriterIsLast
<1>2. /\ two \in 0..(i - 1)
      /\ two # 0 => key \in b[two].writes
      /\ \A w \in 1..(i - 1) : key \in b[w].writes => w <= two
    BY LastWriterIsLast
<1> HIDE DEF one, two
<1>3. one = two /\ (one = 0 \/ one \in 1..(i - 1))
    BY <1>1, <1>2 DEF SameWriters
<1> QED BY <1>3 DEF States!Content, States!ContentAfter, SameWriters, one, two

\* The stream of kept commands is a stream of decoded ones, with what decoding
\* fixes of each (DecodeSemanticCommandStream).
LEMMA KeptStreamDecoded ==
    ASSUME StreamTyped
    PROVE  /\ KeptStream \in Seq(SemanticCommand)
           /\ \A i \in DOMAIN KeptStream :
                 KeptStream[i] \in SemanticCommand /\ States!IsDecodedUser(KeptStream[i])
<1>1. /\ input \in Seq(SemanticCommand)
      /\ \A j \in DOMAIN input : States!IsDecodedUser(input[j])
    BY UsersAssumption, StatesOperators DEF StreamTyped, States!StateStreams
<1>2. kept \in Seq(DOMAIN input) /\ DOMAIN kept = 1..Len(kept) /\ Len(kept) \in Nat
    BY DEF StreamTyped
<1>3. \A k \in DOMAIN kept : kept[k] \in DOMAIN input
    BY <1>2
<1>4. \A j \in DOMAIN input : input[j] \in SemanticCommand
    BY <1>1
<1>5. /\ DOMAIN KeptStream = 1..Len(kept)
      /\ \A k \in 1..Len(kept) :
            KeptStream[k] \in SemanticCommand /\ States!IsDecodedUser(KeptStream[k])
    BY <1>1, <1>2, <1>3, <1>4 DEF KeptStream
<1>6. KeptStream = [k \in 1..Len(kept) |-> KeptStream[k]]
    BY <1>2 DEF KeptStream
<1>7. KeptStream \in Seq(SemanticCommand)
    BY <1>2, <1>5, <1>6
<1> QED BY <1>5, <1>7

\* Only RQ_LOAD programs parameters, and it leaves the table alone
\* (DecodeKnownCommand).
LEMMA UserWrites ==
    ASSUME NEW c \in SemanticCommand, States!IsDecodedUser(c)
    PROVE  /\ c.type = "RQLoad" <=> Quantization \in c.writes
           /\ c.type = "RQLoad" => \A key \in StateKeys : key \in c.writes <=> key = Quantization
           /\ c.identity \in Nat /\ c.reuse \in BOOLEAN /\ c.type \in STRING
BY StatesOperators DEF States!IsDecodedUser, SemanticCommand

\* A command marked as reusing differs in its table alone: it reads the banks
\* it would have filled (OptimizeAFULutResidency).
LEMMA ReusingWrites ==
    ASSUME NEW c \in SemanticCommand, States!IsDecodedUser(c), c.type = "AFULut"
    PROVE  LET r == States!Reusing(c)
           IN  /\ r \in SemanticCommand
               /\ r.type = "AFULut" /\ r.identity = c.identity /\ r.reuse
               /\ AFULutBanks \notin r.writes
               /\ \A key : key # AFULutBanks => (key \in r.writes <=> key \in c.writes)
<1> DEFINE r == States!Reusing(c)
<1>1. c.accesses \in Seq(MemoryAccess) /\ Len(c.accesses) \in {2, 3}
    BY DEF States!IsDecodedUser, SemanticCommand
<1>2. SubSeq(c.accesses, 1, 2) \in Seq(MemoryAccess) /\ Len(SubSeq(c.accesses, 1, 2)) = 2
    BY <1>1
<1>3. r = [c EXCEPT !.reuse = TRUE,
                    !.accesses = SubSeq(c.accesses, 1, 2),
                    !.reads = c.reads \cup {AFULutBanks},
                    !.writes = c.writes \ {AFULutBanks}]
    BY StatesOperators DEF States!Reusing
<1>4. r = [type |-> c.type, resources |-> c.resources,
           accesses |-> SubSeq(c.accesses, 1, 2),
           reads |-> c.reads \cup {AFULutBanks}, writes |-> c.writes \ {AFULutBanks},
           asyncCapable |-> c.asyncCapable, controlFence |-> c.controlFence,
           queueId |-> c.queueId, queueCapacity |-> c.queueCapacity,
           cycles |-> c.cycles, identity |-> c.identity, reuse |-> TRUE, shape |-> c.shape]
    BY <1>3 DEF SemanticCommand
<1>5. /\ c.reads \cup {AFULutBanks} \in SUBSET StateKeys
      /\ c.writes \ {AFULutBanks} \in SUBSET StateKeys
    BY StatesOperators DEF SemanticCommand
<1> HIDE DEF r
<1>6. r \in SemanticCommand
    BY <1>2, <1>4, <1>5 DEF SemanticCommand
<1>7. /\ r.type = "AFULut" /\ r.identity = c.identity /\ r.reuse
      /\ r.writes = c.writes \ {AFULutBanks}
    BY <1>4
<1>8. /\ AFULutBanks \notin r.writes
      /\ \A key : key # AFULutBanks => (key \in r.writes <=> key \in c.writes)
    BY <1>7
<1> QED BY <1>6, <1>7, <1>8 DEF r

\* What a state holds before and after a command of the stream.
LEMMA BeforeStep ==
    ASSUME NEW i \in Nat \ {0}, i \in DOMAIN KeptStream, NEW key
    PROVE  Before(i + 1, key) = IF key \notin KeptStream[i].writes THEN Before(i, key)
                                ELSE IF KeptStream[i].type \in {"RQLoad", "AFULut"}
                                THEN <<"block", KeptStream[i].identity>>
                                ELSE <<"command", i>>
<1>1. States!Identity(KeptStream)[i] = i
    BY DEF States!Identity
<1>2. States!ContentAfter(KeptStream, States!Identity(KeptStream), i)
        = IF KeptStream[i].type \in {"RQLoad", "AFULut"}
          THEN <<"block", KeptStream[i].identity>> ELSE <<"command", i>>
    BY <1>1 DEF States!ContentAfter
<1> QED BY <1>2, ContentStep DEF Before

\* The stream L of the commands O is what is left with command n kept: every
\* command in it finds what it found, and so does what comes after it.
FindsTheSame(L, O, n) ==
    /\ O \in Seq(DOMAIN KeptStream) /\ Len(O) = Len(origin) + 1
    /\ L = Append(Left, KeptStream[n])
    /\ \A k \in DOMAIN O, key \in StateKeys :
          States!Content(L, O, k, key) = Before(O[k], key)
    /\ \A key \in StateKeys :
          States!Content(L, O, Len(O) + 1, key) = Before(n + 1, key)
    /\ \A k \in DOMAIN origin : k \in DOMAIN O /\ O[k] = origin[k]
    /\ Len(O) \in DOMAIN O /\ O[Len(O)] = n

\* What the parameter pass keeps (OptimizeQParamResidency).
LEMMA KeptFindsTheSame ==
    ASSUME StateInv, pass = "qparam", rewritten <= Len(KeptStream),
           KeptStream' = KeptStream, origin' = Append(origin, rewritten)
    PROVE  FindsTheSame(Left', origin', rewritten)
<1> PICK L : L = Left'
    OBVIOUS
<1> PICK O : O = origin'
    OBVIOUS
<1> PICK n : n = rewritten
    OBVIOUS
<1> PICK m : m = Len(origin)
    OBVIOUS
<1> PICK c : c = KeptStream[n]
    OBVIOUS
<1>1. /\ origin \in Seq(DOMAIN KeptStream) /\ m \in Nat /\ n \in Nat \ {0}
      /\ DOMAIN origin = 1..m
      /\ KeptStream \in Seq(SemanticCommand) /\ DOMAIN KeptStream = 1..Len(KeptStream)
      /\ Len(KeptStream) \in Nat
    BY KeptStreamDecoded DEF StateInv, StateTyped
<1>2. n \in DOMAIN KeptStream
    BY <1>1
<1>3. /\ O \in Seq(DOMAIN KeptStream) /\ Len(O) = m + 1
      /\ DOMAIN O = 1..(m + 1)
      /\ \A k \in 1..m : O[k] = origin[k]
      /\ O[m + 1] = n
    BY <1>1, <1>2
<1>4. /\ L = [k \in 1..(m + 1) |-> L[k]]
      /\ \A k \in 1..m : L[k] = Left[k] /\ Left[k] = KeptStream[origin[k]]
      /\ L[m + 1] = c
    BY <1>1, <1>3 DEF Left
<1>5. Left \in Seq(SemanticCommand) /\ Len(Left) = m
    <2>1. \A k \in 1..m : KeptStream[origin[k]] \in SemanticCommand
        BY <1>1
    <2> QED BY <1>1, <2>1 DEF Left
<1>6. L = Append(Left, c)
    <2> PICK A : A = Append(Left, c)
        OBVIOUS
    <2>1. c \in SemanticCommand
        BY <1>1, <1>2
    <2>2. /\ A = [k \in 1..(m + 1) |-> A[k]] /\ A[m + 1] = c
          /\ \A k \in 1..m : A[k] = Left[k]
        BY <1>5, <2>1
    <2>3. \A k \in 1..(m + 1) : k \in 1..m \/ k = m + 1
        BY <1>1
    <2>4. \A k \in 1..(m + 1) : A[k] = L[k]
        BY <1>4, <2>2, <2>3
    <2> QED BY <1>4, <2>2, <2>4
<1>p. m \in Nat /\ \A k \in 1..m : L[k] = Left[k] /\ O[k] = origin[k]
    BY <1>1, <1>3, <1>4
<1>7. ASSUME NEW k \in 1..(m + 1), NEW key \in StateKeys
      PROVE  States!Content(L, O, k, key) = After(k, key)
    <2>1. k \in Nat \ {0} /\ \A w \in 1..(k - 1) : L[w] = Left[w] /\ O[w] = origin[w]
        BY <1>p
    <2>2. SameWriters(L, Left, O, origin, k, key)
        BY <2>1 DEF SameWriters
    <2>3. k \in Nat \ {0}
        BY <2>1
    <2>4. States!Content(L, O, k, key) = States!Content(Left, origin, k, key)
        BY <2>2, <2>3, ContentDependsOnPrefix
    <2> QED BY <2>4 DEF After
<1>8. \A key \in StateKeys : After(m + 1, key) = Before(n, key)
    BY DEF StateInv, ParametersKnown
<1>9. ASSUME NEW k \in 1..(m + 1), NEW key \in StateKeys
      PROVE  States!Content(L, O, k, key) = Before(O[k], key)
    <2>1. CASE k \in 1..m
        BY <1>1, <1>3, <1>7, <2>1 DEF StateInv, ParametersStay
    <2>2. CASE k = m + 1
        BY <1>3, <1>7, <1>8, <2>2
    <2> QED BY <1>1, <2>1, <2>2
<1>10. ASSUME NEW key \in StateKeys
       PROVE  States!Content(L, O, m + 1 + 1, key) = Before(n + 1, key)
    <2>0. m + 1 \in Nat \ {0} /\ m + 1 \in 1..(m + 1)
        BY <1>1
    <2>1. States!Content(L, O, m + 1 + 1, key)
            = IF key \in L[m + 1].writes THEN States!ContentAfter(L, O, m + 1)
              ELSE States!Content(L, O, m + 1, key)
        BY <2>0, ContentStep, ZenonT(60)
    <2>2. States!ContentAfter(L, O, m + 1)
            = IF c.type \in {"RQLoad", "AFULut"} THEN <<"block", c.identity>>
              ELSE <<"command", n>>
        <3>1. m + 1 # 0 /\ L[m + 1] = c /\ O[m + 1] = n
            BY <1>3, <1>4, <1>p
        <3> QED BY <3>1 DEF States!ContentAfter
    <2>3. States!Content(L, O, m + 1, key) = Before(n, key)
        BY <1>7, <1>8, <2>0
    <2>4. Before(n + 1, key) = IF key \notin c.writes THEN Before(n, key)
                               ELSE IF c.type \in {"RQLoad", "AFULut"}
                               THEN <<"block", c.identity>>
                               ELSE <<"command", n>>
        BY <1>1, <1>2, BeforeStep
    <2> QED BY <1>4, <2>1, <2>2, <2>3, <2>4
<1>11. m + 1 \in 1..(m + 1) /\ \A k \in 1..m : k \in 1..(m + 1)
    BY <1>1
<1>12. FindsTheSame(L, O, n)
    BY <1>1, <1>3, <1>6, <1>9, <1>10, <1>11 DEF FindsTheSame
<1> QED BY <1>12

\* While the stream stays as it is, so does what its commands find in it.
LEMMA StreamStays ==
    ASSUME KeptStream' = KeptStream
    PROVE  \A i, key : Before(i, key)' = Before(i, key)
BY DEF Before

\* A visit of the parameter pass drops a load only of the block that is there
\* (OptimizeQParamResidency).
LEMMA VisitQParamKeeps ==
    ASSUME StateInv, visited > Len(input), ~failed, UNCHANGED loadVars, States!VisitQParam
    PROVE  StateInv'
<1> PICK n : n = rewritten
    OBVIOUS
<1> PICK c : c = KeptStream[n]
    OBVIOUS
<1>1. /\ pass = "qparam" /\ n <= Len(KeptStream) /\ rewritten' = n + 1
      /\ KeptStream' = KeptStream
    BY DEF States!VisitQParam, loadVars, KeptStream
<1>2. StreamTyped'
    BY <1>1 DEF StateInv, StreamTyped, loadVars
<1>3. StreamTyped /\ StateTyped /\ ParametersStay /\ ParametersKnown
    BY <1>1 DEF StateInv
<1>4. /\ n \in Nat \ {0} /\ Len(KeptStream) \in Nat /\ n \in DOMAIN KeptStream
      /\ c \in SemanticCommand /\ States!IsDecodedUser(c)
      /\ DOMAIN KeptStream = 1..Len(KeptStream)
    <2>1. n \in Nat \ {0}
        BY <1>3 DEF StateTyped
    <2>2. KeptStream \in Seq(SemanticCommand)
        BY <1>3, KeptStreamDecoded
    <2>3. Len(KeptStream) \in Nat /\ DOMAIN KeptStream = 1..Len(KeptStream)
        BY <2>2
    <2>4. n \in DOMAIN KeptStream
        BY <1>1, <2>1, <2>3
    <2> QED BY <1>3, <2>1, <2>3, <2>4, KeptStreamDecoded
<1>5. \A i, key : Before(i, key)' = Before(i, key)
    BY <1>1, StreamStays
<1>6. pass' # "done" /\ pass' \in {"qparam", "failed"}
    BY <1>1 DEF States!VisitQParam
<1>7. SUFFICES ASSUME pass' = "qparam"
               PROVE  StateTyped' /\ ParametersStay' /\ ParametersKnown'
    BY <1>2, <1>6, <1>7 DEF StateInv, TablesStay, TableKnown
<1>8. CASE /\ origin' = Append(origin, n) /\ program' = Append(program, c)
           /\ programmed' = IF c.type = "RQLoad" THEN c.identity ELSE programmed
    <2> PICK L : L = Left'
        OBVIOUS
    <2> PICK O : O = origin'
        OBVIOUS
    <2>1. /\ O \in Seq(DOMAIN KeptStream) /\ Len(O) = Len(origin) + 1
          /\ L = Append(Left, c)
          /\ \A k \in DOMAIN O, key \in StateKeys :
                States!Content(L, O, k, key) = Before(O[k], key)
          /\ \A key \in StateKeys :
                States!Content(L, O, Len(O) + 1, key) = Before(n + 1, key)
          /\ \A k \in DOMAIN origin : k \in DOMAIN O /\ O[k] = origin[k]
          /\ Len(O) \in DOMAIN O /\ O[Len(O)] = n
        <3>1. rewritten <= Len(KeptStream) /\ origin' = Append(origin, rewritten)
            BY <1>1, <1>8
        <3>2. FindsTheSame(Left', origin', rewritten)
            BY <1>1, <3>1, KeptFindsTheSame
        <3>3. FindsTheSame(L, O, n)
            BY <3>2
        <3> QED BY <3>3 DEF FindsTheSame
    <2>2. StateTyped'
        <3>1. program \in Seq(SemanticCommand) /\ Len(program) = Len(origin)
            BY <1>3 DEF StateTyped
        <3>2. program' \in Seq(SemanticCommand) /\ Len(program') = Len(program) + 1
            BY <1>4, <1>8, <3>1
        <3>3. programmed' \in Nat
            BY <1>3, <1>4, <1>8, UserWrites DEF StateTyped
        <3> QED BY <1>1, <1>4, <1>7, <2>1, <3>1, <3>2, <3>3 DEF StateTyped
    <2>3. ParametersStay'
        <3>1. \A k \in DOMAIN O, key \in StateKeys : After(k, key)' = Before(O[k], key)'
            BY <1>5, <2>1 DEF After
        <3>2. ASSUME NEW i \in DOMAIN KeptStream, i < n + 1, KeptStream[i].type # "RQLoad"
              PROVE  \E k \in DOMAIN O : O[k] = i
            <4>1. CASE i = n
                BY <2>1, <4>1
            <4>2. CASE i < n
                <5>1. \E k \in DOMAIN origin : origin[k] = i
                    BY <1>3, <3>2, <4>2 DEF ParametersStay
                <5> QED BY <2>1, <5>1
            <4> QED BY <1>4, <3>2, <4>1, <4>2
        <3> QED BY <1>1, <1>5, <1>7, <3>1, <3>2 DEF ParametersStay
    <2>4. ParametersKnown'
        <3>1. program' = Left'
            BY <1>1, <1>3, <1>8, <2>1 DEF ParametersKnown
        <3>2. \A key \in StateKeys : After(Len(origin) + 1, key)' = Before(rewritten, key)'
            <4>1. \A key : Before(rewritten, key)' = Before(n + 1, key)
                BY <1>1 DEF Before
            <4>2. \A key : After(Len(origin) + 1, key)' = States!Content(L, O, Len(O) + 1, key)
                BY DEF After
            <4> QED BY <2>1, <4>1, <4>2
        <3>3. ASSUME programmed' # 0
              PROVE  Before(n + 1, Quantization) = <<"block", programmed'>>
            <4>1. Before(n + 1, Quantization)
                    = IF Quantization \notin c.writes THEN Before(n, Quantization)
                      ELSE IF c.type \in {"RQLoad", "AFULut"} THEN <<"block", c.identity>>
                      ELSE <<"command", n>>
                BY <1>4, BeforeStep
            <4>2. c.type = "RQLoad" <=> Quantization \in c.writes
                BY <1>4, UserWrites
            <4> QED BY <1>1, <1>3, <1>8, <3>3, <4>1, <4>2 DEF ParametersKnown
        <3>4. Before(rewritten, Quantization)' = Before(n + 1, Quantization)
            BY <1>1 DEF Before
        <3>5. rewritten' <= Len(KeptStream)' + 1
            BY <1>1, <1>4
        <3> QED BY <3>1, <3>2, <3>3, <3>4, <3>5 DEF ParametersKnown
    <2> QED BY <2>2, <2>3, <2>4
<1>9. CASE /\ origin' = origin /\ program' = program
           /\ c.type = "RQLoad" /\ c.identity = programmed /\ programmed # 0
           /\ programmed' = programmed
    <2>1. StateTyped'
        BY <1>1, <1>3, <1>4, <1>7, <1>9 DEF StateTyped
    <2>2. Left' = Left
        BY <1>1, <1>9 DEF Left
    <2>3. \A k, key : After(k, key)' = States!Content(Left, origin, k, key)
        BY <1>9, <2>2 DEF After
    <2>4. ParametersStay'
        <3> PICK g : g = origin
            OBVIOUS
        <3>1. \A k \in DOMAIN g, key \in StateKeys : After(k, key)' = Before(g[k], key)'
            BY <1>3, <1>5, <2>3 DEF ParametersStay, After
        <3>2. ASSUME NEW i \in DOMAIN KeptStream, i < n + 1, KeptStream[i].type # "RQLoad"
              PROVE  \E k \in DOMAIN origin : origin[k] = i
            <4>1. i < n
                BY <1>4, <1>9, <3>2
            <4> QED BY <1>3, <3>2, <4>1 DEF ParametersStay
        <3> QED BY <1>1, <1>5, <1>7, <1>9, <3>1, <3>2 DEF ParametersStay
    <2>5. ASSUME NEW key \in StateKeys
          PROVE  Before(n + 1, key) = Before(n, key)
        <3>1. Before(n + 1, key)
                = IF key \notin c.writes THEN Before(n, key)
                  ELSE IF c.type \in {"RQLoad", "AFULut"} THEN <<"block", c.identity>>
                  ELSE <<"command", n>>
            BY <1>4, BeforeStep
        <3>2. key \in c.writes <=> key = Quantization
            BY <1>4, <1>9, UserWrites
        <3>3. Before(n, Quantization) = <<"block", c.identity>>
            BY <1>1, <1>3, <1>9 DEF ParametersKnown
        <3> QED BY <1>9, <3>1, <3>2, <3>3
    <2>6. ParametersKnown'
        <3>1. \A key : Before(rewritten, key)' = Before(n + 1, key)
            BY <1>1 DEF Before
        <3>2. \A key : After(Len(origin) + 1, key)' = After(Len(origin) + 1, key)
            BY <1>9, <2>2 DEF After
        <3>3. Quantization \in StateKeys
            BY StatesOperators
        <3>4. rewritten' <= Len(KeptStream)' + 1
            BY <1>1, <1>4
        <3> QED BY <1>1, <1>3, <1>9, <2>2, <2>5, <3>1, <3>2, <3>3, <3>4 DEF ParametersKnown
    <2> QED BY <2>1, <2>4, <2>6
<1>10. QED
    <2>1. CASE c.type # "RQLoad"
        BY <1>8, <2>1 DEF States!VisitQParam, States!KeepCommand
    <2>2. CASE c.type = "RQLoad"
        <3>1. /\ pass' = IF c.identity = 0 THEN "failed" ELSE pass
              /\ programmed' = c.identity
              /\ IF c.identity \in {0, programmed} THEN UNCHANGED <<program, origin>>
                 ELSE States!KeepCommand(c)
            BY <2>2 DEF States!VisitQParam
        <3>2. c.identity # 0
            BY <1>7, <3>1
        <3>3. CASE c.identity = programmed
            BY <1>9, <2>2, <3>1, <3>2, <3>3
        <3>4. CASE c.identity # programmed
            <4>1. States!KeepCommand(c)
                BY <3>1, <3>2, <3>4
            <4>2. program' = Append(program, c) /\ origin' = Append(origin, n)
                BY <4>1 DEF States!KeepCommand
            <4> QED BY <1>8, <2>2, <3>1, <4>2
        <3> QED BY <3>3, <3>4
    <2> QED BY <2>1, <2>2

\* Nothing is known of the banks when the table pass begins (OptimizeAFULut-
\* Residency starts without a resident table).
LEMMA StartLutPassKeeps ==
    ASSUME StateInv, visited > Len(input), ~failed, UNCHANGED loadVars, States!StartLutPass
    PROVE  StateInv'
<1>1. /\ pass = "qparam" /\ rewritten > Len(KeptStream)
      /\ pass' = "lut" /\ rewritten' = 1 /\ programmed' = 0
      /\ origin' = origin /\ program' = program /\ KeptStream' = KeptStream
    BY DEF States!StartLutPass, loadVars, KeptStream
<1>2. StreamTyped'
    BY <1>1 DEF StateInv, StreamTyped, loadVars
<1>3. StreamTyped /\ StateTyped /\ ParametersStay /\ ParametersKnown
    BY <1>1 DEF StateInv
<1>4. /\ DOMAIN KeptStream = 1..Len(KeptStream) /\ Len(KeptStream) \in Nat
      /\ rewritten \in Nat
    <2>1. KeptStream \in Seq(SemanticCommand)
        BY <1>3, KeptStreamDecoded
    <2> QED BY <1>3, <2>1 DEF StateTyped
<1>5. StateTyped'
    BY <1>1, <1>3 DEF StateTyped
<1>6. Left' = Left
    BY <1>1 DEF Left
<1>7. ParametersStay'
    <2> PICK g : g = origin
        OBVIOUS
    <2>1. \A k \in DOMAIN g, key \in StateKeys : After(k, key)' = Before(g[k], key)'
        BY <1>1, <1>3, <1>6 DEF ParametersStay, After, Before
    <2>2. \A i \in DOMAIN KeptStream : i < rewritten
        BY <1>1, <1>4
    <2>3. \A i \in DOMAIN KeptStream : KeptStream[i].type # "RQLoad" =>
            \E k \in DOMAIN g : g[k] = i
        BY <1>3, <2>2 DEF ParametersStay
    <2> QED BY <1>1, <2>1, <2>3 DEF ParametersStay
<1>8. Final(1, AFULutBanks)' = <<"unknown", 0>> /\ After(1, AFULutBanks)' = <<"unknown", 0>>
    BY ContentBegins DEF Final, After
<1>9. TablesStay'
    <2>1. 1 <= Len(origin) + 1
        BY <1>3 DEF StateTyped
    <2>2. \A k \in DOMAIN origin : program'[k] = Left'[k]
        BY <1>1, <1>3, <1>6 DEF ParametersKnown
    <2>3. \A k \in 1..1 : Final(k, AFULutBanks)' = After(k, AFULutBanks)'
        BY <1>8
    <2> QED BY <1>1, <2>1, <2>2, <2>3 DEF TablesStay
<1>10. TableKnown'
    <2>1. Final(rewritten, AFULutBanks)' = Final(1, AFULutBanks)'
        BY <1>1 DEF Final
    <2> QED BY <1>1, <1>8, <2>1 DEF TableKnown
<1>11. ParametersKnown' /\ pass' # "done"
    BY <1>1 DEF ParametersKnown
<1> QED BY <1>2, <1>5, <1>7, <1>9, <1>10, <1>11 DEF StateInv

\* A visit of the table pass keeps what it claims of the commands behind it.
LEMMA VisitLutKeeps ==
    ASSUME StateInv, visited > Len(input), ~failed, UNCHANGED loadVars, States!VisitLut
    PROVE  StateInv'
<1> PICK n : n = rewritten
    OBVIOUS
<1> PICK c : c = program[n]
    OBVIOUS
<1> PICK g : g = origin
    OBVIOUS
<1>1. /\ pass = "lut" /\ n <= Len(program) /\ rewritten' = n + 1
      /\ pass' = IF States!InvalidReuse(c) THEN "failed" ELSE pass
      /\ programmed' = States!ResidentAfter(c)
      /\ program' = IF c.type = "AFULut" /\ c.identity = programmed /\ ~States!InvalidReuse(c)
                    THEN [program EXCEPT ![n] = States!Reusing(c)] ELSE program
      /\ origin' = g /\ KeptStream' = KeptStream
    BY DEF States!VisitLut, loadVars, KeptStream
<1>2. StreamTyped'
    BY <1>1 DEF StateInv, StreamTyped, loadVars
<1>3. StreamTyped /\ StateTyped /\ ParametersStay /\ TablesStay /\ TableKnown
    BY <1>1 DEF StateInv
<1>4. /\ n \in Nat \ {0} /\ program \in Seq(SemanticCommand) /\ Len(program) \in Nat
      /\ DOMAIN program = 1..Len(program) /\ DOMAIN g = 1..Len(program)
      /\ Len(g) = Len(program) /\ g \in Seq(DOMAIN KeptStream) /\ programmed \in Nat
    BY <1>3 DEF StateTyped
<1>5. n \in 1..Len(program) /\ n \in DOMAIN program /\ n \in DOMAIN g
    BY <1>1, <1>4
<1>6. c = Left[n] /\ c \in SemanticCommand /\ States!IsDecodedUser(c)
    <2>1. c = Left[n]
        BY <1>1, <1>5 DEF TablesStay, StateInv
    <2>2. Left[n] = KeptStream[g[n]] /\ g[n] \in DOMAIN KeptStream
        BY <1>4, <1>5 DEF Left
    <2> QED BY <1>3, <2>1, <2>2, KeptStreamDecoded
<1>7. pass' # "done" /\ pass' \in {"lut", "failed"}
    BY <1>1
<1>8. SUFFICES ASSUME pass' = "lut"
               PROVE  StateTyped' /\ ParametersStay' /\ TablesStay' /\ TableKnown'
    BY <1>2, <1>7, <1>8 DEF StateInv, ParametersKnown
<1>9. ~States!InvalidReuse(c)
    BY <1>1, <1>8
<1> PICK P : P = program'
    OBVIOUS
<1>10. Left' = Left
    BY <1>1 DEF Left
<1>11. ParametersStay'
    <2>1. \A k \in DOMAIN g, key \in StateKeys : After(k, key)' = Before(g[k], key)'
        BY <1>1, <1>3, <1>10 DEF ParametersStay, After, Before
    <2>2. \A i \in DOMAIN KeptStream : KeptStream[i].type # "RQLoad" =>
            \E k \in DOMAIN g : g[k] = i
        BY <1>1, <1>3 DEF ParametersStay
    <2> QED BY <1>1, <1>8, <2>1, <2>2 DEF ParametersStay
<1>12. c.type \in STRING /\ c.identity \in Nat /\ c.reuse \in BOOLEAN
    BY <1>6, UserWrites
\* What the visited command becomes.
<1>13. /\ P \in Seq(SemanticCommand) /\ Len(P) = Len(program)
       /\ \A k \in 1..Len(program) : k # n => P[k] = program[k]
       /\ IF c.type = "AFULut" /\ c.identity = programmed
          THEN P[n] = States!Reusing(c) ELSE P = program /\ P[n] = c
    <2>1. CASE c.type = "AFULut" /\ c.identity = programmed
        <3>1. States!Reusing(c) \in SemanticCommand
            BY <1>6, <2>1, ReusingWrites
        <3>2. P = [program EXCEPT ![n] = States!Reusing(c)]
            BY <1>1, <1>9, <2>1
        <3> QED BY <1>4, <1>5, <2>1, <3>1, <3>2
    <2>2. CASE ~(c.type = "AFULut" /\ c.identity = programmed)
        <3>1. P = program
            BY <1>1, <2>2
        <3> QED BY <1>4, <2>2, <3>1
    <2> QED BY <2>1, <2>2
<1>14. programmed' = IF c.type = "AFULut" THEN c.identity
                     ELSE IF AFULutBanks \in c.writes THEN 0 ELSE programmed
    BY <1>1, StatesOperators DEF States!ResidentAfter
<1>15. StateTyped'
    <2>1. programmed' \in Nat /\ rewritten' \in Nat \ {0}
        BY <1>1, <1>4, <1>12, <1>14
    <2> QED BY <1>1, <1>3, <1>4, <1>8, <1>13, <2>1 DEF StateTyped
\* What the commands find, behind the visit and after it.
<1>16. ASSUME NEW k \in 1..n
       PROVE  /\ Final(k, AFULutBanks)' = Final(k, AFULutBanks)
              /\ After(k, AFULutBanks)' = After(k, AFULutBanks)
    <2>1. k \in Nat \ {0} /\ \A w \in 1..(k - 1) : P[w] = program[w]
        BY <1>4, <1>5, <1>13
    <2>2. SameWriters(P, program, g, g, k, AFULutBanks)
        BY <2>1 DEF SameWriters
    <2>3. States!Content(P, g, k, AFULutBanks) = States!Content(program, g, k, AFULutBanks)
        BY <2>1, <2>2, ContentDependsOnPrefix
    <2> QED BY <1>1, <1>10, <2>3 DEF Final, After
<1>17. Final(n, AFULutBanks) = After(n, AFULutBanks)
    BY <1>3, <1>1, <1>4 DEF TablesStay
<1>18. After(n + 1, AFULutBanks)'
         = IF AFULutBanks \notin c.writes THEN After(n, AFULutBanks)
           ELSE IF c.type \in {"RQLoad", "AFULut"} THEN <<"block", c.identity>>
           ELSE <<"command", g[n]>>
    <2>1. After(n + 1, AFULutBanks)' = States!Content(Left, g, n + 1, AFULutBanks)
        BY <1>1, <1>10 DEF After
    <2>2. States!ContentAfter(Left, g, n)
            = IF c.type \in {"RQLoad", "AFULut"} THEN <<"block", c.identity>>
              ELSE <<"command", g[n]>>
        BY <1>4, <1>6 DEF States!ContentAfter
    <2> QED BY <1>4, <1>6, <2>1, <2>2, ContentStep DEF After
<1>19. Final(n + 1, AFULutBanks)'
         = IF AFULutBanks \notin P[n].writes THEN Final(n, AFULutBanks)
           ELSE IF P[n].type \in {"RQLoad", "AFULut"} THEN <<"block", P[n].identity>>
           ELSE <<"command", g[n]>>
    <2>1. Final(n + 1, AFULutBanks)' = States!Content(P, g, n + 1, AFULutBanks)
        BY <1>1 DEF Final
    <2>2. States!ContentAfter(P, g, n)
            = IF P[n].type \in {"RQLoad", "AFULut"} THEN <<"block", P[n].identity>>
              ELSE <<"command", g[n]>>
        BY <1>4 DEF States!ContentAfter
    <2>3. States!Content(P, g, n, AFULutBanks) = Final(n, AFULutBanks)
        <3>1. n \in 1..n
            BY <1>4
        <3> QED BY <1>1, <1>16, <3>1 DEF Final
    <2>4. States!Content(P, g, n + 1, AFULutBanks)
            = IF AFULutBanks \in P[n].writes THEN States!ContentAfter(P, g, n)
              ELSE States!Content(P, g, n, AFULutBanks)
        BY <1>4, ContentStep
    <2> QED BY <2>1, <2>2, <2>3, <2>4
\* The visited command itself.
<1>20. /\ Final(n + 1, AFULutBanks)' = After(n + 1, AFULutBanks)'
       /\ P[n].type = "AFULut" =>
             (P[n].reuse <=> Final(n, AFULutBanks) = <<"block", P[n].identity>>)
       /\ IF programmed' # 0
          THEN Final(n + 1, AFULutBanks)' = <<"block", programmed'>>
          ELSE Final(n + 1, AFULutBanks)'[1] # "block"
       /\ \/ P[n] = Left[n]
          \/ Left[n].type = "AFULut" /\ P[n] = States!Reusing(Left[n])
    <2>0. IF programmed # 0
          THEN Final(n, AFULutBanks) = <<"block", programmed>>
          ELSE Final(n, AFULutBanks)[1] # "block"
        BY <1>1, <1>3 DEF TableKnown
    <2>1. CASE c.type = "AFULut" /\ c.identity = programmed
        <3>1. c.identity # 0
            BY <1>9, <2>1 DEF States!InvalidReuse
        <3>2. /\ P[n].type = "AFULut" /\ P[n].identity = c.identity /\ P[n].reuse
              /\ AFULutBanks \notin P[n].writes
            BY <1>6, <1>13, <2>1, ReusingWrites
        <3> QED BY <1>6, <1>13, <1>14, <1>17, <1>18, <1>19, <2>0, <2>1, <3>1, <3>2
    <2>2. CASE c.type = "AFULut" /\ c.identity # programmed
        <3>1. c.identity # 0 /\ ~c.reuse
            BY <1>9, <2>2 DEF States!InvalidReuse
        <3>2. AFULutBanks \in c.writes
            BY <1>6, <2>2, <3>1, StatesOperators DEF States!IsDecodedUser
        <3>3. Final(n, AFULutBanks) # <<"block", c.identity>>
            BY <2>0, <2>2
        <3> QED BY <1>6, <1>13, <1>14, <1>17, <1>18, <1>19, <2>2, <3>1, <3>2, <3>3
    <2>3. CASE c.type # "AFULut"
        <3>1. P[n] = c
            BY <1>13, <2>3
        <3>2. AFULutBanks \in c.writes => c.type # "RQLoad"
            BY <1>6, UserWrites, StatesOperators
        <3> QED BY <1>6, <1>14, <1>17, <1>18, <1>19, <2>0, <2>3, <3>1, <3>2
    <2> QED BY <2>1, <2>2, <2>3
<1>21. TableKnown'
    <2>1. Final(rewritten, AFULutBanks)' = Final(n + 1, AFULutBanks)'
        BY <1>1 DEF Final
    <2> QED BY <1>8, <1>20, <2>1 DEF TableKnown
<1>22. TablesStay'
    <2>1. n + 1 <= Len(g) + 1
        BY <1>1, <1>4
    <2>2. ASSUME NEW k \in DOMAIN g
          PROVE  \/ P[k] = Left[k]
                 \/ /\ k < n + 1 /\ Left[k].type = "AFULut"
                    /\ P[k] = States!Reusing(Left[k])
        <3>1. CASE k = n
            BY <1>4, <1>20, <3>1
        <3>2. CASE k # n
            <4>1. P[k] = program[k]
                BY <1>4, <1>13, <3>2
            <4>2. \/ program[k] = Left[k]
                  \/ /\ k < n /\ Left[k].type = "AFULut"
                     /\ program[k] = States!Reusing(Left[k])
                BY <1>1, <1>3 DEF TablesStay
            <4> QED BY <1>4, <4>1, <4>2
        <3> QED BY <3>1, <3>2
    <2>3. ASSUME NEW k \in 1..(n + 1)
          PROVE  Final(k, AFULutBanks)' = After(k, AFULutBanks)'
        <3>1. CASE k = n + 1
            BY <1>20, <3>1 DEF Final, After
        <3>2. CASE k \in 1..n
            BY <1>1, <1>3, <1>16, <3>2 DEF TablesStay
        <3> QED BY <1>4, <3>1, <3>2
    <2>4. ASSUME NEW k \in 1..n, P[k].type = "AFULut"
          PROVE  P[k].reuse <=> Final(k, AFULutBanks)' = <<"block", P[k].identity>>
        <3>1. CASE k = n
            BY <1>16, <1>20, <2>4, <3>1
        <3>2. CASE k # n
            <4>1. P[k] = program[k] /\ k \in 1..(n - 1)
                BY <1>4, <1>5, <1>13, <3>2
            <4>2. program[k].reuse <=> Final(k, AFULutBanks) = <<"block", program[k].identity>>
                BY <1>1, <1>3, <2>4, <4>1 DEF TablesStay
            <4> QED BY <1>16, <4>1, <4>2
        <3> QED BY <3>1, <3>2
    <2>5. (n + 1) - 1 = n
        BY <1>4
    <2> QED BY <1>1, <1>8, <1>10, <2>1, <2>2, <2>3, <2>4, <2>5 DEF TablesStay
<1> QED BY <1>11, <1>15, <1>21, <1>22

\* Before the passes begin there is nothing they could have got wrong.
LEMMA NothingBegun == StreamTyped /\ NotBegun => StateInv
<1> SUFFICES ASSUME StreamTyped, NotBegun PROVE StateInv
    OBVIOUS
<1>1. /\ origin = <<>> /\ program = <<>> /\ Len(origin) = 0 /\ DOMAIN origin = {}
      /\ pass = "qparam" /\ rewritten = 1 /\ programmed = 0
    BY DEF NotBegun
<1>2. Len(KeptStream) \in Nat /\ DOMAIN KeptStream = 1..Len(KeptStream)
    <2>1. KeptStream \in Seq(SemanticCommand)
        BY KeptStreamDecoded
    <2> QED BY <2>1
<1>3. StateTyped
    BY <1>1 DEF StateTyped
<1>4. ParametersStay
    BY <1>1, <1>2 DEF ParametersStay
<1>5. ParametersKnown
    <2>1. program = Left
        BY <1>1 DEF Left
    <2>2. \A key \in StateKeys : After(Len(origin) + 1, key) = Before(rewritten, key)
        BY <1>1, ContentBegins DEF After, Before
    <2> QED BY <1>1, <1>2, <2>1, <2>2 DEF ParametersKnown
<1> QED BY <1>1, <1>3, <1>4, <1>5 DEF StateInv, TablesStay, TableKnown

\* The passes begin when the last load has been visited (OptimizeGlobalCommand-
\* Schedule calls them one after the other).
LEMMA DropLoadsKeeps == StateInv /\ DropLoads => StreamTyped' /\ NotBegun'
<1> SUFFICES ASSUME StateInv, DropLoads PROVE StreamTyped' /\ NotBegun'
    OBVIOUS
<1>1. /\ visited <= Len(input) /\ visited' = visited + 1 /\ input' = input
      /\ kept' = kept \/ kept' = Append(kept, visited)
      /\ UNCHANGED <<stateVars, vars>>
    BY DEF DropLoads, Loads!Visit, Loads!Drop, Loads!Keep
<1>2. /\ input \in Programs /\ input \in Seq(SemanticCommand) /\ visited \in Nat \ {0}
      /\ kept \in Seq(DOMAIN input) /\ NotBegun
    BY <1>1, ProgramsAssumption DEF StateInv, StreamTyped
<1>3. NotBegun'
    BY <1>1, <1>2 DEF NotBegun, stateVars, vars
<1>4. kept' \in Seq(DOMAIN input)
    BY <1>1, <1>2
<1> QED BY <1>1, <1>2, <1>3, <1>4 DEF StreamTyped

\* What is left to do when the table pass is through.
LEMMA FinishKeeps ==
    ASSUME StateInv, visited > Len(input), ~failed, UNCHANGED loadVars, States!Finish
    PROVE  StateInv'
<1>1. /\ pass = "lut" /\ rewritten > Len(program) /\ pass' = "done"
      /\ UNCHANGED <<KeptStream, program, rewritten, programmed, origin, loadVars>>
    BY DEF States!Finish, loadVars, KeptStream
<1>2. StreamTyped /\ StateTyped /\ ParametersStay /\ TablesStay /\ TableKnown
    BY <1>1 DEF StateInv
<1>3. rewritten = Len(origin) + 1
    BY <1>1, <1>2 DEF StateTyped, TablesStay
<1>4. StreamTyped'
    BY <1>1, <1>2 DEF StreamTyped, loadVars
<1>5. Left' = Left
    BY <1>1 DEF Left
<1>6. StateTyped' /\ ParametersStay'
    BY <1>1, <1>2, <1>5 DEF StateTyped, ParametersStay, After, Before
<1>7. TablesStay' /\ TableKnown'
    BY <1>1, <1>2, <1>5 DEF TablesStay, TableKnown, After, Final
<1> QED BY <1>1, <1>3, <1>4, <1>6, <1>7 DEF StateInv, ParametersKnown

\* What comes after the state passes does not touch what they left.
LEMMA OthersKeepStates ==
    ASSUME StateInv, UNCHANGED <<loadVars, stateVars, program>>
    PROVE  StateInv'
<1>1. KeptStream' = KeptStream /\ Left' = Left
    BY DEF KeptStream, Left, loadVars, stateVars
<1>2. UNCHANGED <<pass, rewritten, programmed, origin, program, input, visited, kept, failed>>
    BY DEF loadVars, stateVars
<1>3. StreamTyped'
    BY <1>2 DEF StateInv, StreamTyped, NotBegun
<1>4. pass # "failed" => StateTyped' /\ ParametersStay'
    BY <1>1, <1>2 DEF StateInv, StateTyped, ParametersStay, After, Before
<1>5. pass # "failed" => ParametersKnown'
    BY <1>1, <1>2 DEF StateInv, ParametersKnown, After, Before
<1>6. pass # "failed" => TablesStay' /\ TableKnown'
    BY <1>1, <1>2 DEF StateInv, TablesStay, TableKnown, After, Final
<1> QED BY <1>2, <1>3, <1>4, <1>5, <1>6 DEF StateInv

\* What the state passes have done is right wherever they stand.
LEMMA StatesCorrect == PassSpec => []StateInv
<1>1. PassInit => StreamTyped /\ NotBegun
    BY DEF PassInit, Loads!Init, StreamTyped, NotBegun
<1>2. StreamTyped /\ NotBegun => StateInv
    BY NothingBegun
<1>3. StateInv /\ [PassNext]_passVars => StateInv' \/ (StreamTyped' /\ NotBegun')
    <2> SUFFICES ASSUME StateInv, [PassNext]_passVars
                 PROVE  StateInv' \/ (StreamTyped' /\ NotBegun')
        OBVIOUS
    <2>1. CASE DropLoads
        BY <2>1, DropLoadsKeeps
    <2>2. CASE DropStateLoads
        BY <2>2, VisitQParamKeeps, StartLutPassKeeps, VisitLutKeeps, FinishKeeps
           DEF DropStateLoads, States!Next
    <2>3. CASE UNCHANGED <<loadVars, stateVars, program>>
        BY <2>3, OthersKeepStates
    <2>4. CASE DrawEdges
        BY <2>3, <2>4 DEF DrawEdges, Visit
    <2>5. CASE StartAnnotation
        BY <2>3, <2>5 DEF StartAnnotation, vars
    <2>6. CASE AnnotateContent
        BY <2>3, <2>6 DEF AnnotateContent, Contents!Next, Contents!AnnotateAccess,
                          Contents!NextCommand
    <2>7. CASE UNCHANGED passVars
        BY <2>3, <2>7 DEF passVars, vars
    <2> QED BY <2>1, <2>2, <2>4, <2>5, <2>6, <2>7 DEF PassNext
<1> QED BY <1>1, <1>2, <1>3, PTL DEF PassSpec

\* The commands the two passes leave find the parameters and the tables they
\* find in the stream before them, nothing but loads is lost, and a lookup
\* reuses a table exactly when it is in the banks, whatever the stream
\* (OptimizeQParamResidency, OptimizeAFULutResidency).
THEOREM StatePassesShowNowhere == PassSpec => []SeesSameState
<1>1. StateInv => SeesSameState
    <2> SUFFICES ASSUME StateInv, pass = "done" PROVE SeesSameState
        BY DEF SeesSameState, States!SeesSameState, States!ReusesExactlyResidentTables
    <2> PICK m : m = Len(origin)
        OBVIOUS
    <2>1. StreamTyped /\ StateTyped /\ ParametersStay /\ TablesStay /\ rewritten = m + 1
        BY DEF StateInv
    <2>2. /\ m \in Nat /\ DOMAIN origin = 1..m /\ DOMAIN program = 1..m
          /\ \A k \in 1..m : origin[k] \in DOMAIN KeptStream /\ Left[k] = KeptStream[origin[k]]
        BY <2>1 DEF StateTyped, Left
    <2>3. ASSUME NEW k \in 1..m, NEW key \in {Quantization, AFULutBanks}
          PROVE  Final(k, key) = Before(origin[k], key)
        <3>1. key \in StateKeys
            BY StatesOperators
        <3>2. After(k, key) = Before(origin[k], key)
            BY <2>1, <2>2, <3>1 DEF ParametersStay
        <3>3. CASE key = AFULutBanks
            <4>1. k \in 1..(m + 1)
                BY <2>2
            <4> QED BY <2>1, <3>2, <3>3, <4>1 DEF TablesStay, StateInv
        <3>4. CASE key = Quantization
            <4>1. ASSUME NEW w \in 1..(k - 1)
                  PROVE  /\ key \in program[w].writes <=> key \in Left[w].writes
                         /\ program[w].type = Left[w].type
                         /\ program[w].identity = Left[w].identity
                <5>1. w \in 1..m /\ w \in DOMAIN origin
                    BY <2>2
                <5>2. \/ program[w] = Left[w]
                      \/ Left[w].type = "AFULut" /\ program[w] = States!Reusing(Left[w])
                    BY <2>1, <5>1 DEF TablesStay, StateInv
                <5>3. Left[w] \in SemanticCommand /\ States!IsDecodedUser(Left[w])
                    BY <2>1, <2>2, <5>1, KeptStreamDecoded
                <5> QED BY <3>4, <5>2, <5>3, ReusingWrites, StatesOperators
            <4>2. SameWriters(program, Left, origin, origin, k, key)
                BY <4>1 DEF SameWriters
            <4>3. k \in Nat \ {0}
                BY <2>2
            <4>4. Final(k, key) = After(k, key)
                BY <4>2, <4>3, ContentDependsOnPrefix DEF Final, After
            <4> QED BY <3>2, <4>4
        <3> QED BY <3>3, <3>4
    <2>4. \A i \in DOMAIN KeptStream : KeptStream[i].type # "RQLoad" =>
            \E k \in DOMAIN origin : origin[k] = i
        BY <2>1 DEF ParametersStay
    <2>5. States!SeesSameState
        BY <2>2, <2>3, <2>4, StatesOperators DEF States!SeesSameState, Final, Before
    <2>6. States!ReusesExactlyResidentTables
        <3>1. (m + 1) - 1 = m
            BY <2>2
        <3> QED BY <2>1, <2>2, <3>1, StatesOperators
                DEF States!ReusesExactlyResidentTables, TablesStay, StateInv, Final
    <2> QED BY <2>5, <2>6 DEF SeesSameState
<1> QED BY <1>1, StatesCorrect, PTL

-----------------------------------------------------------------------------
(* The graph of what the passes leave.                                     *)

\* The loop of BuildCommandDependencyGraph has not begun.
NoEdgesYet ==
    /\ current = 1 /\ edges = {} /\ lastFence = 0
    /\ lastWriter = [key \in StateKeys |-> 0]
    /\ readers = [key \in StateKeys |-> {}]

GraphInv == IF pass = "done" THEN LoopInv ELSE NoEdgesYet

\* Over the stream the passes leave the loop says what it says over any other.
LEMMA GraphCorrect == PassSpec => []GraphInv
<1>1. PassInit => GraphInv
    BY DEF PassInit, GraphInv, NoEdgesYet
<1>2. StateInv /\ GraphInv /\ [PassNext]_passVars => GraphInv'
    <2> SUFFICES ASSUME StateInv, GraphInv, [PassNext]_passVars PROVE GraphInv'
        OBVIOUS
    <2>1. CASE UNCHANGED <<pass, vars>>
        BY <2>1 DEF GraphInv, NoEdgesYet, vars, LoopInv, TypeOK, Indices, FenceIsLast,
                    WritersAreLast, ReadersSinceWriter, EdgesAreDirectDependencies
    <2>2. CASE DropLoads
        BY <2>1, <2>2 DEF DropLoads, stateVars
    <2>3. CASE DropStateLoads
        <3>1. CASE States!Finish
            <4>1. /\ pass = "lut" /\ pass' = "done" /\ UNCHANGED vars
                BY <2>3, <3>1 DEF DropStateLoads, States!Finish, graphVars, vars
            <4>2. program \in Seq(SemanticCommand) /\ NoEdgesYet
                BY <4>1 DEF StateInv, StateTyped, GraphInv
            <4>3. LoopInv
                BY <4>2, LoopBegins DEF NoEdgesYet
            <4> QED BY <4>1, <4>3 DEF GraphInv, vars, LoopInv, TypeOK, Indices, FenceIsLast,
                                      WritersAreLast, ReadersSinceWriter,
                                      EdgesAreDirectDependencies
        <3>2. CASE States!VisitQParam \/ States!StartLutPass \/ States!VisitLut
            <4>1. pass # "done" /\ pass' # "done"
                BY <3>2 DEF States!VisitQParam, States!StartLutPass, States!VisitLut
            <4> QED BY <2>3, <4>1 DEF DropStateLoads, graphVars, GraphInv, NoEdgesYet
        <3> QED BY <2>3, <3>1, <3>2 DEF DropStateLoads, States!Next
    <2>4. CASE DrawEdges
        BY <2>4, VisitKeepsLoop DEF DrawEdges, stateVars, GraphInv
    <2>5. CASE StartAnnotation
        BY <2>1, <2>5 DEF StartAnnotation, stateVars
    <2>6. CASE AnnotateContent
        BY <2>1, <2>6 DEF AnnotateContent, stateVars, graphVars, vars, Contents!Next,
                          Contents!AnnotateAccess, Contents!NextCommand
    <2>7. CASE UNCHANGED passVars
        BY <2>1, <2>7 DEF passVars, stateVars
    <2> QED BY <2>2, <2>3, <2>4, <2>5, <2>6, <2>7 DEF PassNext
<1> QED BY <1>1, <1>2, StatesCorrect, PTL DEF PassSpec

\* Every hazard of the stream the passes leave is ordered by a path of edges
\* (BuildCommandDependencyGraph as OptimizeGlobalCommandSchedule calls it).
THEOREM PassesOrderEveryHazard == PassSpec => []OrdersEveryHazard
<1>1. NoEdgesYet => OrdersEveryHazard
    BY DEF NoEdgesYet, OrdersEveryHazard
<1>2. GraphInv => OrdersEveryHazard
    BY <1>1, LoopOrdersHazards DEF GraphInv
<1> QED BY <1>2, GraphCorrect, PTL

\* ... and no edge orders commands that could run in either order.
THEOREM PassesOrderOnlyHazards == PassSpec => []OrdersOnlyHazards
<1>1. NoEdgesYet => OrdersOnlyHazards
    BY DEF NoEdgesYet, OrdersOnlyHazards
<1>2. GraphInv => OrdersOnlyHazards
    BY <1>1, EdgesAreHazards DEF GraphInv
<1> QED BY <1>2, GraphCorrect, PTL

=============================================================================
