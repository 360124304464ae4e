-------------------------- MODULE DependencyGraph --------------------------
(***************************************************************************)
(* BuildCommandDependencyGraph of neural_ai_command_ir.cpp: one pass over  *)
(* the blocking stream that orders every command after the last control    *)
(* fence, after every earlier command whose memory it conflicts with, and, *)
(* per configuration state, after the last writer and (for a write) the    *)
(* readers since.  State edges are not drawn between all pairs: the graph  *)
(* relies on its own transitivity, which is what the properties are about. *)
(*                                                                         *)
(* Commands are numbered from 1.  The kinds of the edges (RAW, WAR, WAW,   *)
(* Control) are left out: only tests read them.                            *)
(***************************************************************************)
EXTENDS CommandIR

CONSTANT Programs   \* the decoded streams considered

ASSUME ProgramsAssumption == Programs \subseteq Seq(SemanticCommand)

VARIABLES
    program,     \* the stream
    current,     \* the command the loop visits next
    edges,       \* uniqueEdges, as pairs <<predecessor, successor>>
    lastFence,   \* 0 before the first control fence
    lastWriter,  \* StateHazards::lastWriter per state key, 0 for none
    readers      \* StateHazards::readers per state key

vars == <<program, current, edges, lastFence, lastWriter, readers>>

Indices == 1..Len(program)

Init ==
    /\ program \in Programs
    /\ current = 1
    /\ edges = {}
    /\ lastFence = 0
    /\ lastWriter = [key \in StateKeys |-> 0]
    /\ readers = [key \in StateKeys |-> {}]

ControlPredecessors(c) ==
    (IF lastFence > 0 THEN {lastFence} ELSE {})
        \cup (IF c.controlFence THEN 1..(current - 1) ELSE {})

MemoryPredecessorsReadRead(c) ==    \* mutated: two reads conflict as well
    {p \in 1..(current - 1) :
        \E m \in DOMAIN program[p].accesses, n \in DOMAIN c.accesses :
            Overlaps(program[p].accesses[m], c.accesses[n])}

MemoryPredecessors(c) ==
    {p \in 1..(current - 1) : AccessesConflict(program[p], c)}

\* Commands read an engine's state before they write it, so a read-write
\* access leaves the command as last writer and no reader.
StatePredecessorsNoWAR(c) ==        \* mutated: a write ignores the readers
    {lastWriter[key] : key \in {k \in c.reads \cup c.writes : lastWriter[k] > 0}}

StatePredecessors(c) ==
    {lastWriter[key] : key \in {k \in c.reads \cup c.writes : lastWriter[k] > 0}}
        \cup UNION {readers[key] : key \in c.writes}

ReadersAfter(c) ==
    [key \in StateKeys |->
        IF key \in c.writes THEN {}
        ELSE IF key \in c.reads THEN readers[key] \cup {current}
        ELSE readers[key]]

Visit ==
    /\ current <= Len(program)
    /\ LET c == program[current]
       IN  /\ edges' = edges \cup
                (ControlPredecessors(c) \cup MemoryPredecessors(c) \cup StatePredecessors(c))
                    \X {current}
           /\ lastFence' = IF c.controlFence THEN current ELSE lastFence
           /\ lastWriter' = [key \in StateKeys |->
                IF key \in c.writes THEN current ELSE lastWriter[key]]
           /\ readers' = ReadersAfter(c)
    /\ current' = current + 1
    /\ UNCHANGED program

Next == Visit
Spec == Init /\ [][Next]_vars /\ WF_vars(Next)

-----------------------------------------------------------------------------
(* Properties *)

\* The loop's variables keep their types: no edge, fence, writer or reader is
\* ever a command outside the stream or the 0 that stands for none.
TypeOK ==
    /\ program \in Seq(SemanticCommand)
    /\ current \in 1..(Len(program) + 1)
    /\ edges \in SUBSET (Indices \X Indices)
    /\ lastFence \in 0..(current - 1)
    /\ lastWriter \in [StateKeys -> 0..(current - 1)]
    /\ readers \in [StateKeys -> SUBSET Indices]

\* Any two visited commands whose order can be observed are connected by a
\* path of edges, although fences and states keep only their latest members
\* (BuildCommandDependencyGraph, lastFence and StateHazards).
OrdersEveryHazard ==
    \A i, j \in 1..(current - 1) :
        i < j /\ Hazard(program[i], program[j]) => LeadsTo(edges, Len(program), i, j)

\* An edge never orders two commands that could run in either order: reads of
\* one state or of one interval stay independent.
OrdersOnlyHazards ==
    \A e \in edges : e[1] < e[2] /\ Hazard(program[e[1]], program[e[2]])

\* The loop's summaries (last fence, last writer, readers since) draw exactly
\* the edges of the loop-free definition, no stale reader or writer included.
EdgesAreDirectDependencies ==
    edges = {e \in DependencyEdges(program) : e[2] < current}

=============================================================================
