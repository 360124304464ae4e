------------------------------ MODULE NpuWaits -------------------------------
(***************************************************************************)
(* The waits of an Ethos-U85 command stream                                *)
(* (ethos_u85_register_cs_generator.cpp) and the two engines that run it.  *)
(* The generator remembers the accesses of the transfers and of the kernel *)
(* operations that may still run, and makes a command wait for those of    *)
(* the other engine that it conflicts with.                                *)
(***************************************************************************)
EXTENDS Integers, Sequences, FiniteSetsExt

CONSTANTS
    Commands,      \* high level commands: [type, ops], ops the accesses of each operation
    MaxCommands,   \* bound on the length of a stream
    Limits         \* [dma |-> MaxOutstandingDMAOps, npu |-> MaxOutstandingKernelOps]

Engines == {"dma", "npu"}

ASSUME NpuWaitsAssumption ==
    MaxCommands \in Nat /\ Limits \in [Engines -> Nat \ {0}]

\* The accesses of an operation: the places it reads and those it writes.
Places   == UNION {UNION {c.ops[i].reads \cup c.ops[i].writes : i \in DOMAIN c.ops} : c \in Commands}
Accesses == [reads : SUBSET Places, writes : SUBSET Places]

\* A stripe runs an operation at least, a transfer is one.
IsCommand(c) ==
    /\ c.type \in {"STRIPE", "DMA", "BRANCH", "BRANCH_TARGET"}
    /\ c.ops \in Seq(Accesses)
    /\ c.type = "STRIPE" => Len(c.ops) >= 1
    /\ c.type = "DMA" => Len(c.ops) = 1

ASSUME CommandsAssumption == \A c \in Commands : IsCommand(c)

VARIABLES
    generator,   \* [code, dma, npu]: what is emitted, outstandingDmaAccesses, outstandingNpuAccesses
    commands,    \* the number of commands generated
    pc,          \* the next instruction; 0 while the stream is generated
    running      \* per engine, the accesses of what was issued and has not finished

vars == <<generator, commands, pc, running>>

NoAccess == [reads |-> {}, writes |-> {}]
Both(a, b) == [reads |-> a.reads \cup b.reads, writes |-> a.writes \cup b.writes]

Conflicts(a, b) ==
    \/ a.writes \cap (b.reads \cup b.writes) # {}
    \/ b.writes \cap a.reads # {}

-----------------------------------------------------------------------------
(* The generator                                                           *)

Emit(g, instruction) == [g EXCEPT !.code = Append(@, instruction)]

Wait(engine, n) == [op |-> "wait", engine |-> engine, n |-> n]
Run(engine, access) == [op |-> "run", engine |-> engine, access |-> access]

\* mutated: the conflicting operation itself is not counted out
WaitsPast(queue, last) == Len(queue) - last + 1

\* The operations younger than the one waited for may stay outstanding.
Waits(queue, last) == Len(queue) - last

\* CalcCommandWaits, GenerateWaits: the youngest conflict and all before it
\* are over after the wait.
Awaited(g, engine, access) ==
    LET hits == {i \in DOMAIN g[engine] : Conflicts(access, g[engine][i])}
    IN  IF hits = {} THEN g
        ELSE [Emit(g, Wait(engine, Waits(g[engine], Max(hits)))) EXCEPT
                 ![engine] = SubSeq(@, Max(hits) + 1, Len(@))]

\* UpdateMemoryAccesses
Outstanding(g, engine, access) ==
    [g EXCEPT ![engine] = IF Len(@) < Limits[engine] THEN Append(@, access) ELSE Append(Tail(@), access)]

\* GenerateOpGroup: the accesses of a group add up from operation to operation.
GroupStep(state, access) ==
    LET sum == Both(state.access, access)
    IN  [g |-> Emit(Awaited(state.g, "dma", sum), Run("npu", access)), access |-> sum]

Group(g, ops) ==
    LET after[k \in 0..Len(ops)] ==
            IF k = 0 THEN [g |-> g, access |-> NoAccess] ELSE GroupStep(after[k - 1], ops[k])
    IN  after[Len(ops)]

GenerateStripe(g, cmd) ==
    LET group == Group(g, cmd.ops) IN Outstanding(group.g, "npu", group.access)

GenerateDMA(g, cmd) ==
    LET access == cmd.ops[1]
        waited == Awaited(Awaited(g, "dma", access), "npu", access)
    IN  Emit(Outstanding(waited, "dma", access), Run("dma", access))

GenerateBranch(g) ==
    [g EXCEPT !.code = @ \o <<Wait("npu", 0), Wait("dma", 0), [op |-> "branch"]>>,
              !.dma = <<>>, !.npu = <<>>]

GenerateTarget(g) == Emit(g, [op |-> "target"])

GenerateCommandStream ==
    /\ pc = 0
    /\ commands < MaxCommands
    /\ \E cmd \in Commands :
          generator' = CASE cmd.type = "STRIPE" -> GenerateStripe(generator, cmd)
                         [] cmd.type = "DMA" -> GenerateDMA(generator, cmd)
                         [] cmd.type = "BRANCH" -> GenerateBranch(generator)
                         [] cmd.type = "BRANCH_TARGET" -> GenerateTarget(generator)
    /\ commands' = commands + 1
    /\ UNCHANGED <<pc, running>>

-----------------------------------------------------------------------------
(* The engines: each finishes its operations in the order of their issue   *)

Init ==
    /\ generator = [code |-> <<>>, dma |-> <<>>, npu |-> <<>>]
    /\ commands = 0
    /\ pc = 0
    /\ running = [e \in Engines |-> <<>>]

Start == pc = 0 /\ commands = MaxCommands /\ pc' = 1 /\ UNCHANGED <<generator, commands, running>>

IsAt(op) == pc \in DOMAIN generator.code /\ generator.code[pc].op = op
Instruction == generator.code[pc]
Targets == {i \in DOMAIN generator.code : generator.code[i].op = "target"}

Issue ==
    /\ IsAt("run")
    /\ Len(running[Instruction.engine]) < Limits[Instruction.engine]
    /\ running' = [running EXCEPT ![Instruction.engine] = Append(@, Instruction.access)]
    /\ pc' = pc + 1
    /\ UNCHANGED <<generator, commands>>

PassWait ==
    /\ IsAt("wait")
    /\ Len(running[Instruction.engine]) <= Instruction.n
    /\ pc' = pc + 1
    /\ UNCHANGED <<generator, commands, running>>

PassTarget == IsAt("target") /\ pc' = pc + 1 /\ UNCHANGED <<generator, commands, running>>

\* The condition decides at run time: any target of the stream.
Jump == IsAt("branch") /\ pc' \in Targets /\ UNCHANGED <<generator, commands, running>>

Finish(engine) ==
    /\ running[engine] # <<>>
    /\ running' = [running EXCEPT ![engine] = Tail(@)]
    /\ UNCHANGED <<generator, commands, pc>>

Next ==
    \/ GenerateCommandStream \/ Start
    \/ Issue \/ PassWait \/ PassTarget \/ Jump
    \/ \E engine \in Engines : Finish(engine)

Spec == Init /\ [][Next]_vars

-----------------------------------------------------------------------------
(* Properties                                                              *)

\* The generator remembers at most what each engine can hold, and each
\* engine holds at most that.
TypeOK ==
    /\ commands \in 0..MaxCommands
    /\ pc \in 0..(Len(generator.code) + 1)
    /\ \A e \in Engines : Len(generator[e]) <= Limits[e] /\ Len(running[e]) <= Limits[e]

\* Of two operations that run together, at least one a transfer, none
\* writes what the other reads or writes, whatever the control flow: the
\* waits are enough.  (Kernel operations are ordered by the block dependency.)
NoHazard ==
    /\ \A i \in DOMAIN running.dma, j \in DOMAIN running.npu : ~Conflicts(running.dma[i], running.npu[j])
    /\ \A i, j \in DOMAIN running.dma : i # j => ~Conflicts(running.dma[i], running.dma[j])

=============================================================================
