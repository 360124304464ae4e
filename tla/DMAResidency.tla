--------------------------- MODULE DMAResidency ----------------------------
(***************************************************************************)
(* OptimizeDMAResidency of neural_ai_command_scheduler.cpp: one pass that  *)
(* drops an external-to-TCDM transfer when the same transfer, word for     *)
(* word, is still resident: no later command has written into the bounding *)
(* span of its source or of its destination.                               *)
(*                                                                         *)
(* The pass is run beside two machines, one executing the input stream and *)
(* one executing what the pass keeps of it.  A cell holds the command and  *)
(* the place its word comes from.                                          *)
(***************************************************************************)
EXTENDS CommandIR

CONSTANT Programs   \* the decoded streams considered

VARIABLES
    program,     \* the stream
    current,     \* the command the pass visits next
    resident,    \* the transfers still resident
    kept,        \* the numbers of the commands kept, in order
    failed,      \* an overlapping load was met
    inputMem,    \* memory after the visited part of the input stream
    outputMem    \* memory after the kept part of it

vars == <<program, current, resident, kept, failed, inputMem, outputMem>>

MemoryOf(prog) ==
    UNION {MemoryCells(prog[i], TRUE) \cup MemoryCells(prog[i], FALSE) : i \in DOMAIN prog}

Init ==
    /\ program \in Programs
    /\ current = 1
    /\ resident = {}
    /\ kept = <<>>
    /\ failed = FALSE
    /\ inputMem = [c \in MemoryOf(program) |-> <<0, c>>]
    /\ outputMem = inputMem

-----------------------------------------------------------------------------
(* What the commands do to memory (the engines are not in this repository). *)

\* The runs of a copy, in the order they are made.
Runs(shape) == (0..(shape.repeat3 - 1)) \X (0..(shape.repeat2 - 1))
RunsBefore(r, s) == r[1] < s[1] \/ (r[1] = s[1] /\ r[2] < s[2])
Offset(strides, r) == strides[1] * r[2] + strides[2] * r[1]

\* The runs that write the destination word at this offset; the last one stays.
RunsWriting(shape, offset) ==
    {r \in Runs(shape) :
        offset - Offset(shape.destination, r) \in 0..(shape.length - 1)}

SourceOffset(shape, offset) ==
    LET last == CHOOSE r \in RunsWriting(shape, offset) :
                    \A s \in RunsWriting(shape, offset) \ {r} : RunsBefore(s, r)
    IN  Offset(shape.source, last) + offset - Offset(shape.destination, last)

IsCopy(c) == c.type \in {"DMA1D", "DMA2D", "DMA3D"}

\* A copy as it is decoded: at least one run of at least one word, and the
\* bounding spans of its two sides as its accesses.
IsDecodedCopy(c) ==
    /\ c.shape.length > 0 /\ c.shape.repeat2 > 0 /\ c.shape.repeat3 > 0
    /\ Len(c.accesses) = 2 /\ ~c.accesses[1].write /\ c.accesses[2].write
    /\ c.accesses[1].end = c.accesses[1].begin + Span(c.shape, c.shape.source)
    /\ c.accesses[2].end = c.accesses[2].begin + Span(c.shape, c.shape.destination)

DecodedStreams ==
    {s \in Seq(SemanticCommand) : \A i \in DOMAIN s : IsCopy(s[i]) => IsDecodedCopy(s[i])}

Copied(mem, c) ==
    LET from == c.accesses[1]
        to   == c.accesses[2]
    IN  [cell \in DOMAIN mem |->
            IF cell[1] = to.storage /\ RunsWriting(c.shape, cell[2] - to.begin) # {}
            THEN mem[<<from.storage, from.begin + SourceOffset(c.shape, cell[2] - to.begin)>>]
            ELSE mem[cell]]

\* A command that computes leaves words of its own wherever it writes.
Executed(mem, i) ==
    LET c == program[i]
    IN  IF IsCopy(c) THEN Copied(mem, c)
        ELSE [cell \in DOMAIN mem |->
                IF cell \in MemoryCells(c, TRUE) THEN <<i, cell>> ELSE mem[cell]]

-----------------------------------------------------------------------------
(* The pass                                                                *)

IsLoad(c) ==
    /\ IsCopy(c)
    /\ c.queueId = ExternalToLocal
    /\ c.accesses[2].storage = TCDM

Transfer(c) ==
    [type |-> c.type, shape |-> c.shape,
     source |-> c.accesses[1], destination |-> c.accesses[2]]

\* mutated: the kind and the shape of the copy are not compared
ResidentByDestination(c) == \E t \in resident :
    t.destination = c.accesses[2] /\ t.source.storage = c.accesses[1].storage

IsResident(c) == Transfer(c) \in resident

Invalidated(c) ==
    {t \in resident : \E m \in DOMAIN c.accesses :
        /\ c.accesses[m].write
        /\ Overlaps(c.accesses[m], t.source) \/ Overlaps(c.accesses[m], t.destination)}

\* A load is remembered unless it overwrites its own source.
Keep(c) ==
    /\ failed' = (IsLoad(c) /\ Overlaps(c.accesses[1], c.accesses[2]))
    /\ resident' = (resident \ Invalidated(c)) \cup
                        (IF IsLoad(c) /\ ~failed' THEN {Transfer(c)} ELSE {})
    /\ kept' = IF failed' THEN kept ELSE Append(kept, current)
    /\ outputMem' = Executed(outputMem, current)

Drop == UNCHANGED <<resident, kept, failed, outputMem>>

Visit ==
    /\ current <= Len(program)
    /\ ~failed
    /\ LET c == program[current]
       IN  IF IsLoad(c) /\ IsResident(c) THEN Drop ELSE Keep(c)
    /\ inputMem' = Executed(inputMem, current)
    /\ current' = current + 1
    /\ UNCHANGED program

Next == Visit
Spec == Init /\ [][Next]_vars

-----------------------------------------------------------------------------
(* Properties *)

\* The variables of the pass keep their types.
TypeOK ==
    /\ current \in 1..(Len(program) + 1)
    /\ \A t \in resident : t.destination.storage = TCDM /\ t.destination.write
    /\ kept \in Seq(1..Len(program))
    /\ failed \in BOOLEAN
    /\ DOMAIN inputMem = DOMAIN outputMem

\* Dropping loads never shows: whatever part of the stream has run, the kept
\* commands have left every word of every memory as the input stream has.
SameMemory == ~failed => outputMem = inputMem

\* A transfer counts as resident only while its destination still holds what
\* its source holds, whatever the strides of the copy.
ResidentTransfersHold ==
    \A t \in resident :
        \A offset \in 0..(t.destination.end - t.destination.begin - 1) :
            RunsWriting(t.shape, offset) # {} =>
                inputMem[<<t.destination.storage, t.destination.begin + offset>>] =
                inputMem[<<t.source.storage,
                           t.source.begin + SourceOffset(t.shape, offset)>>]

=============================================================================
