----------------------------- MODULE CommandIR -----------------------------
(***************************************************************************)
(* The semantic command records of the Neural-AI backend                   *)
(* (neural_ai_command_ir.hpp) as DecodeSemanticCommandStream leaves them:  *)
(* what each ABI command reads, writes, occupies and whether the runtime   *)
(* can submit it and observe its completion later.                         *)
(*                                                                         *)
(* A memory access is a half-open interval of one storage (a region; the   *)
(* models need one binding of each); addresses are small numbers, one unit *)
(* standing for one TCDM word.  The byte counts of every command (rows, strides, groups)    *)
(* are abstracted to the interval they produce; commands that              *)
(* DecodeKnownCommand refuses never become records.                        *)
(***************************************************************************)
EXTENDS Integers, Sequences, FiniteSets

CONSTANTS
    DMAQueueDepth,  \* jobs one iDMA direction holds (16 in the code)
    Banks           \* TCDM banks: bank phases and the penalty divisor (16)

ASSUME CommandIRAssumption ==
    DMAQueueDepth \in Nat \ {0} /\ Banks \in Nat \ {0}

-----------------------------------------------------------------------------
(* Queues: the two iDMA directions and the single systolic pending slot.   *)

ExternalToLocal == 0
LocalToExternal == 1
LocalToLocal    == 2    \* a DMADirection, executed by Spatz, not a queue
SystolicQueue   == 2
Queues  == 0..2
NoQueue == -1

TCDM    == "TCDMScratch"
NoPhase == -1           \* UINT16_MAX in the code: not a TCDM access

StateKeys ==            \* SemanticState and its instance
    ({"Quantization", "SystolicSlot", "AFUEngine", "AFULut", "SpatzEngine"} \X {0})
        \cup ({"DMAQueue"} \X {ExternalToLocal, LocalToExternal})

Quantization == <<"Quantization", 0>>
SystolicSlot == <<"SystolicSlot", 0>>
AFUEngine    == <<"AFUEngine", 0>>
AFULutBanks  == <<"AFULut", 0>>
SpatzEngine  == <<"SpatzEngine", 0>>
DMAQueue(direction) == <<"DMAQueue", direction>>

Resources == {"Control", "DMAExternalToLocal", "DMALocalToExternal",
              "Systolic", "AFU", "Spatz"}

Regions == {"ModelConstants", "ModelCommands", "InputBinding", "OutputBinding",
            "L2TemporaryBinding", "TCDMScratch", "DTCMRuntime"}

MemoryAccess ==
    [storage : Regions, begin : Nat, end : Nat, write : BOOLEAN,
     bankPhase : Nat \cup {NoPhase}]

CopyShape ==
    [length : Nat, repeat2 : Nat, repeat3 : Nat, source : Nat \X Nat, destination : Nat \X Nat]

SemanticCommand ==
    [type : STRING, resources : SUBSET Resources,
     accesses : Seq(MemoryAccess),
     reads : SUBSET StateKeys, writes : SUBSET StateKeys,
     asyncCapable : BOOLEAN, controlFence : BOOLEAN,
     queueId : Int, queueCapacity : {0, 1, DMAQueueDepth},
     cycles : Nat, identity : Nat, reuse : BOOLEAN, shape : CopyShape]

\* The engines that have a queue: the two iDMA directions and the systolic array.
Queued == {"DMAExternalToLocal", "DMALocalToExternal", "Systolic"}

\* What the scheduler may rely on besides the types: parameters are written by
\* RQ_LOAD, the jobs that can wait in the systolic slot read them, and a
\* command given a queue is given room in it.
DecodedCommand ==
    {c \in SemanticCommand :
        /\ c.type = "RQLoad" => Quantization \in c.writes
        /\ c.asyncCapable /\ "Systolic" \in c.resources => Quantization \in c.reads
        /\ c.resources \cap Queued # {} /\ c.queueId >= 0 => c.queueCapacity > 0}

-----------------------------------------------------------------------------
(* Decoding: one operator per group of ABI commands.                       *)

Access(storage, begin, size, write) ==
    [storage |-> storage, begin |-> begin, end |-> begin + size, write |-> write,
     bankPhase |-> IF storage = TCDM THEN begin % Banks ELSE NoPhase]

Read(storage, begin, size)  == Access(storage, begin, size, FALSE)
Write(storage, begin, size) == Access(storage, begin, size, TRUE)

\* The transfers of a 1D, 2D or 3D copy: repeat2 * repeat3 runs of length
\* words.  A 1D copy has one run, a 2D copy repeat3 = 1.
Shape(length, source2, destination2, repeat2, source3, destination3, repeat3) ==
    [length |-> length, repeat2 |-> repeat2, repeat3 |-> repeat3,
     source |-> <<source2, source3>>, destination |-> <<destination2, destination3>>]
Contiguous(length) == Shape(length, 0, 0, 1, 0, 0, 1)

\* The record every decoder starts from, with the state it reads and writes.
Command(type, resources, accesses, reads, writes, cycles) ==
    [type |-> type, resources |-> resources, accesses |-> accesses,
     reads |-> reads, writes |-> writes,
     asyncCapable |-> FALSE, controlFence |-> FALSE,
     queueId |-> NoQueue, queueCapacity |-> 0,
     cycles |-> cycles, identity |-> 0, reuse |-> FALSE, shape |-> Contiguous(0)]

\* The bounding span of one side of a copy, holes between its runs included.
Span(shape, strides) ==
    shape.length + strides[1] * (shape.repeat2 - 1) + strides[2] * (shape.repeat3 - 1)

\* source and destination are places <<storage, address>>.
DMA(type, direction, source, destination, shape) ==
    LET accesses == <<Read(source[1], source[2], Span(shape, shape.source)),
                      Write(destination[1], destination[2], Span(shape, shape.destination))>>
        cycles == shape.length * shape.repeat2 * shape.repeat3
    IN  IF direction = LocalToLocal
        THEN [Command(type, {"Spatz"}, accesses, {SpatzEngine}, {SpatzEngine}, cycles)
                 EXCEPT !.queueId = direction, !.shape = shape]
        ELSE [Command(type,
                      {IF direction = ExternalToLocal THEN "DMAExternalToLocal"
                                                      ELSE "DMALocalToExternal"},
                      accesses, {DMAQueue(direction)}, {DMAQueue(direction)}, cycles)
                 EXCEPT !.asyncCapable = TRUE, !.queueId = direction,
                        !.queueCapacity = DMAQueueDepth, !.shape = shape]

\* Gemm32*, PointwiseC32, DepthwiseC32 and MaxPool: firmware-blocking.
Systolic(type, accesses, cycles) ==
    Command(type, {"Systolic"}, accesses,
            {Quantization, SystolicSlot}, {SystolicSlot}, cycles)

\* LineBufferJob and LineBufferBinary: one preloaded job may be pending.
LineBuffer(accesses, cycles) ==
    [Systolic("LineBuffer", accesses, cycles)
        EXCEPT !.asyncCapable = TRUE, !.queueId = 0, !.queueCapacity = 1]

RQLoad(identity, cycles) ==
    [Command("RQLoad", {}, <<>>, {}, {Quantization}, cycles)
        EXCEPT !.identity = identity]

\* The table is the third access and is absent from a reusing command.
AFULut(table, tableRead, source, destination, reuse, cycles) ==
    [Command("AFULut", {"AFU"},
             IF reuse THEN <<source, destination>>
                      ELSE <<source, destination, tableRead>>,
             {AFUEngine} \cup (IF reuse THEN {AFULutBanks} ELSE {}),
             {AFUEngine} \cup (IF reuse THEN {} ELSE {AFULutBanks}), cycles)
        EXCEPT !.identity = table, !.reuse = reuse]

AFUBinary(accesses, chain, cycles) ==
    Command("AFUBinary", {"AFU"}, accesses,
            {AFUEngine} \cup (IF chain THEN {AFULutBanks} ELSE {}),
            {AFUEngine}, cycles)

\* Without requantisation the pooled sums go through the LUT banks.
AFUGlobalAvgPool(accesses, requant, cycles) ==
    Command("AFUGlobalAvgPool", {"AFU"}, accesses, {AFUEngine},
            {AFUEngine} \cup (IF requant THEN {} ELSE {AFULutBanks}), cycles)

AFUDFL16(table, accesses, cycles) ==
    [Command("AFUDFL16", {"AFU", "Spatz"}, accesses,
             {AFUEngine, SpatzEngine}, {AFUEngine, SpatzEngine, AFULutBanks}, cycles)
        EXCEPT !.identity = table]

\* CopyLayout, UpsampleNearest and SpatzAdd.
SpatzCommand(type, accesses, cycles) ==
    Command(type, {"Spatz"}, accesses, {SpatzEngine}, {SpatzEngine}, cycles)

\* End, Barrier and the three Rolling commands.
Fence(type) ==
    [Command(type, {"Control"}, <<>>, {}, {}, 1) EXCEPT !.controlFence = TRUE]

\* SpatzRequant and SpatzMul, reserved ABI values ordered conservatively.
ReservedSpatz(type) ==
    [SpatzCommand(type, <<>>, 1) EXCEPT !.controlFence = TRUE]

\* DMAWait and SystolicWait, which only a scheduled stream contains.
DMAWait(direction) ==
    [Command("DMAWait", {}, <<>>, {DMAQueue(direction)}, {DMAQueue(direction)}, 1)
        EXCEPT !.queueId = direction, !.queueCapacity = DMAQueueDepth]
SystolicWait ==
    Command("SystolicWait", {"Systolic"}, <<>>, {SystolicSlot}, {SystolicSlot}, 1)

-----------------------------------------------------------------------------
(* Which pairs of commands the program order of the stream must be kept for. *)

Overlaps(a, b) ==
    a.storage = b.storage /\ a.begin < b.end /\ b.begin < a.end

AccessesConflict(c, d) ==
    \E m \in DOMAIN c.accesses, n \in DOMAIN d.accesses :
        /\ Overlaps(c.accesses[m], d.accesses[n])
        /\ c.accesses[m].write \/ d.accesses[n].write

Touches(c, key) == key \in c.reads \/ key \in c.writes

StateConflict(c, d) ==
    \E key \in StateKeys :
        \/ key \in c.writes /\ Touches(d, key)
        \/ key \in c.reads  /\ key \in d.writes

\* Two commands whose order a reader of the blocking stream can observe.
Hazard(c, d) ==
    \/ c.controlFence \/ d.controlFence
    \/ AccessesConflict(c, d)
    \/ StateConflict(c, d)

-----------------------------------------------------------------------------
(* The dependency graph of a stream, said without the loop that builds it.  *)

\* No command strictly between i and j overwrites the state.
NoneBetween(prog, i, j, key) == \A m \in (i + 1)..(j - 1) : key \notin prog[m].writes

DirectDependency(prog, i, j) ==
    \/ prog[j].controlFence
    \/ prog[i].controlFence /\ \A m \in (i + 1)..(j - 1) : ~prog[m].controlFence
    \/ AccessesConflict(prog[i], prog[j])
    \/ \E key \in StateKeys :
          /\ NoneBetween(prog, i, j, key)
          /\ \/ key \in prog[i].writes /\ Touches(prog[j], key)
             \/ key \in prog[i].reads  /\ key \in prog[j].writes

DependencyEdges(prog) ==
    {e \in (1..Len(prog)) \X (1..Len(prog)) :
        e[1] < e[2] /\ DirectDependency(prog, e[1], e[2])}

\* Every predecessor-closed set of commands that contains j contains i:
\* the edges lead from i to j.
LeadsTo(edges, n, i, j) ==
    \A S \in SUBSET (1..n) :
        (j \in S /\ \A e \in edges : e[2] \in S => e[1] \in S) => i \in S

-----------------------------------------------------------------------------
(* Cells: the single locations, of memory and of configuration state, that   *)
(* a command reads and writes.                                               *)

MemoryCells(c, write) ==
    UNION {LET a == c.accesses[m]
           IN  {<<a.storage, o>> : o \in {x \in a.begin..(a.end - 1) : a.write = write}} :
           m \in DOMAIN c.accesses}

CellsRead(c)    == MemoryCells(c, FALSE) \cup c.reads
CellsWritten(c) == MemoryCells(c, TRUE) \cup c.writes

AllCells(prog) == UNION {CellsRead(prog[i]) \cup CellsWritten(prog[i]) : i \in DOMAIN prog}

=============================================================================
