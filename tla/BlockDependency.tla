--------------------------- MODULE BlockDependency ---------------------------
(***************************************************************************)
(* BLOCKDEP of the Ethos-U85 (CalcBlockDep): how many jobs of a kernel     *)
(* operation and of the one before it may be in flight together.  It is    *)
(* computed from estimates of the last jobs of the one and the first jobs  *)
(* of the other; the machine then runs the jobs there really are.          *)
(***************************************************************************)
EXTENDS Integers, Sequences, FiniteSetsExt

CONSTANTS
    Pairs,         \* two operations, one after the other
    MaxBlockdep

(***************************************************************************)
(* A pair has the operation before, first [ofm, area, block, moved,        *)
(* control], and the one that follows, second [inputs, out, block, slice,  *)
(* kernel, stride, pad, chained]: inputs are pairs [fm, area], slice is    *)
(* the depth of an IFM block, kernel the dilated size, moved a transposed  *)
(* or reversed OFM; out has height and width of the OFM and how many times *)
(* a block of it reads the whole depth of the IFM.  A feature map has an   *)
(* address, bytes, a shape and a step; positions are <<height, width,      *)
(* depth>>, an area is from one up to another of these.                    *)
(***************************************************************************)

VARIABLES
    pair,
    blockdep,    \* what the second operation is given, -1 before
    left,        \* jobs of the first that have not finished
    started      \* jobs of the second that have started

vars == <<pair, blockdep, left, started>>

Axes == 1..3

DivRoundUp(a, b) == (a + b - 1) \div b

Volume(v) == v[1] * v[2] * v[3]

\* Position k (from 0) of a walk over a grid: depth first, then width.
Cell(k, grid) == <<k \div (grid[3] * grid[2]), (k \div grid[3]) % grid[2], k % grid[3]>>

-----------------------------------------------------------------------------
(* The generator                                                           *)

Scaled(shape, step) == [a \in Axes |-> IF a = 3 THEN shape[a] ELSE shape[a] * step]

\* RequiredInputSize
CalcIFMJobShape(op, step) ==
    Scaled([a \in Axes |-> IF a = 3 THEN op.slice ELSE (op.block[a] - 1) * op.stride + op.kernel], step)

CalcOFMJobShape(op) == Scaled(op.block, op.ofm.step)

JobSplit(area, shape) == [a \in Axes |-> DivRoundUp(area.to[a] - area.from[a], shape[a])]

Job(area, shape, k) ==
    LET from == [a \in Axes |-> area.from[a] + Cell(k, JobSplit(area, shape))[a] * shape[a]]
    IN  [from |-> from, to |-> [a \in Axes |-> Min({from[a] + shape[a], area.to[a]})]]

\* GetJobs: at most MaxBlockdep of them.
FirstJobs(area, shape) ==
    [k \in 1..Min({Volume(JobSplit(area, shape)), MaxBlockdep}) |-> Job(area, shape, k - 1)]

\* Backwards: the very last job is number 1.
LastJobs(area, shape) ==
    LET n == Volume(JobSplit(area, shape))
    IN  [k \in 1..Min({n, MaxBlockdep}) |-> Job(area, shape, n - k)]

Overlaps(box1, box2) == \A a \in Axes : box1.from[a] < box2.to[a] /\ box2.from[a] < box1.to[a]

\* mutated: of every job of one operation only its counterpart in the other is looked at
JobsMeetInStep(current, previous, b) ==
    \E i \in 0..b : i + i = b /\ Overlaps(current[i + 1], previous[i + 1])

\* A job of each, b jobs from the boundary together.
JobsMeet(current, previous, b) ==
    \E i \in 0..b : Overlaps(current[i + 1], previous[b - i + 1])

JobDependency(input, op, prev) ==
    LET current  == FirstJobs(input.area, CalcIFMJobShape(op, input.fm.step))
        previous == LastJobs(prev.area, CalcOFMJobShape(prev))
        size     == Min({Len(current), Len(previous)})
    IN  Min({size} \cup {b \in 0..(size - 1) : JobsMeet(current, previous, b)})

SharesBytes(fm1, fm2) ==
    fm1.address < fm2.address + fm2.bytes /\ fm2.address < fm1.address + fm1.bytes

IsProduced(input, prev) == input.fm.address = prev.ofm.address

\* Of two inputs the second is looked at first.
IfmIndex(op, prev) == IF Len(op.inputs) > 1 /\ IsProduced(op.inputs[2], prev) THEN 2 ELSE 1

IsBroadcast(op, index) ==
    Len(op.inputs) > 1 /\ op.inputs[index].fm.bytes < op.inputs[3 - index].fm.bytes

CalcBlockDep(op, prev) ==
    LET index == IfmIndex(op, prev)
        input == op.inputs[index]
    IN  IF prev.control \/ prev.moved THEN 0
        ELSE IF ~IsProduced(input, prev)
        THEN IF \E i \in DOMAIN op.inputs : SharesBytes(op.inputs[i].fm, prev.ofm) THEN 0 ELSE MaxBlockdep
        ELSE IF IsBroadcast(op, index) \/ prev.ofm.shape # input.fm.shape THEN 0
        ELSE JobDependency(input, op, prev)

Init == pair \in Pairs /\ blockdep = -1 /\ left = 0 /\ started = 0

\* The jobs the operations really have.
WriteGrid(op) == JobSplit(op.area, CalcOFMJobShape(op))

\* GenerateOpGroup: no dependency is computed for a chained operation.
GenerateOpGroup ==
    /\ blockdep = -1
    /\ blockdep' = IF pair.second.chained THEN 0 ELSE CalcBlockDep(pair.second, pair.first)
    /\ left' = Volume(WriteGrid(pair.first))
    /\ UNCHANGED <<pair, started>>

-----------------------------------------------------------------------------
(* The machine: jobs start and finish in order, those of the OFM blocks of  *)
(* one operation row by row, each reading the IFM one slice of its depth    *)
(* after the other.                                                         *)

Slices(op, input) == DivRoundUp(input.area.to[3] - input.area.from[3], op.slice)

\* Rows, columns, and per block the slices of the input.
ReadGrid(op, input) ==
    <<DivRoundUp(op.out[1], op.block[1]), DivRoundUp(op.out[2], op.block[2]),
      op.out[3] * Slices(op, input)>>

\* Rows or columns that job k reads; what is not in the area is padding, and
\* every job reads a single one (broadcast).
Taps(op, input, k, a) ==
    LET first == Cell(k, ReadGrid(op, input))[a] * op.block[a] * op.stride - op.pad
        reach == (op.block[a] - 1) * op.stride + op.kernel
        range == input.area.from[a]..(input.area.to[a] - 1)
    IN  IF Cardinality(range) = 1 THEN range
        ELSE {input.area.from[a] + input.fm.step * n : n \in first..(first + reach - 1)} \cap range

DepthsRead(op, input, k) ==
    LET from == input.area.from[3] + (Cell(k, ReadGrid(op, input))[3] % Slices(op, input)) * op.slice
    IN  from..(Min({from + op.slice, input.area.to[3]}) - 1)

Reads(op, input, k) == <<Taps(op, input, k, 1), Taps(op, input, k, 2), DepthsRead(op, input, k)>>

\* Rows, columns and depths that job k writes.
Writes(op, k) ==
    LET box == Job(op.area, CalcOFMJobShape(op), k)
    IN  [a \in Axes |-> {p \in box.from[a]..(box.to[a] - 1) :
                            a = 3 \/ (p - op.area.from[a]) % op.ofm.step = 0}]

NumberOfReads ==
    Max({Volume(ReadGrid(pair.second, pair.second.inputs[k])) : k \in DOMAIN pair.second.inputs})

\* Between a job and the one it follows at the distance of blockdep all are done.
StartJob ==
    /\ blockdep >= 0
    /\ started < NumberOfReads
    /\ left = 0 \/ left + started <= blockdep
    /\ started' = started + 1
    /\ UNCHANGED <<pair, blockdep, left>>

FinishJob ==
    /\ left > 0
    /\ left' = left - 1
    /\ UNCHANGED <<pair, blockdep, started>>

Next == GenerateOpGroup \/ StartJob \/ FinishJob

-----------------------------------------------------------------------------
(* Properties                                                              *)

\* A different shape is a different view of the bytes, and a moved OFM has
\* other positions: any job may write what any other reads.
SamePlace(input, first) ==
    input.fm.address = first.ofm.address /\ input.fm.shape = first.ofm.shape /\ ~first.moved

Meets(input, read, write) ==
    IF SamePlace(input, pair.first)
    THEN \A a \in Axes : Reads(pair.second, input, read)[a] \cap Writes(pair.first, write)[a] # {}
    ELSE SharesBytes(input.fm, pair.first.ofm)

\* No job reads what a job in flight of the operation before is still to write:
\* "no overlap between any job from the previous op with any job from the current
\* op during blockdep jobs" (ethos_u85_register_cs_generator.cpp:932-933).
ReadsWhatWasWritten ==
    started > 0 =>
        LET n == Volume(WriteGrid(pair.first))
        IN  \A k \in DOMAIN pair.second.inputs : \A j \in (n - left)..(n - 1) :
                ~Meets(pair.second.inputs[k], started - 1, j)

=============================================================================
