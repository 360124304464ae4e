------------------------- MODULE SpilledLinebuffer --------------------------
(***************************************************************************)
(* AppendSpilledLinebuffer (neural_ai_command_generator.cpp): a 3x3        *)
(* convolution whose feature maps live in L2 or have several channel       *)
(* groups.  For each output group and stripe, every input group is staged  *)
(* and accumulated; the finished stripe is stored.  The commands take      *)
(* effect in the order they are emitted.                                   *)
(*                                                                         *)
(* Local memory is the stripe workspace: the staged input, the output      *)
(* stripe when it is spilled, and the padding seed at the end.             *)
(***************************************************************************)
EXTENDS StripeStaging

CONSTANTS
    Operations,   \* the convolutions
    SpillCells,   \* the 256 output pixels of a stripe
    MaxM          \* MaxExternalPsumLinebufferM

VARIABLES
    op,           \* the convolution
    phase,        \* "weights", "input", "store", "done" or "error"
    outputGroup, outputY, inputGroup,
    st,           \* the stripe workspace and tcdmContent
    weights,      \* per slot of the weight stage: output and input group
    psum,         \* per row of the partial sums, the contributions in it
    ofm           \* the output tensor, a unit per pixel and group

vars == <<op, phase, outputGroup, outputY, inputGroup, st, weights, psum, ofm>>

OfmH(o) == (o.h + o.top + o.bottom - o.k) \div o.stride + 1
OfmW(o) == (o.w + o.left + o.right - o.k) \div o.stride + 1

-----------------------------------------------------------------------------
(* Stripes and the workspace they are given                                *)

\* LinebufferSpillStripeRows
SpillStripeRows(o) == AtMost(OfmH(o), AtLeast(1, SpillCells \div OfmW(o)))

\* SelectLinebufferSpillStripeRows: the cheapest height, whichever that is.
StripeHeights(o) == IF o.inGroups <= 1 THEN {SpillStripeRows(o)} ELSE 1..SpillStripeRows(o)

StripeRows(o, y) == AtMost(o.rows, OfmH(o) - y)

\* MakeLinebufferSpillStaging for one input group.
Staging(o, y, group, seed) ==
    LET v == ValidArea(y, StripeRows(o, y), o.stride, o.top, o.k, o.h)
        u == ValidArea(0, OfmW(o), o.stride, o.left, o.k, o.w)
    IN  [y |-> v.start, h |-> v.size, padTop |-> v.before, padBottom |-> v.after,
         x |-> u.start, w |-> u.size, padLeft |-> u.before, padRight |-> u.after,
         storageH |-> o.h, storageW |-> o.w, channels |-> C32,
         direct |-> FALSE, compact |-> FALSE,
         sourceBase |-> group * o.h * o.w * C32, stagingBase |-> 0, seed |-> seed, pad |-> 0]

OutputBytes(o, y) == StripeRows(o, y) * OfmW(o) * C32

\* Where the output stripe begins when it is spilled.
LocalOutput(o, y) == Aligned(StagedBytes(Staging(o, y, 0, 0)))

\* WorkspaceReservation: the largest stripe, with the seed.
Workspace(o) ==
    Max({LocalOutput(o, y) + (IF o.spillOut THEN OutputBytes(o, y) ELSE 0) :
            y \in {n \in 0..(OfmH(o) - 1) : n % o.rows = 0}}) + Seed

SeedAt(o) == Workspace(o) - Seed

InputUnits(o)  == o.inGroups * o.h * o.w * C32
Source(o)      == [n \in 0..(InputUnits(o) - 1) |-> <<"input", n>>]

Resident(o) == IF o.stageGroups = o.inGroups THEN o.inGroups ELSE o.stageGroups - 1

Init ==
    /\ op \in {o \in Operations : o.rows \in StripeHeights(o)}
    /\ phase = "weights"
    /\ outputGroup = 0 /\ outputY = 0 /\ inputGroup = 0
    /\ st = [tcdm   |-> [a \in 0..(Workspace(op) - 1) |-> <<"free">>],
             claims |-> [a \in 0..(Workspace(op) - 1) |-> Unclaimed]]
    /\ weights = [slot \in 0..(op.stageGroups - 1) |-> <<>>]
    /\ psum = [m \in 0..(MaxM - 1) |-> <<>>]
    /\ ofm = [n \in 0..(op.outGroups * OfmH(op) * OfmW(op) - 1) |-> <<>>]

-----------------------------------------------------------------------------
(* The jobs of one input group                                             *)

\* mutated: the first input group adds to what the buffer held
AccumModeStale(o, group) == IF o.inGroups = 1 THEN 0 ELSE IF group + 1 = o.inGroups THEN 2 ELSE 3

AccumMode(o, group) ==
    IF o.inGroups = 1 THEN 0
    ELSE IF group = 0 THEN 1
    ELSE IF group + 1 = o.inGroups THEN 2 ELSE 3

PlannerInput(o, y, group) ==
    LET in == Staging(o, y, group, 0)
    IN  [ifmH |-> StagedH(in), ifmW |-> StagedW(in), ifmD |-> C32,
         ofmH |-> StripeRows(o, y), ofmW |-> OfmW(o),
         ifmBase |-> 0, ofmBase |-> IF o.spillOut THEN LocalOutput(o, y) ELSE 0, psumBase |-> 0,
         kernelH |-> o.k, kernelW |-> o.k, strideH |-> o.stride, strideW |-> o.stride,
         padTop |-> 0, padLeft |-> 0, ic |-> C32, group |-> 0, inputGroup |-> 0,
         outputGroup |-> 0, valid |-> C32, pixelStride |-> C32, maxM |-> MaxM,
         rolling |-> FALSE, depthwise |-> FALSE, accumMode |-> AccumMode(o, group)]

JobsOf(in) ==
    LET starts == SetToSortSeq(
            {<<oh, ow>> \in (0..(in.ofmH - 1)) \X (0..(in.ofmW - 1)) :
                oh % TileH(in) = 0 /\ ow % TileW(in) = 0},
            LAMBDA a, b : a[1] < b[1] \/ (a[1] = b[1] /\ a[2] < b[2]))
    IN  [k \in DOMAIN starts |-> JobAt(in, starts[k][1], starts[k][2])]

\* What the taps of row m of a job read, and what they should.
TapsRead(job, m, tcdm) ==
    [tap \in (0..(op.k - 1)) \X (0..(op.k - 1)) |->
        tcdm[job.inputBase + (m \div job.outputW) * job.ohStep + (m % job.outputW) * job.owStep
                 + tap[1] * job.rowStride + tap[2] * job.pixelStride]]

TapsOf(y, x, group) ==
    [tap \in (0..(op.k - 1)) \X (0..(op.k - 1)) |->
        LET iy == y * op.stride - op.top + tap[1]
            ix == x * op.stride - op.left + tap[2]
        IN  IF iy \in 0..(op.h - 1) /\ ix \in 0..(op.w - 1)
            THEN <<"input", (group * op.h * op.w + iy * op.w + ix) * C32>>
            ELSE Padding(0)]

\* The pixel of the stripe that row m of a job computes.
PixelOf(job, m, in) ==
    (job.ofmAddr - in.ofmBase) \div C32
        + (m \div job.ofmTileCols) * in.ofmW + (m % job.ofmTileCols)

\* What a row adds: exact when the weights and all of its taps are right.
Contribution(job, m, in, slot, tcdm, held) ==
    LET p == outputY * OfmW(op) + PixelOf(job, m, in)
    IN  [group |-> inputGroup, pixel |-> p,
         exact |-> /\ held[slot] = <<outputGroup, inputGroup>>
                   /\ TapsRead(job, m, tcdm)
                          = TapsOf(p \div OfmW(op), p % OfmW(op), inputGroup)]

\* One job: r holds the partial sums and the pixels finished so far.
RunJob(r, job, in, slot, tcdm, held) ==
    LET rows == 0..(job.rows - 1)
        Before(m) == IF job.accum \in {2, 3} THEN r.psum[m] ELSE <<>>
        sum == [m \in rows |-> Append(Before(m), Contribution(job, m, in, slot, tcdm, held))]
        row == [n \in {PixelOf(job, m, in) : m \in rows} |->
                   CHOOSE m \in rows : PixelOf(job, m, in) = n]
    IN  IF job.accum \in {1, 3}
        THEN [r EXCEPT !.psum = [m \in DOMAIN @ |-> IF m \in rows THEN sum[m] ELSE @[m]]]
        ELSE [r EXCEPT !.out = [n \in DOMAIN row |-> sum[row[n]]] @@ @]

-----------------------------------------------------------------------------
(* The steps of the loops                                                  *)

\* The weights that stay for all stripes of an output group.
LoadResident ==
    /\ phase = "weights"
    /\ weights' = [slot \in DOMAIN weights |->
                      IF slot < Resident(op) THEN <<outputGroup, slot>> ELSE weights[slot]]
    /\ phase' = "input" /\ outputY' = 0 /\ inputGroup' = 0
    /\ UNCHANGED <<op, outputGroup, st, psum, ofm>>

StripeEnd(o, y) ==
    IF o.spillOut THEN LocalOutput(o, y) + OutputBytes(o, y) ELSE StagedBytes(Staging(o, y, 0, 0))

\* Pixel n of the stripe, in the output tensor.
OfmUnit(n) == (outputGroup * OfmH(op) + outputY) * OfmW(op) + n
InStripe(n) == n - OfmUnit(0) \in 0..(StripeRows(op, outputY) * OfmW(op) - 1)

\* One input group: its weights, its stage and its jobs.
Accumulated ==
    /\ LET in   == Staging(op, outputY, inputGroup, SeedAt(op))
           fill == in.padTop # 0 \/ in.padLeft # 0 \/ in.padBottom # 0 \/ in.padRight # 0
           slot == AtMost(inputGroup, Resident(op))
           held == [weights EXCEPT ![slot] = IF inputGroup < Resident(op) THEN @
                                             ELSE <<outputGroup, inputGroup>>]
           staged == Staged(st, in, PlanStripeStaging(in), Source(op), op.spillIn, fill, NoHalo)
           jobs == PlannerInput(op, outputY, inputGroup)
           r == FoldLeft(LAMBDA a, job : RunJob(a, job, jobs, slot, staged.tcdm, held),
                         [psum |-> psum, out |-> <<>>], JobsOf(jobs))
           \* the output stripe in local memory
           written == [a \in DOMAIN staged.tcdm |->
                          LET n == (a - LocalOutput(op, outputY)) \div C32
                          IN  IF a >= LocalOutput(op, outputY) /\ n \in DOMAIN r.out
                              THEN <<"output", r.out[n]>> ELSE staged.tcdm[a]]
       IN  /\ weights' = held
           /\ psum' = r.psum
           /\ st' = IF op.spillOut THEN [staged EXCEPT !.tcdm = written] ELSE staged
           /\ ofm' = IF op.spillOut THEN ofm
                     ELSE [n \in DOMAIN ofm |->
                              IF n - OfmUnit(0) \in DOMAIN r.out THEN r.out[n - OfmUnit(0)]
                              ELSE ofm[n]]
    /\ IF inputGroup + 1 < op.inGroups
       THEN inputGroup' = inputGroup + 1 /\ phase' = "input"
       ELSE inputGroup' = 0 /\ phase' = "store"

\* A stripe beyond the workspace is an error.
Accumulate ==
    /\ phase = "input"
    /\ IF StripeEnd(op, outputY) <= Workspace(op) THEN Accumulated
       ELSE phase' = "error" /\ UNCHANGED <<inputGroup, st, weights, psum, ofm>>
    /\ UNCHANGED <<op, outputGroup, outputY>>

HasNextStripe == outputY + op.rows < OfmH(op)

\* A spilled stripe is moved to the output tensor; then the next one begins.
Store ==
    /\ phase = "store"
    /\ ofm' = IF ~op.spillOut THEN ofm
              ELSE [n \in DOMAIN ofm |->
                       LET a == LocalOutput(op, outputY) + (n - OfmUnit(0)) * C32
                       IN  IF InStripe(n) THEN st.tcdm[a][2] ELSE ofm[n]]
    /\ IF HasNextStripe
       THEN outputY' = outputY + op.rows /\ phase' = "input" /\ UNCHANGED outputGroup
       ELSE IF outputGroup + 1 < op.outGroups
       THEN outputY' = 0 /\ phase' = "weights" /\ outputGroup' = outputGroup + 1
       ELSE phase' = "done" /\ UNCHANGED <<outputY, outputGroup>>
    /\ UNCHANGED <<op, inputGroup, st, weights, psum>>

Next == LoadResident \/ Accumulate \/ Store

Spec == Init /\ [][Next]_vars

-----------------------------------------------------------------------------
(* Properties                                                              *)

TypeOK ==
    /\ op \in Operations
    /\ phase \in {"weights", "input", "store", "done", "error"}
    /\ outputGroup \in 0..(op.outGroups - 1)
    /\ outputY \in 0..(OfmH(op) - 1)
    /\ inputGroup \in 0..(op.inGroups - 1)
    /\ DOMAIN st.tcdm = 0..(Workspace(op) - 1) /\ DOMAIN st.claims = DOMAIN st.tcdm
    /\ \A slot \in DOMAIN weights : weights[slot] = <<>> \/ weights[slot][2] < op.inGroups

\* The workspace reserved before the commands are generated holds every
\* stripe: the error AppendSpilledLinebuffer reports for a stripe beyond it
\* never occurs (WorkspaceReservation against the loop over outputY).
WorkspaceSuffices == phase # "error"

\* The output tensor is the convolution: every pixel of every output group
\* has the contribution of each input group once, in order, computed with the
\* weights of that group from the taps of that pixel (the accumulation modes,
\* the staged rows that are taken from earlier stripes, the weight slots).
OutputIsExact ==
    /\ WorkspaceSuffices
    /\ phase = "done" =>
          \A n \in DOMAIN ofm :
              ofm[n] = [i \in 1..op.inGroups |->
                           [group |-> i - 1, pixel |-> n % (OfmH(op) * OfmW(op)), exact |-> TRUE]]

\* What tcdmContent says a byte range holds is what the commands put there:
\* a stage that skips a fill or a transfer for it reads the right bytes
\* (CommandMemoryState as AppendStripeStaging uses it).
ClaimsHold == ClaimsAreTrue(st, Source(op))

=============================================================================
