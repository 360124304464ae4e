--------------------------- MODULE LinebufferJobs ---------------------------
(***************************************************************************)
(* The jobs the linebuffer planner cuts a convolution into                 *)
(* (neural_ai_linebuffer_planner.cpp): the output tile of each, the clamped *)
(* input window it reads, and the buffers it needs.  The width checks of   *)
(* the ABI fields are left out: the sizes stay far below them.             *)
(***************************************************************************)
EXTENDS Integers, Sequences, FiniteSetsExt

CONSTANTS
    C32,            \* C32, the bytes of a pixel in one channel group
    MaxTileWidth,   \* the 640 output columns of one job
    InternalRows    \* the 256 rows of the internal partial sums

ASSUME LinebufferJobsAssumption ==
    /\ C32 \in Nat \ {0} /\ MaxTileWidth \in Nat \ {0} /\ InternalRows \in Nat

PsumRowBytes == 4 * C32

AtMost(n, bound)    == IF n < bound THEN n ELSE bound
AtLeast(n, bound)   == IF n > bound THEN n ELSE bound
Clamp(n, low, high) == AtLeast(low, AtMost(n, high))
CeilDiv(n, d)       == (n + d - 1) \div d

\* mutated: the last output of the tile gets one tap only
WindowShort(base, tile, stride, pad, kernel, size) ==
    LET requested == base * stride - pad
        first == Clamp(requested, 0, size - 1)
        last  == Clamp((base + tile - 1) * stride - pad, 0, size - 1)
    IN  [first |-> first, size |-> AtLeast(0, last - first + 1),
         pad |-> AtLeast(0, first - requested)]

\* One dimension of the window: the taps asked for, clamped to the input;
\* what was cut off in front becomes padding.
Window(base, tile, stride, pad, kernel, size) ==
    LET requested == base * stride - pad
        first == Clamp(requested, 0, size - 1)
        last  == Clamp((base + tile - 1) * stride - pad + kernel - 1, 0, size - 1)
    IN  [first |-> first, size |-> AtLeast(0, last - first + 1),
         pad |-> AtLeast(0, first - requested)]

PixelStride(in) == IF in.pixelStride > 0 THEN in.pixelStride ELSE in.ic
RowStride(in)   == in.ifmW * PixelStride(in)
InputGroup(in)  == IF in.inputGroup # 0 THEN in.inputGroup ELSE in.group
GroupPlane(in)  == in.ifmH * in.ifmW * C32

\* Groups are whole planes in C32 storage, bytes of a pixel otherwise.
InputGroupOffset(in) ==
    IF PixelStride(in) = C32 THEN InputGroup(in) * GroupPlane(in) ELSE InputGroup(in) * C32

KTiles(in)    == CeilDiv(in.kernelH * in.kernelW * in.ic, C32)
Coalesces(in) == in.kernelH * in.kernelW > 1
Kgen(in)      == Coalesces(in) /\ KTiles(in) > 1

C32Fast(in) ==
    PixelStride(in) = C32 /\ in.ic % C32 = 0 /\ in.valid = C32 /\ in.ifmBase % C32 = 0

GroupStationary(in) == C32Fast(in) /\ Kgen(in) /\ in.ifmD >= C32
GenericLinear(in)   == ~C32Fast(in) /\ Kgen(in) /\ PixelStride(in) = C32 /\ in.ic = C32

MakeJob(in, oh, ow, tileH, tileW) ==
    LET y == Window(oh, tileH, in.strideH, in.padTop, in.kernelH, in.ifmH)
        x == Window(ow, tileW, in.strideW, in.padLeft, in.kernelW, in.ifmW)
    IN  [inputBase |-> in.ifmBase + InputGroupOffset(in)
                           + y.first * RowStride(in) + x.first * PixelStride(in),
         inputH |-> y.size, inputW |-> x.size, padH |-> y.pad, padW |-> x.pad,
         outputW |-> tileW,
         rowStride |-> RowStride(in), pixelStride |-> PixelStride(in),
         owStep |-> in.strideW * PixelStride(in), ohStep |-> in.strideH * RowStride(in),
         spills |-> Kgen(in) /\ (GroupStationary(in) \/ GenericLinear(in)),
         channelOffset |-> IF GroupStationary(in) THEN GroupPlane(in) ELSE InputGroupOffset(in),
         ofmAddr |-> in.ofmBase + in.outputGroup * in.ofmH * in.ofmW * C32
                         + (oh * in.ofmW + ow) * C32,
         psumAddr |-> in.psumBase,
         rows |-> tileH * tileW,
         accum |-> IF in.accumMode # 0 THEN in.accumMode ELSE IF InputGroup(in) > 0 THEN 1 ELSE 0,
         ofmRowStride |-> in.ofmW * C32, ofmTileCols |-> tileW,
         psumRowStride |-> tileW * PsumRowBytes]

\* LinebufferExternalPsumBytes
PsumBytes(job) ==
    IF job.accum = 0 /\ ~(job.spills /\ job.rows > InternalRows) THEN 0
    ELSE ((job.rows - 1) \div job.ofmTileCols) * job.psumRowStride
             + (((job.rows - 1) % job.ofmTileCols) + 1) * PsumRowBytes

-----------------------------------------------------------------------------
(* Plan                                                                    *)

IsValid(in) ==
    /\ in.kernelH \in 1..5 /\ in.kernelW \in 1..5 /\ in.strideH \in 1..2 /\ in.strideW \in 1..2
    /\ in.ic > 0 /\ in.maxM > 0 /\ in.valid \in 1..C32 /\ in.accumMode \in 0..3
    /\ in.ifmH > 0 /\ in.ifmW > 0 /\ in.ofmH > 0 /\ in.ofmW > 0

WidestTile(in) == AtMost(in.ofmW, MaxTileWidth)
TileH0(in) == AtMost(in.ofmH, AtLeast(1, in.maxM \div WidestTile(in)))
TileW(in)  == AtMost(WidestTile(in), AtLeast(1, in.maxM \div TileH0(in)))

TileH(in) ==
    IF TileH0(in) * TileW(in) > in.maxM THEN AtLeast(1, in.maxM \div TileW(in)) ELSE TileH0(in)

JobAt(in, oh, ow) ==
    MakeJob(in, oh, ow, AtMost(TileH(in), in.ofmH - oh), AtMost(TileW(in), in.ofmW - ow))

WeightBytes(in) == in.kernelH * in.kernelW * (IF in.depthwise THEN C32 ELSE C32 * C32)

RollingFootprint(in, job) ==
    [ifm |-> job.inputH * RowStride(in),
     ofm |-> CeilDiv(job.rows, job.outputW) * in.ofmW * C32,
     weights |-> WeightBytes(in),
     psum |-> PsumBytes(job)]

TotalBytes(in, f) == in.live + f.ifm + f.ofm + f.weights + f.psum

MaxOf(S) == Max(S \cup {0})

\* What the plan is taken to need while its jobs run.
Required(in, jobs) ==
    IF in.rolling THEN MaxOf({TotalBytes(in, RollingFootprint(in, jobs[k])) : k \in DOMAIN jobs})
    ELSE in.live + in.ifmH * in.ifmW * AtLeast(in.ic, C32) + TileH(in) * TileW(in) * C32
             + WeightBytes(in) + MaxOf({PsumBytes(jobs[k]) : k \in DOMAIN jobs})

FitsBudget(in, jobs) == in.budget = 0 \/ Required(in, jobs) <= in.budget

=============================================================================
