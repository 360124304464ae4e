---------------------------- MODULE MCLocalMemory ---------------------------
(***************************************************************************)
(* Three parts of the generator that decide what local memory holds, side  *)
(* by side: the spans of CommandMemoryState, the jobs of the planner, and  *)
(* a spilled convolution, which uses both.  A behaviour runs one of them.  *)
(***************************************************************************)
EXTENDS SpilledLinebuffer, MemoryState

-----------------------------------------------------------------------------
(* The planner, on small convolutions: every kernel, stride and padding the *)
(* operator constraints admit in one dimension, tiled by a few job limits.  *)

\* kernel, stride, padding in front and behind, input size
Dimensions == {<<k, s, front, back, n>> \in {1, 3} \X {1, 2} \X {0, 1} \X {0, 1} \X (2..4) :
                  (k = 1 => front = 0 /\ back = 0) /\ n + front + back >= k}

OutOf(d) == (d[5] + d[3] + d[4] - d[1]) \div d[2] + 1

\* Group 0 or 1 of a C32 tensor, or compact pixels of one channel byte.
Layouts == {[group |-> 0, pixelStride |-> 2, ic |-> 2, valid |-> 2, ifmD |-> 2],
            [group |-> 1, pixelStride |-> 2, ic |-> 2, valid |-> 1, ifmD |-> 4],
            [group |-> 0, pixelStride |-> 0, ic |-> 1, valid |-> 1, ifmD |-> 1]}

PlanInputs ==
    {[ifmH |-> y[5], ifmW |-> x[5], ifmD |-> l.ifmD, ofmH |-> OutOf(y), ofmW |-> OutOf(x),
      ifmBase |-> 0, ofmBase |-> 0, psumBase |-> 0,
      kernelH |-> y[1], kernelW |-> x[1], strideH |-> y[2], strideW |-> x[2],
      padTop |-> y[3], padLeft |-> x[3], ic |-> l.ic, group |-> l.group,
      inputGroup |-> l.group, outputGroup |-> l.group, valid |-> l.valid,
      pixelStride |-> l.pixelStride, maxM |-> m, budget |-> b, live |-> 0,
      rolling |-> b # 0, depthwise |-> FALSE, accumMode |-> IF m = 4 THEN 3 ELSE 0] :
        y \in {d \in Dimensions : d[5] = 4 /\ d[2] = 1},
        x \in {d \in Dimensions : d[5] \in {3, 4}},
        l \in Layouts, m \in {2, 4, 7}, b \in {0, 60}}

-----------------------------------------------------------------------------
(* The spilled convolution: 3x3, one to three input groups.                 *)

Op(h, w, stride, pad, inGroups, outGroups, in, out, rows, stage) ==
    [h |-> h, w |-> w, k |-> 3, stride |-> stride,
     top |-> pad, left |-> pad, bottom |-> pad, right |-> pad,
     inGroups |-> inGroups, outGroups |-> outGroups, spillIn |-> in, spillOut |-> out,
     rows |-> rows, stageGroups |-> stage]

All ==
    {Op(h, w, stride, pad, i, o, in, out, rows, stage) :
        h \in {4, 5}, w \in {3, 4}, stride \in {1, 2}, pad \in {0, 1}, i \in 1..3, o \in 1..2,
        in \in BOOLEAN, out \in BOOLEAN, rows \in 1..4, stage \in 1..3}

Ragged(o) == OfmH(o) % o.rows # 0
Wide(o)   == OfmW(o) > MaxM

\* Without a shorter last stripe of an output in L2, whose bytes keep the claims
\* of the rows before it, and without the rows MCWideRows has.
MCOperations ==
    {o \in All : /\ o.stageGroups <= o.inGroups
                 /\ ~(Ragged(o) /\ o.spillOut)
                 /\ ~(Wide(o) /\ o.inGroups > 1)
                 /\ o.h = 5 \/ o.inGroups # 2}

\* Output rows of 14 pixels, and 12 rows of partial sums.
WideOperations == {Op(3, 14, 1, 1, 2, 1, TRUE, TRUE, 1, 2)}

-----------------------------------------------------------------------------

VARIABLES
    part,                           \* what this behaviour runs
    input, oh, ow, jobs, status     \* of LinebufferPlan

planVars  == <<input, oh, ow, jobs, status>>
localVars == <<part, vars, planVars, memoryVars>>

\* Three output columns per job, and two rows of partial sums inside the array.
Plan == INSTANCE LinebufferPlan WITH
            C32 <- 2, MaxTileWidth <- 3, InternalRows <- 2, Inputs <- PlanInputs

NoPlan   == input = <<>> /\ oh = 0 /\ ow = 0 /\ jobs = <<>> /\ status = "none"
NoMemory == spans = <<>> /\ words = <<>>
NoConvolution ==
    /\ op = CHOOSE o \in Operations : TRUE
    /\ phase = "none" /\ outputGroup = 0 /\ outputY = 0 /\ inputGroup = 0
    /\ st = [tcdm |-> <<>>, claims |-> <<>>] /\ weights = <<>> /\ psum = <<>> /\ ofm = <<>>

LocalInit ==
    \/ part = "convolution" /\ Init /\ NoPlan /\ NoMemory
    \/ part = "plan" /\ Plan!Init /\ NoConvolution /\ NoMemory
    \/ part = "memory" /\ MemoryInit /\ NoConvolution /\ NoPlan

Convolve == part = "convolution" /\ Next /\ UNCHANGED <<part, planVars, memoryVars>>
PlanJobs == part = "plan" /\ Plan!Next /\ UNCHANGED <<part, vars, memoryVars>>
Remember == part = "memory" /\ MemoryNext /\ UNCHANGED <<part, vars, planVars>>

LocalSpec == LocalInit /\ [][Convolve \/ PlanJobs \/ Remember]_localVars

-----------------------------------------------------------------------------
(* Properties *)

\* The jobs of a plan write every output pixel once, and nothing else; every tap
\* of a job reads the input pixel, or the padding, that the convolution defines,
\* and a job stays within its partial sums and the budget (Plan, MakeJob).
JobsAreExact ==
    part = "plan" =>
        /\ Plan!JobsCoverOutput /\ Plan!TapsAreExact
        /\ Plan!PsumFits /\ Plan!RollingPlanFits

=============================================================================
