--------------------------- MODULE LinebufferPlan ---------------------------
(***************************************************************************)
(* LinebufferPlanner::Plan: the loop over the output tiles of one          *)
(* convolution, and the check of the plan against the memory budget.       *)
(***************************************************************************)
EXTENDS LinebufferJobs

CONSTANT Inputs     \* the planner inputs

VARIABLES
    input,      \* the convolution
    oh, ow,     \* the loop's position
    jobs,       \* the jobs so far
    status      \* "planning", then "planned" or "rejected"

vars == <<input, oh, ow, jobs, status>>

Init ==
    /\ input \in {in \in Inputs : IsValid(in)}
    /\ oh = 0 /\ ow = 0
    /\ jobs = <<>>
    /\ status = "planning"

AddJob ==
    /\ status = "planning" /\ oh < input.ofmH
    /\ jobs' = Append(jobs, JobAt(input, oh, ow))
    /\ IF ow + TileW(input) < input.ofmW
       THEN ow' = ow + TileW(input) /\ UNCHANGED oh
       ELSE ow' = 0 /\ oh' = oh + TileH(input)
    /\ UNCHANGED <<input, status>>

Finish ==
    /\ status = "planning" /\ oh >= input.ofmH
    /\ status' = IF FitsBudget(input, jobs) THEN "planned" ELSE "rejected"
    /\ UNCHANGED <<input, oh, ow, jobs>>

Next == AddJob \/ Finish

Spec == Init /\ [][Next]_vars

-----------------------------------------------------------------------------
(* Properties *)

TypeOK ==
    /\ input \in Inputs
    /\ oh \in Nat /\ ow \in 0..(input.ofmW - 1)
    /\ status \in {"planning", "planned", "rejected"}
    /\ \A k \in DOMAIN jobs : jobs[k].rows \in 1..input.maxM

\* The address an output pixel belongs at, and the one its row of a job gets.
PixelAddress(oy, ox) ==
    input.ofmBase + ((input.outputGroup * input.ofmH + oy) * input.ofmW + ox) * C32

RowAddress(job, m) ==
    job.ofmAddr + (m \div job.ofmTileCols) * job.ofmRowStride + (m % job.ofmTileCols) * C32

\* When planning ends, the rows of all jobs are exactly the output pixels, and
\* no two write the same one (the loops over tileH and tileW).
JobsCoverOutput ==
    status # "planning" =>
        LET written == {<<k, m>> \in (DOMAIN jobs) \X (0..(input.maxM - 1)) : m < jobs[k].rows}
        IN  /\ {RowAddress(jobs[w[1]], w[2]) : w \in written}
                   = {PixelAddress(p[1], p[2]) : p \in (0..(input.ofmH - 1)) \X (0..(input.ofmW - 1))}
            /\ \A v, w \in written :
                  v # w => RowAddress(jobs[v[1]], v[2]) # RowAddress(jobs[w[1]], w[2])

\* The pixel a row of a job computes.
PixelOf(job, m) ==
    LET pixel == (RowAddress(job, m) - PixelAddress(0, 0)) \div C32
    IN  <<pixel \div input.ofmW, pixel % input.ofmW>>

\* Every kernel tap of every row reads the input pixel the convolution defines,
\* and reads padding exactly where the tap lies outside the input: the window's
\* base, extent and padding agree after clamping (MakeJob).
TapsAreExact ==
    \A k \in DOMAIN jobs : LET job == jobs[k] IN
        \A m \in 0..(job.rows - 1), ky \in 0..(input.kernelH - 1), kx \in 0..(input.kernelW - 1) :
            LET p == PixelOf(job, m)
                y == p[1] * input.strideH - input.padTop + ky
                x == p[2] * input.strideW - input.padLeft + kx
                localY == (m \div job.outputW) * input.strideH + ky - job.padH
                localX == (m % job.outputW) * input.strideW + kx - job.padW
                inside == y \in 0..(input.ifmH - 1) /\ x \in 0..(input.ifmW - 1)
            IN  /\ inside <=> localY \in 0..(job.inputH - 1) /\ localX \in 0..(job.inputW - 1)
                /\ inside =>
                      job.inputBase + (m \div job.outputW) * job.ohStep
                          + (m % job.outputW) * job.owStep
                          + (ky - job.padH) * job.rowStride + (kx - job.padW) * job.pixelStride
                      = input.ifmBase + InputGroupOffset(input)
                            + y * RowStride(input) + x * PixelStride(input)

\* The partial sums of a job are apart and lie inside the bytes reserved for
\* them; a job without reserved bytes fits the internal rows when it needs any
\* (LinebufferExternalPsumBytes).
PsumFits ==
    \A k \in DOMAIN jobs : LET job == jobs[k]
                               Addr(m) == (m \div job.ofmTileCols) * job.psumRowStride
                                              + (m % job.ofmTileCols) * PsumRowBytes
                           IN
        IF PsumBytes(job) = 0 THEN job.spills => job.rows <= InternalRows
        ELSE \A m \in 0..(job.rows - 1) :
                /\ Addr(m) + PsumRowBytes <= PsumBytes(job)
                /\ \A n \in 0..(m - 1) : Addr(n) + PsumRowBytes <= Addr(m)

\* With rolling buffers an accepted plan runs every job in the budget: the
\* input rows of its window, its output rows and its partial sums together.
RollingPlanFits ==
    status = "planned" /\ input.rolling /\ input.budget > 0 =>
        \A k \in DOMAIN jobs :
            input.live + jobs[k].inputH * RowStride(input)
                + (jobs[k].rows \div jobs[k].outputW) * input.ofmW * C32
                + WeightBytes(input) + PsumBytes(jobs[k]) <= input.budget

=============================================================================
