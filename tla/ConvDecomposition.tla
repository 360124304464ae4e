-------------------------- MODULE ConvDecomposition --------------------------
(***************************************************************************)
(* DecomposeConv2D (scheduler_decompose.cpp): a convolution that the       *)
(* Ethos-U85 cannot run is replaced by several, which read and write every *)
(* n-th row, a block of rows, or one tap of the kernel at a time, and pass *)
(* their sums on in the accumulators.  The rows each of them reads follow  *)
(* from its output only when its commands are generated                    *)
(* (CalculateIfmStripeAndPadding).  One axis is modelled: the code treats  *)
(* height and width alike and apart.                                       *)
(***************************************************************************)
EXTENDS Integers, Sequences, FiniteSets, FiniteSetsExt, SequencesExt

(***************************************************************************)
(* A convolution has rows of input, taps, a stride, a dilation, padding at *)
(* the top and the bottom, and the height of the block its accumulators    *)
(* hold (OptimalStripeGranule).                                            *)
(***************************************************************************)
CONSTANTS Convolutions, MaxAxis, MaxStride, MaxDilation

VARIABLES
    conv,       \* the convolution
    pending,    \* operations that are still to be decomposed, in order
    code,       \* operations that run on the NPU or CPU, in order
    ran,        \* how many of them have run
    acc,        \* the products in the accumulators, by output row of an operation
    outputs     \* per row of the output the sums written there

vars == <<conv, pending, code, ran, acc, outputs>>

DivRoundUp(a, b) == IF a > 0 THEN (a + b - 1) \div b ELSE 0
Gcd(a, b) == Max({d \in 1..b : a % d = 0 /\ b % d = 0})
NonNegative(n) == Max({0, n})
Lesser(a, b) == Min({a, b})

OutputRows(c) == (c.rows + c.top + c.bottom - (c.taps - 1) * c.dilation - 1) \div c.stride + 1

Operation(c) ==
    [ofm |-> 0, ofmShape |-> OutputRows(c), ofmStep |-> 1,
     ifm |-> -c.top, ifmShape |-> c.rows, ifmStep |-> 1,
     taps |-> c.taps, tap |-> 0, stride |-> c.stride, dilation |-> c.dilation,
     top |-> c.top, bottom |-> c.bottom, source |-> "Reset", output |-> TRUE]

Init ==
    /\ conv \in Convolutions
    /\ pending = <<Operation(conv)>>
    /\ code = <<>>
    /\ ran = 0
    /\ acc = <<>>
    /\ outputs = [row \in 0..OutputRows(conv) - 1 |-> {}]

-----------------------------------------------------------------------------
(* When an operation is decomposed                                         *)

HasLargeAxis(op) == op.ifmShape > MaxAxis \/ op.ofmShape > MaxAxis
HasLargeStride(op) == op.stride > MaxStride
NeedsDecompose(op) == HasLargeAxis(op) \/ HasLargeStride(op) \/ op.dilation > MaxDilation
IsDilated(op) == NeedsDecompose(op) /\ op.dilation > 1
IsBlocked(op) == NeedsDecompose(op) /\ ~IsDilated(op) /\ op.ofmShape > conv.block
IsStrided(op) == NeedsDecompose(op) /\ ~IsDilated(op) /\ ~IsBlocked(op) /\ HasLargeStride(op)

-----------------------------------------------------------------------------
(* HandleDilation: every d-th output row is a convolution of every d-th    *)
(* input row.                                                              *)

Dilated(op, n) ==
    LET common == Gcd(op.dilation, op.stride)
        stride == op.stride \div common
        ifm    == op.ifm + n * common * stride
    IN  [op EXCEPT !.ifm = ifm, !.ifmShape = Lesser(op.ifmShape, op.ifmShape - ifm),
                   !.ifmStep = @ * op.dilation,
                   !.ofm = @ + n, !.ofmShape = @ - n, !.ofmStep = @ * (op.dilation \div common),
                   !.stride = stride, !.dilation = 1]

HandleDilation(op) ==
    LET phases == op.dilation \div Gcd(op.dilation, op.stride)
    IN  SelectSeq([n \in 1..phases |-> Dilated(op, n - 1)],
                  LAMBDA sub : sub.ofmShape > 0 /\ sub.ifmShape > 0)

-----------------------------------------------------------------------------
(* DecomposeBlocks: as many output rows as the accumulators hold.          *)

NewPaddingForBlock(op, ifm) ==
    [top |-> NonNegative(op.top - NonNegative(ifm + op.top)),
     bottom |-> Lesser(op.bottom,
                       NonNegative(conv.block * op.stride + ifm + op.taps - 1 - conv.rows))]

BlockStep(op) == DivRoundUp(conv.block, op.ofmStep) * op.ofmStep

Block(op, n) ==
    LET step    == BlockStep(op)
        ifm     == Lesser(op.ifm + n * ((step * op.ifmStep) \div op.ofmStep) * op.stride, conv.rows)
        rows    == Lesser(op.ofmShape - n * step, conv.block)
        padding == NewPaddingForBlock(op, ifm)
        input   == IF step >= op.ofmShape THEN op.ifmShape
                   ELSE (rows - 1) * op.stride * op.ifmStep + op.taps - padding.top - padding.bottom
    IN  [op EXCEPT !.ifm = ifm, !.ifmShape = Lesser(input, conv.rows - ifm),
                   !.ofm = @ + n * step, !.ofmShape = rows,
                   !.top = padding.top, !.bottom = padding.bottom]

DecomposeBlocks(op) ==
    [n \in 1..DivRoundUp(op.ofmShape, BlockStep(op)) |-> Block(op, n - 1)]

-----------------------------------------------------------------------------
(* DecomposeForStrides: one tap at a time, summed in the accumulators.     *)

Tap(op, k) ==
    LET ifm    == op.ifm + k * op.ifmStep
        extend == Lesser(op.ifmStep * k, NonNegative(-op.ifm))
        shape  == Lesser(NonNegative(Lesser(conv.rows - ifm, op.ifmShape + extend)), op.ifmShape)
    IN  [op EXCEPT !.ifm = ifm, !.ifmShape = shape, !.ifmStep = @ * op.stride,
                   !.taps = 1, !.tap = k, !.stride = 1, !.source = "Acc", !.output = FALSE]

\* A tap that meets nothing but padding is left out.
ReadsInput(sub) ==
    LET steps == DivRoundUp(-sub.ifm, sub.ifmStep)
    IN  /\ sub.ifmShape > 0
        /\ sub.ifm < 0 => steps < sub.ofmShape /\ sub.ifm + steps * sub.ifmStep < sub.ifmShape

\* mutated: the first tap takes the accumulators over, also when it is left out
ChainedFromFirst(op, subs) ==
    [i \in DOMAIN subs |-> [subs[i] EXCEPT !.source = IF subs[i].tap = 0 THEN op.source ELSE @,
                                           !.output = i = Len(subs)]]

Chained(op, subs) ==
    [i \in DOMAIN subs |-> [subs[i] EXCEPT !.source = IF i = 1 THEN op.source ELSE @,
                                           !.output = i = Len(subs)]]

DecomposeForStrides(op) ==
    LET reading == SelectSeq([k \in 1..op.taps |-> Tap(op, k - 1)], ReadsInput)
    IN  Chained(op, IF reading = <<>> THEN <<Tap(op, op.taps - 1)>> ELSE reading)

-----------------------------------------------------------------------------
(* DecomposeConv2D, on the first operation that is left                    *)

UpdatePaddingAndIfmOffset(op) ==
    [op EXCEPT !.top = NonNegative(-op.ifm), !.ifm = NonNegative(op.ifm)]

Replace(subs) ==
    /\ pending' = subs \o Tail(pending)
    /\ UNCHANGED <<conv, code, ran, acc, outputs>>

SplitDilation == pending # <<>> /\ IsDilated(pending[1]) /\ Replace(HandleDilation(pending[1]))
SplitBlocks   == pending # <<>> /\ IsBlocked(pending[1]) /\ Replace(DecomposeBlocks(pending[1]))
SplitStrides  == pending # <<>> /\ IsStrided(pending[1]) /\ Replace(DecomposeForStrides(pending[1]))

\* An operation that needs nothing, or that nothing helps.
Accept ==
    LET op == pending[1]
    IN  /\ pending # <<>>
        /\ ~IsDilated(op) /\ ~IsBlocked(op) /\ ~IsStrided(op)
        /\ pending' = Tail(pending)
        /\ code' = Append(code, UpdatePaddingAndIfmOffset(op))
        /\ UNCHANGED <<conv, ran, acc, outputs>>

-----------------------------------------------------------------------------
(* The command of an operation, and the NPU that runs it                   *)

Written(op) == DivRoundUp(op.ofmShape, op.ofmStep)
Needed(op) == (Written(op) - 1) * op.stride + (op.taps - 1) * op.dilation + 1

CalculateIfmStripeAndPadding(op) ==
    LET top   == DivRoundUp(op.top, op.ifmStep)
        start == top * op.ifmStep - op.top
    IN  [start |-> start, top |-> top,
         bottom |-> NonNegative(Needed(op) - (DivRoundUp(op.ifmShape - start, op.ifmStep) + top))]

\* The products output row n of an operation adds: kernel rows in the padding
\* add nothing.
Products(op, n) ==
    LET stripe == CalculateIfmStripeAndPadding(op)
        at(t)  == n * op.stride + t * op.dilation
    IN  {[by |-> ran, tap |-> op.tap + t,
          row |-> op.ifm + stripe.start + (at(t) - stripe.top) * op.ifmStep] :
            t \in {u \in 0..op.taps - 1 : at(u) \in stripe.top..Needed(op) - stripe.bottom - 1}}

\* What another operation left in the accumulators.
Stale == [by |-> -1, tap |-> -1, row |-> -1]

Accumulated(n) == IF n + 1 \in DOMAIN acc THEN acc[n + 1] ELSE {Stale}
Sum(op, n) == Products(op, n) \cup IF op.source = "Acc" THEN Accumulated(n) ELSE {}

Run ==
    LET op == code[ran + 1]
    IN  /\ pending = <<>> /\ ran < Len(code)
        /\ ran' = ran + 1
        /\ acc' = [n \in 1..Written(op) |-> Sum(op, n - 1)]
        /\ outputs' = IF ~op.output THEN outputs
                      ELSE [row \in DOMAIN outputs |->
                              outputs[row] \cup {[by |-> ran, sum |-> Sum(op, n)] :
                                  n \in {m \in 0..Written(op) - 1 : op.ofm + m * op.ofmStep = row}}]
        /\ UNCHANGED <<conv, pending, code>>

Next == SplitDilation \/ SplitBlocks \/ SplitStrides \/ Accept \/ Run

Spec == Init /\ [][Next]_vars

-----------------------------------------------------------------------------
(* Properties                                                              *)

TypeOK ==
    /\ ran \in 0..Len(code)
    /\ \A op \in ToSet(pending) \cup ToSet(code) :
        op.source \in {"Reset", "Acc"} /\ op.ofmShape > 0 /\ op.taps \in 1..conv.taps

\* What the convolution asks for at one output row.
Expected(row) ==
    {<<t, row * conv.stride + t * conv.dilation - conv.top>> :
        t \in {u \in 0..conv.taps - 1 :
                  row * conv.stride + u * conv.dilation - conv.top \in 0..conv.rows - 1}}

\* The operations together compute the convolution they replace: each output
\* row is written once, with the product of each tap and the input row under
\* it exactly once (HandleDilation, DecomposeBlocks, DecomposeForStrides and
\* the padding computed for each of them).
ComputesConvolution ==
    pending = <<>> /\ ran = Len(code) =>
        \A row \in DOMAIN outputs :
            \E w \in outputs[row] :
                /\ outputs[row] = {w}
                /\ {<<p.tap, p.row>> : p \in w.sum} = Expected(row)
                /\ Cardinality(w.sum) = Cardinality(Expected(row))

=============================================================================
