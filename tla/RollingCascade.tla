--------------------------- MODULE RollingCascade ---------------------------
(***************************************************************************)
(* The stripes of a cascade (GenerateCommandsForCascade in                 *)
(* high_level_command_stream_generator.cpp): every operation is cut into   *)
(* stripes of rows, and the stripes of all operations are interleaved so   *)
(* that the tensors between them fit in rolling buffers.  The stripe       *)
(* heights are those the scheduler proposes (scheduler.cpp), the buffers   *)
(* those of ArchNeuralAI::RollingBufferShape.                              *)
(*                                                                         *)
(* Rows stand for the data: slot y % height of a rolling buffer holds row  *)
(* y.  A linebuffer convolution writes a stripe in one piece, the other    *)
(* operations split it where a buffer wraps.                               *)
(***************************************************************************)
EXTENDS Integers, Sequences, FiniteSetsExt

CONSTANT Cascades    \* sequences of operations, with the height of the first input

\* A cascade as GenerateCommandsForCascade is given one: at least one
\* operation, each over some rows, with a stride and a kernel of at least one.
IsCascade(c) ==
    /\ Len(c.ops) \in Nat \ {0}
    /\ DOMAIN c.ops = 1..Len(c.ops)
    /\ c.height \in Nat \ {0}
    /\ \A i \in 1..Len(c.ops) :
          /\ {c.ops[i].ofmH, c.ops[i].stride, c.ops[i].kernel} \subseteq Nat \ {0}
          /\ c.ops[i].top \in Nat
          /\ {c.ops[i].linebuffer, c.ops[i].concatRow} \subseteq BOOLEAN

ASSUME CascadesAssumption == \A c \in Cascades : IsCascade(c)

VARIABLES
    cascade,
    stripe,      \* the stripe height of each operation
    opIndex,     \* the operation whose stripe is next
    next,        \* the next stripe of each operation
    rolling,     \* the rows in the buffer after each operation but the last
    phase        \* "run", "done" or "error"

vars == <<cascade, stripe, opIndex, next, rolling, phase>>

AtMost(n, bound)  == IF n < bound THEN n ELSE bound
AtLeast(n, bound) == IF n > bound THEN n ELSE bound
CeilDiv(n, d)     == (n + d - 1) \div d

Ops(c)     == 1..Len(c.ops)
IfmH(c, i) == IF i = 1 THEN c.height ELSE c.ops[i - 1].ofmH
OfmH(c, i) == c.ops[i].ofmH

-----------------------------------------------------------------------------
(* The stripe heights                                                      *)

\* ProposeScheduleStriping: each operation makes what the next one consumes.
Proposed(c, last) ==
    LET height[i \in Ops(c)] ==
            IF i = Len(c.ops) THEN last ELSE height[i + 1] * c.ops[i + 1].stride
    IN  [i \in Ops(c) |-> height[i]]

\* ProposeMinimalSchedule: just the stride of the next operation.
Minimal(c, following) ==
    [i \in Ops(c) |-> IF i = Len(c.ops) THEN following ELSE c.ops[i + 1].stride]

StripeHeights(c) ==
    LET last == OfmH(c, Len(c.ops))
    IN  {Proposed(c, h) : h \in 2..((last + 1) \div 2)} \cup {Minimal(c, s) : s \in {1, 2}}

\* The rows of the input a stripe asks for, without padding.
StripeInput(c, h, i) ==
    IF h[i] = OfmH(c, i) THEN IfmH(c, i)
    ELSE AtMost((h[i] - 1) * c.ops[i].stride + c.ops[i].kernel, IfmH(c, i))

\* RollingBufferShape: the rows of both, rounded up to stripes of the consumer.
\* One row of a 48-channel concatenation is its own buffer.
BufferHeight(c, h, i) ==
    LET consumer == StripeInput(c, h, i + 1)
    IN  IF c.ops[i].concatRow /\ h[i] = 1 /\ consumer = 1 THEN 1
        ELSE CeilDiv(h[i] + consumer, consumer) * consumer

-----------------------------------------------------------------------------
(* The stripes                                                             *)

Stripes(c, h, i) == CeilDiv(OfmH(c, i), h[i])

OfmStart(h, i, n)  == n * h[i]
OfmEnd(c, h, i, n) == AtMost((n + 1) * h[i], OfmH(c, i))

\* CalculateIfmStripeAndPadding: the rows a stripe reads.
IfmStart(c, h, i, n) == AtLeast(0, OfmStart(h, i, n) * c.ops[i].stride - c.ops[i].top)

IfmEnd(c, h, i, n) ==
    AtMost((OfmEnd(c, h, i, n) - 1) * c.ops[i].stride - c.ops[i].top + c.ops[i].kernel,
           IfmH(c, i))

HasNext(i) == next[i] < Stripes(cascade, stripe, i)

\* The rows of operation i that exist.
Available(i) == IF next[i] = 0 THEN 0 ELSE OfmEnd(cascade, stripe, i, next[i] - 1)

Init ==
    /\ cascade \in Cascades
    /\ stripe \in StripeHeights(cascade)
    /\ opIndex = 1
    /\ next = [i \in Ops(cascade) |-> 0]
    /\ rolling = [i \in 1..(Len(cascade.ops) - 1) |->
                     [slot \in 0..(BufferHeight(cascade, stripe, i) - 1) |-> -1]]
    /\ phase = "run"

-----------------------------------------------------------------------------
(* The interleaving                                                        *)

\* mutated: a stripe may begin when its first row is there
IsReadyAtStart(i) ==
    IF i = 1 THEN TRUE ELSE IfmStart(cascade, stripe, i, next[i]) < Available(i - 1)

IsReady(i) ==
    IF i = 1 THEN TRUE ELSE IfmEnd(cascade, stripe, i, next[i]) <= Available(i - 1)

\* CanFitRollingBuffer, with n the next stripe of operation i.
CanFitRollingBuffer(i, n) ==
    OfmEnd(cascade, stripe, i, n) - IfmStart(cascade, stripe, i + 1, next[i + 1])
        <= BufferHeight(cascade, stripe, i)

\* A linebuffer convolution addresses its output stripe as one block
\* (the check at the head of AppendC32MatrixStripe).
FitsBuffer(i) ==
    \/ i = Len(cascade.ops) \/ ~cascade.ops[i].linebuffer
    \/ LET h == BufferHeight(cascade, stripe, i)
           start == OfmStart(stripe, i, next[i])
       IN  (start % h) + OfmEnd(cascade, stripe, i, next[i]) - start <= h

\* The rows of the stripe go to their slots.
Written ==
    [slot \in DOMAIN rolling[opIndex] |->
        LET rows == {y \in OfmStart(stripe, opIndex, next[opIndex])..
                           (OfmEnd(cascade, stripe, opIndex, next[opIndex]) - 1) :
                        y % BufferHeight(cascade, stripe, opIndex) = slot}
        IN  IF rows = {} THEN rolling[opIndex][slot] ELSE Max(rows)]

\* Move to the next operation once the rolling buffer is full.
IsFull ==
    /\ opIndex < Len(cascade.ops)
    /\ HasNext(opIndex + 1)
    /\ ~CanFitRollingBuffer(opIndex, next[opIndex] + 1)

\* mutated: the end of any operation ends the walk
EndsWithAny(i) == i >= 1

EndsWalk(i) == i >= Len(cascade.ops)

\* A stripe is emitted; the walk stays while the buffer takes the next one.
Emit ==
    /\ rolling' = IF opIndex < Len(cascade.ops)
                  THEN [rolling EXCEPT ![opIndex] = Written] ELSE rolling
    /\ next' = [next EXCEPT ![opIndex] = @ + 1]
    /\ IF next[opIndex] + 1 < Stripes(cascade, stripe, opIndex)
       THEN opIndex' = (IF IsFull THEN opIndex + 1 ELSE opIndex) /\ phase' = "run"
       ELSE IF EndsWalk(opIndex)
       THEN opIndex' = opIndex /\ phase' = "done"
       ELSE opIndex' = opIndex + 1 /\ phase' = "run"
    /\ UNCHANGED <<cascade, stripe>>

\* The command generator refuses the stripe, and compilation fails.
Refuse == phase' = "error" /\ UNCHANGED <<cascade, stripe, opIndex, next, rolling>>

EmitStripe ==
    /\ phase = "run" /\ IsReady(opIndex)
    /\ IF FitsBuffer(opIndex) THEN Emit ELSE Refuse

\* More input is needed from the previous operation.
StepBack ==
    /\ phase = "run" /\ ~IsReady(opIndex)
    /\ opIndex' = opIndex - 1
    /\ UNCHANGED <<cascade, stripe, next, rolling, phase>>

Next == EmitStripe \/ StepBack

Spec == Init /\ [][Next]_vars

-----------------------------------------------------------------------------
(* Properties                                                              *)

TypeOK ==
    /\ opIndex \in Ops(cascade)
    /\ \A i \in Ops(cascade) : next[i] \in 0..Stripes(cascade, stripe, i)
    /\ phase \in {"run", "done", "error"}

\* When a stripe is emitted, its rolling input still holds every row it
\* reads: the producer has made them and has not run so far ahead that it
\* overwrote one (the order GenerateCommandsForCascade chooses, with the
\* buffer heights of RollingBufferShape).
InputIsHeld ==
    phase = "run" /\ opIndex > 1 /\ IsReady(opIndex) =>
        \A y \in IfmStart(cascade, stripe, opIndex, next[opIndex])..
                 (IfmEnd(cascade, stripe, opIndex, next[opIndex]) - 1) :
            rolling[opIndex - 1][y % BufferHeight(cascade, stripe, opIndex - 1)] = y

\* The walk up and down the cascade never comes to an operation with nothing
\* left to do, and ends only when every row of the last operation is made
\* (the loop of GenerateCommandsForCascade).
WalkIsComplete ==
    /\ phase = "run" => HasNext(opIndex)
    /\ phase = "done" => Available(Len(cascade.ops)) = OfmH(cascade, Len(cascade.ops))

=============================================================================
