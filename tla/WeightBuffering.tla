-------------------------- MODULE WeightBuffering ---------------------------
(***************************************************************************)
(* The staging of weights: the scheduler cuts the output depth into slices *)
(* and chooses one or two buffers for them (scheduler.cpp), operations     *)
(* with the same weights share their buffer, and the command stream        *)
(* generator inserts the transfers that fill it                            *)
(* (high_level_command_stream_generator.cpp).                              *)
(*                                                                         *)
(* Depths are counted in units of OFM_SPLIT_DEPTH channels.  What the      *)
(* performance model decides is left open.                                 *)
(***************************************************************************)
EXTENDS Integers, Sequences, FiniteSets, FiniteSetsExt, SequencesExt, Functions

CONSTANTS
    UnitBytes,   \* per weight tensor, the encoded bytes of each unit of depth
    Networks,    \* sequences of operations [weights, rows]; more than one row in a cascade
    Limits,      \* bufferLimitBytes
    MinDepth,    \* MinimumDepthGranule
    BlockDepth   \* OptimalDepthGranule

VARIABLES
    ops,        \* the operations, in order
    limit,
    depths,     \* [prebuffer, buffering]: prebufferDepth and bufferingDepth of the operation being planned
    plans,      \* per planned operation: [slices, parts, buffer]
    phase,
    streams,    \* per operation, its commands; those that ran are dropped
    filled,     \* _filledWeightBuffers
    at,         \* the operation, row and slice whose commands are generated next
    contents    \* what each buffer holds as the commands run

vars == <<ops, limit, depths, plans, phase, streams, filled, at, contents>>

Op == ops[Len(plans) + 1]
Depth(w) == Len(UnitBytes[w])

BytesOf(w, from, to) == SumFunctionOnSet([i \in 1..Depth(w) |-> UnitBytes[w][i]], (from + 1)..to)
AllBytes(w) == BytesOf(w, 0, Depth(w))

RoundZero(n, step) == (n \div step) * step
RoundAway(n, step) == ((n + step - 1) \div step) * step

Size(slices) == Len(slices) - 1
SliceBytes(w, slices, i) == BytesOf(w, slices[i], slices[i + 1])
MaxRange(w, slices) == Max({SliceBytes(w, slices, i) : i \in 1..Size(slices)})

Whole(w) == <<0, Depth(w)>>

Plan(slices, parts, buffer) == [slices |-> slices, parts |-> parts, buffer |-> buffer]
NoBuffer(w) == Plan(Whole(w), <<>>, 0)

-----------------------------------------------------------------------------
(* ProposeSlicedWeightBuffering                                            *)

Half == limit \div 2

Init ==
    /\ ops \in Networks
    /\ limit \in Limits
    /\ depths = [prebuffer |-> 0, buffering |-> 0]
    /\ plans = <<>>
    /\ phase = "choose"
    /\ streams = <<>> /\ filled = <<>> /\ contents = <<>>
    /\ at = [op |-> 1, row |-> 1, slice |-> 1]

\* The depth rounded to whole blocks, or to granules below one block.
WholeBlocks(d) ==
    Max({RoundZero(d, IF d > BlockDepth THEN BlockDepth ELSE MinDepth), MinDepth})

Slices(w, pre, buf) ==
    <<0>> \o [i \in 1..((Depth(w) - pre + buf - 1) \div buf) |-> pre + (i - 1) * buf] \o <<Depth(w)>>

\* The doubles and the clamps of the ratio leave at most half of the buffer
\* to the first slice, and the transfer time leaves the others open.
PrebufferDepths(w) ==
    {Max({RoundZero(d, MinDepth), 1}) : d \in {n \in 0..Depth(w) : n * AllBytes(w) <= Half * Depth(w)}}

BufferingDepths(w) ==
    {IF d * AllBytes(w) > Half * Depth(w) THEN (Half * Depth(w)) \div AllBytes(w) ELSE d :
        d \in {n \in 1..RoundAway(Depth(w), BlockDepth) : n % BlockDepth = 0}}

\* TryWeightBuffering: two buffers when both fit and there is more than one slice.
PartBytes(w, slices, parity) ==
    Max({0} \cup {SliceBytes(w, slices, i) : i \in {j \in 1..Size(slices) : j % 2 = parity}})

Parts(w, slices) ==
    IF PartBytes(w, slices, 1) + PartBytes(w, slices, 0) <= limit /\ MaxRange(w, slices) < AllBytes(w)
    THEN <<PartBytes(w, slices, 1), PartBytes(w, slices, 0)>>
    ELSE IF MaxRange(w, slices) <= limit THEN <<MaxRange(w, slices)>> ELSE <<>>

\* What is too large or does not pay is left in permanent storage, undivided.
Buffered(w, slices) ==
    LET parts == Parts(w, slices)
    IN  IF parts = <<>> THEN NoBuffer(w) ELSE Plan(slices, parts, Len(plans) + 1)

Decide(plan) ==
    /\ plans' = Append(plans, plan)
    /\ phase' = IF Len(plans) + 1 = Len(ops) THEN "coalesce" ELSE "choose"

LeaveUnbuffered ==
    /\ phase \in {"choose", "sliced"}
    /\ Decide(NoBuffer(Op.weights))
    /\ UNCHANGED <<ops, limit, depths, streams, filled, at, contents>>

BufferWhole ==
    /\ phase = "choose"
    /\ Decide(Buffered(Op.weights, Whole(Op.weights)))
    /\ UNCHANGED <<ops, limit, depths, streams, filled, at, contents>>

\* An operation in a cascade is not sliced.
ChooseSlices ==
    /\ phase = "choose"
    /\ Op.rows = 1
    /\ \E pre \in PrebufferDepths(Op.weights), buf \in BufferingDepths(Op.weights) :
          /\ pre < Depth(Op.weights) /\ buf # 0
          /\ depths' = [prebuffer |-> pre, buffering |-> WholeBlocks(buf)]
    /\ phase' = "slicing"
    /\ UNCHANGED <<ops, limit, plans, streams, filled, at, contents>>

FitsHalf == MaxRange(Op.weights, Slices(Op.weights, depths.prebuffer, depths.buffering)) <= Half

\* mutated: the smallest slices are taken to be whole blocks
IsSmallestBlock(d) == d.prebuffer = 1 /\ d.buffering = BlockDepth

IsSmallest(d) == d.prebuffer = 1 /\ d.buffering = MinDepth

Reduced(d) ==
    IF d.buffering > d.prebuffer
    THEN [d EXCEPT !.buffering = WholeBlocks(RoundAway(@ \div 2, MinDepth))]
    ELSE [d EXCEPT !.prebuffer = RoundAway(@, 2) \div 2]

\* One round of the loop over slice depths.
ReduceSlices ==
    /\ phase = "slicing"
    /\ IF FitsHalf \/ IsSmallest(depths)
       THEN phase' = "sliced" /\ UNCHANGED depths
       ELSE depths' = Reduced(depths) /\ UNCHANGED phase
    /\ UNCHANGED <<ops, limit, plans, streams, filled, at, contents>>

BufferSlices ==
    /\ phase = "sliced"
    /\ Decide(Buffered(Op.weights, Slices(Op.weights, depths.prebuffer, depths.buffering)))
    /\ UNCHANGED <<ops, limit, depths, streams, filled, at, contents>>

-----------------------------------------------------------------------------
(* CoalesceWeightBufferTensors                                             *)

Allocated(plan) == FoldLeft(+, 0, plan.parts)

\* mutated: neighbours share their buffer whatever the weights
SharesAnyway(k) == k > 1 /\ Allocated(plans[k]) = Allocated(plans[k - 1])

\* Neighbours with the same weights in one slice share the buffer of the first.
SharesBuffer(k) ==
    /\ k > 1
    /\ ops[k].weights = ops[k - 1].weights
    /\ Allocated(plans[k]) = Allocated(plans[k - 1]) /\ Len(plans[k].parts) = Len(plans[k - 1].parts)
    /\ plans[k].slices = plans[k - 1].slices /\ Size(plans[k].slices) = 1

Owner(k) == Max({j \in 1..k : ~SharesBuffer(j)})

CoalesceWeightBufferTensors ==
    /\ phase = "coalesce"
    /\ plans' = [k \in DOMAIN plans |-> [plans[k] EXCEPT !.buffer = plans[Owner(k)].buffer]]
    /\ phase' = "coalesced"
    /\ UNCHANGED <<ops, limit, depths, streams, filled, at, contents>>

-----------------------------------------------------------------------------
(* GenerateHLCStripeCommands, GenerateWeightDMA                            *)

PartOf(k, i) == IF plans[k].parts = <<>> THEN 1 ELSE ((i - 1) % Len(plans[k].parts)) + 1
BufferOf(k, i) == <<IF plans[k].parts = <<>> THEN 1 ELSE plans[k].buffer, PartOf(k, i)>>
WeightsOf(k, i) == <<ops[k].weights, plans[k].slices[i], plans[k].slices[i + 1]>>

\* A single buffer is filled in the first row, two buffers in every row.
FillsBuffer(k, row) == plans[k].parts # <<>> /\ (row = 1 \/ Len(plans[k].parts) = 2)

Buffers == (1..Len(ops)) \X (1..2)
Empty == [b \in Buffers |-> <<"nothing", 0, 0>>]

StartGeneration ==
    /\ phase = "coalesced"
    /\ streams' = [k \in DOMAIN ops |-> <<>>]
    /\ filled' = Empty /\ contents' = Empty
    /\ at' = [op |-> 1, row |-> 1, slice |-> 1]
    /\ phase' = "generate"
    /\ UNCHANGED <<ops, limit, depths, plans>>

\* Operations, their rows and their slices, in this order.
NextStripe ==
    IF at.slice < Size(plans[at.op].slices) THEN [at EXCEPT !.slice = @ + 1]
    ELSE IF at.row < ops[at.op].rows THEN [at EXCEPT !.row = @ + 1, !.slice = 1]
    ELSE [op |-> at.op + 1, row |-> 1, slice |-> 1]

\* A transfer, unless _filledWeightBuffers says that the buffer holds the
\* weights, and the stripe.
GenerateHLCStripe ==
    /\ phase = "generate"
    /\ LET buffer == BufferOf(at.op, at.slice)
           weights == WeightsOf(at.op, at.slice)
           fills == FillsBuffer(at.op, at.row) /\ filled[buffer] # weights
           dma == [type |-> "dma", buffer |-> buffer, weights |-> weights]
           stripe == [type |-> "stripe", row |-> at.row, slice |-> at.slice]
       IN  /\ filled' = IF fills THEN [filled EXCEPT ![buffer] = weights] ELSE filled
           /\ streams' = [streams EXCEPT ![at.op] = @ \o (IF fills THEN <<dma, stripe>> ELSE <<stripe>>)]
    /\ at' = NextStripe
    /\ phase' = IF NextStripe.op > Len(ops) THEN "run" ELSE "generate"
    /\ UNCHANGED <<ops, limit, depths, plans, contents>>

\* The operations of a cascade take turns by rows; others run one after
\* the other.  The waits keep a transfer behind the stripes that read its
\* buffer (NpuWaits).
RowOf(k) == IF streams[k] = <<>> THEN ops[k].rows + 1
            ELSE SelectSeq(streams[k], LAMBDA c : c.type = "stripe")[1].row

MayRun(k) ==
    /\ streams[k] # <<>>
    /\ k > 1 => IF ops[k].rows > 1 /\ ops[k - 1].rows = ops[k].rows
                THEN RowOf(k) < RowOf(k - 1) ELSE streams[k - 1] = <<>>

RunCommand(k) ==
    /\ phase = "run" /\ MayRun(k)
    /\ LET cmd == Head(streams[k])
       IN  contents' = IF cmd.type = "dma" THEN [contents EXCEPT ![cmd.buffer] = cmd.weights] ELSE contents
    /\ streams' = [streams EXCEPT ![k] = Tail(@)]
    /\ UNCHANGED <<ops, limit, depths, plans, phase, filled, at>>

Next ==
    \/ LeaveUnbuffered \/ BufferWhole \/ ChooseSlices \/ ReduceSlices \/ BufferSlices
    \/ CoalesceWeightBufferTensors \/ StartGeneration \/ GenerateHLCStripe
    \/ \E k \in DOMAIN streams : RunCommand(k)

Spec == Init /\ [][Next]_vars
-----------------------------------------------------------------------------
(* Properties                                                              *)

\* Slices are a partition of the depth, in order, and the buffers of one
\* operation are within its limit.
TypeOK ==
    /\ phase \in {"choose", "slicing", "sliced", "coalesce", "coalesced", "generate", "run"}
    /\ \A k \in DOMAIN plans :
          /\ Len(plans[k].parts) <= 2 /\ Allocated(plans[k]) <= limit
          /\ plans[k].slices[1] = 0 /\ plans[k].slices[Len(plans[k].slices)] = Depth(ops[k].weights)
          /\ \A i \in 1..Size(plans[k].slices) : plans[k].slices[i] < plans[k].slices[i + 1]

\* A stripe that reads staged weights reads those of its own slice: in every
\* row, whichever operations share the buffer and however they take turns.
WeightsAreExact ==
    phase = "run" =>
        \A k \in DOMAIN streams :
            (MayRun(k) /\ Head(streams[k]).type = "stripe" /\ plans[k].parts # <<>>) =>
                contents[BufferOf(k, Head(streams[k]).slice)] = WeightsOf(k, Head(streams[k]).slice)

\* Every operation is planned and its commands are generated.
Planned == phase = "run"

=============================================================================
