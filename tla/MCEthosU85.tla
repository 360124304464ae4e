----------------------------- MODULE MCEthosU85 -----------------------------
(***************************************************************************)
(* Six parts of an Ethos-U85 command stream, side by side: the waits       *)
(* between the engines, the block dependency between kernel operations,    *)
(* the lookup tables, the staged weights, the convolutions that are        *)
(* decomposed, and the groups that operations are packed into.  A          *)
(* behaviour runs one of them.                                             *)
(***************************************************************************)
EXTENDS NpuWaits, LutSlots

-----------------------------------------------------------------------------
(* Transfers into two buffers and a table, stripes that read them and a     *)
(* chain of two operations, in streams of five commands.                    *)

Access(reads, writes) == [reads |-> reads, writes |-> writes]

MCCommands ==
    {[type |-> "DMA", ops |-> <<Access({"const"}, {b})>>] : b \in {"w0", "w1"}}
    \cup {[type |-> "DMA", ops |-> <<Access({"fm"}, {"w0"})>>]}
    \cup {[type |-> "STRIPE", ops |-> <<Access({"w0"}, {"fm"})>>],
          [type |-> "STRIPE", ops |-> <<Access({"w1", "fm"}, {"out"})>>],
          [type |-> "STRIPE", ops |-> <<Access({"fm"}, {}), Access({"w1"}, {"out"})>>],
          [type |-> "BRANCH", ops |-> <<>>], [type |-> "BRANCH_TARGET", ops |-> <<>>]}

MCLimits == [dma |-> 2, npu |-> 2]

-----------------------------------------------------------------------------
(* Tables of one, two and four slots in a memory of four, two operations    *)
(* with the same table, and streams of five stripes without a branch, each  *)
(* operation's stripes one after the other.                                 *)

Stripe(ops_) == [type |-> "stripe", ops |-> ops_]

MCTable == [a |-> "A", b |-> "B", c |-> "C", d |-> "D", e |-> "E", same |-> "B",
            wide |-> "F", pair |-> "G", whole |-> "H", again |-> "H"]
MCUnits == [a |-> 1, b |-> 1, c |-> 1, d |-> 1, e |-> 1, same |-> 1,
            wide |-> 2, pair |-> 2, whole |-> 4, again |-> 4]

\* The names alike in size, and in what others hold the same table, come in one order.
Later == {<<"a", "c">>, <<"c", "d">>, <<"d", "e">>, <<"b", "same">>, <<"wide", "pair">>, <<"whole", "again">>}

\* The operations of a stream are pairwise different, but for repetitions in a row.
InRows ==
    {f \in [1..5 -> DOMAIN MCTable \cup {"none"}] :
        /\ \A i, j \in 1..5 : i < j /\ f[i] = f[j] /\ f[i] # "none" => \A k \in i..j : f[k] = f[i]
        /\ \A i \in 1..5, p \in Later : f[i] = p[2] => \E j \in 1..(i - 1) : f[j] = p[1]}

StripesOf(f) == [i \in 1..5 |-> Stripe(IF f[i] = "none" THEN <<>> ELSE <<f[i]>>)]

\* Both arms of an If, and the operation behind it, use their own tables.
IfStream ==
    <<[type |-> "branch", targets |-> {"then", "else"}],
      [type |-> "target", label |-> "then"], Stripe(<<"a">>), [type |-> "branch", targets |-> {"exit"}],
      [type |-> "target", label |-> "else"], Stripe(<<"b">>), [type |-> "branch", targets |-> {"exit"}],
      [type |-> "target", label |-> "exit"], Stripe(<<"c">>)>>

MCStreams == {IfStream} \cup {StripesOf(f) : f \in InRows}

\* A convolution and an addition chained to it, each with an activation
\* whose table takes the memory.
GroupStreams == {<<Stripe(<<"whole", "other">>)>>}
GroupTable == [whole |-> "H", other |-> "I"]
GroupUnits == [whole |-> 4, other |-> 4]

-----------------------------------------------------------------------------
(* One or two operations, alone or in a cascade, with the same or other     *)
(* weights of up to eight units of depth that compress evenly or not.       *)

MCUnitBytes ==
    [even |-> <<2, 2, 2, 2, 2, 2, 2, 2>>, rising |-> <<1, 1, 1, 2, 2, 3, 3, 3>>,
     peaked |-> <<1, 1, 5, 1, 1>>, small |-> <<1, 1>>]

One(w, rows) == [weights |-> w, rows |-> rows]

MCNetworks ==
    {<<One(v, 1), One(w, 1)>> : v, w \in DOMAIN MCUnitBytes}
    \cup {<<One(v, 3), One(w, 3)>> : v, w \in DOMAIN MCUnitBytes}
    \cup {<<One("rising", 1), One("even", 2), One("even", 2)>>}

-----------------------------------------------------------------------------
(* Convolutions with a large stride in blocks, with dilation, with a large  *)
(* input, and with all three, padded no more than a SAME convolution.       *)

Conv(rows, taps, stride, dilation, top, bottom, block) ==
    [rows |-> rows, taps |-> taps, stride |-> stride, dilation |-> dilation,
     top |-> top, bottom |-> bottom, block |-> block]

IsPadded(c) == /\ c.rows + c.top + c.bottom > (c.taps - 1) * c.dilation
               /\ c.top + c.bottom <= (c.taps - 1) * c.dilation

MCConvolutions ==
    {c \in {Conv(r, t, s, 1, p, q, b) :
               r \in 1..14, t \in 1..5, s \in 4..6, p, q \in 0..2, b \in 2..3} : IsPadded(c)}
    \cup {c \in {Conv(r, t, s, d, p, q, 99) :
                    r \in 1..14, t \in 1..3, s \in 1..6, d \in 2..4, p \in 0..3, q \in 0..4} : IsPadded(c)}
    \cup {c \in {Conv(r, t, 1, 1, p, q, b) :
                    r \in 56..58, t \in 1..3, p, q \in 0..1, b \in {14, 25}} : IsPadded(c)}
    \cup {Conv(51, 3, 4, 3, 0, 0, 6), Conv(45, 3, 4, 3, 3, 3, 6),
          Conv(46, 3, 4, 3, 2, 3, 6), Conv(40, 2, 5, 2, 0, 2, 4)}

-----------------------------------------------------------------------------
(* Graphs of operations: every one of four operations, in the order of the  *)
(* traversal, with two writers of one tensor among them; long chains of     *)
(* elementwise operations and tables; and all kinds in rows of three.       *)

CONSTANT GroupGraphs

Names == <<"t1", "t2", "t3", "t4", "t5", "t6", "t7", "t8", "t9", "t10">>

Node(kind, in, o) == [kind |-> kind, in |-> in, out |-> o, fits |-> TRUE]

\* The tensors that nobody reads are outputs, and some that are read.
Unread(nodes) ==
    SelectSeq(Names, LAMBDA t : /\ \E i \in DOMAIN nodes : nodes[i].out = t
                                /\ \A i \in DOMAIN nodes : t \notin Range(nodes[i].in))

GraphOf(nodes, more, chaining) == [ops |-> nodes, outputs |-> Unread(nodes) \o more, chaining |-> chaining]

ActivationKinds == {"table", "clip"}

\* An activation, a reordering of it, and an activation of that: of two in a
\* group the second is lost (FusedTwice).
ActivatesTwice(nodes) ==
    \E i, j, k \in DOMAIN nodes :
        /\ nodes[i].kind \in ActivationKinds /\ nodes[k].kind \in ActivationKinds
        /\ nodes[j].kind \in {"transpose", "reverse"}
        /\ nodes[j].in = <<nodes[i].out>> /\ nodes[k].in = <<nodes[j].out>>

Sources(i) == {"x"} \cup {Names[j] : j \in 1..(i - 1)}

Nodes(i) == {Node(kind, <<t>>, Names[i]) : kind \in {"conv", "table", "transpose", "cpu"}, t \in Sources(i)}
            \cup {Node("elementwise", <<t, u>>, Names[i]) : t, u \in Sources(i)}

\* Nothing reads a tensor before its last writer.
IsBuilt(nodes) ==
    \A i \in DOMAIN nodes : \A t \in Range(nodes[i].in) \ {"x"} :
        /\ \E j \in 1..(i - 1) : nodes[j].out = t
        /\ \A j \in i..Len(nodes) : nodes[j].out # t

ShortRows ==
    {nodes \in {<<a, b, c, d>> :
                  a \in {n \in Nodes(1) : n.kind \in {"conv", "cpu"}},
                  b \in Nodes(2) \cup {Node(kind, <<"x">>, "t1") : kind \in {"conv", "table", "cpu"}},
                  c \in Nodes(3), d \in Nodes(4)} :
        IsBuilt(nodes) /\ ~ActivatesTwice(nodes)}

\* Each operation reads the one before.
Linear(kinds) ==
    [i \in DOMAIN kinds |->
        LET before == IF i = 1 THEN "x" ELSE Names[i - 1]
        IN  CASE kinds[i] = "add"   -> Node("elementwise", <<before, "x">>, Names[i])
              [] kinds[i] = "scale" -> Node("elementwise", <<"scalar", before>>, Names[i])
              [] OTHER              -> Node(kinds[i], <<before>>, Names[i])]

LongRows ==
    {Linear(<<"conv">> \o kinds) : kinds \in [1..6 -> {"add", "scale", "table"}]}
    \cup {Linear([i \in 1..10 |-> IF i % 2 = 1 THEN "scale" ELSE "table"])}

AllKinds == {"conv", "resize", "scale", "add", "table", "clip", "transpose", "reverse", "cpu"}

MixedRows == {Linear(kinds) : kinds \in [1..3 -> AllKinds]}

MCGroupGraphs ==
    {GraphOf(nodes, more, TRUE) : nodes \in ShortRows, more \in {<<>>, <<"t1">>}}
    \cup {GraphOf(nodes, <<>>, TRUE) : nodes \in LongRows}
    \cup {GraphOf(nodes, <<>>, chaining) :
              nodes \in {r \in MixedRows \cup {[r EXCEPT ![2].fits = FALSE] : r \in MixedRows} : ~ActivatesTwice(r)},
              chaining \in BOOLEAN}

\* A convolution, its clipping, a transposition and a table.
FusedTwice == {GraphOf(Linear(<<"conv", "clip", "transpose", "table">>), <<>>, TRUE)}

-----------------------------------------------------------------------------
(* Operations that read what the one before writes: convolutions and        *)
(* pooling whose stride is not larger than the kernel, over whole tensors,  *)
(* every second row and column of them, and slices; elementwise operations  *)
(* whose other input is elsewhere, the same, smaller, or overlaps it.       *)

CONSTANT BlockPairs

FeatureMap(address_, shape_, step_) ==
    [address |-> address_, bytes |-> shape_[1] * shape_[2] * shape_[3], shape |-> shape_, step |-> step_]

AreaOf(from_, to_) == [from |-> from_, to |-> to_]

WholeOf(shape) == AreaOf(<<0, 0, 0>>, shape)

First(fm, area_, block_) ==
    [ofm |-> fm, area |-> area_, block |-> block_, moved |-> FALSE, control |-> FALSE]

Second(inputs_, out_, block_, slice_, kernel_) ==
    [inputs |-> inputs_, out |-> out_, block |-> block_, slice |-> slice_,
     kernel |-> kernel_.size, stride |-> kernel_.stride, pad |-> kernel_.pad, chained |-> FALSE]

BlockShapes == {<<1, 2, 1>>, <<1, 3, 1>>, <<2, 1, 1>>, <<2, 2, 2>>}

Kernels ==
    {k \in [size : 1..3, stride : 1..3, pad : 0..1] : k.stride <= k.size /\ k.pad < k.size}

\* Rows or columns of n, with every step-th of them read.
RowsRead(n, step) == (n + step - 1) \div step

RowsOut(n, k) == IF n + 2 * k.pad < k.size THEN 1 ELSE (n + 2 * k.pad - k.size) \div k.stride + 1

\* How far the kernel reaches.
RowsNeeded(n, step, k) ==
    LET last == (RowsOut(RowsRead(n, step), k) - 1) * k.stride + k.size - k.pad
    IN  IF last * step < n THEN last * step ELSE n

\* The kernel over the rows that follow the first skip ones.
Convolve(fm, skip, k, b, slice, depths) ==
    LET rows == fm.shape[1] - skip
        cols == fm.shape[2]
        area == AreaOf(<<skip, 0, 0>>, <<skip + RowsNeeded(rows, fm.step, k),
                                         RowsNeeded(cols, fm.step, k), fm.shape[3]>>)
    IN  Second(<<[fm |-> fm, area |-> area]>>,
               <<RowsOut(RowsRead(rows, fm.step), k), RowsOut(RowsRead(cols, fm.step), k), depths>>,
               b, slice, k)

ConvPairs ==
    {[first |-> First(FeatureMap(0, shape, 1), WholeOf(shape), b1),
      second |-> Convolve(FeatureMap(0, shape, 1), 0, k, b2, slice, depths)] :
        shape \in {<<3, 9, 1>>, <<4, 5, 2>>}, b1, b2 \in BlockShapes, k \in Kernels,
        slice, depths \in 1..2}

StepPairs ==
    {[first |-> First(FeatureMap(0, shape, t[1]), WholeOf(shape), b1),
      second |-> Convolve(FeatureMap(0, shape, t[2]), 0, k, b2, 1, 1)] :
        shape \in {<<3, 9, 1>>, <<6, 4, 1>>}, t \in {<<1, 2>>, <<2, 1>>, <<2, 2>>},
        b1, b2 \in BlockShapes, k \in Kernels}

\* One writes, the other reads, a slice of rows.
SlicePairs ==
    {[first |-> First(FeatureMap(0, <<6, 3, 2>>, 1), AreaOf(<<s[1], 0, 0>>, <<s[2], 3, 2>>), b1),
      second |-> Convolve(FeatureMap(0, <<6, 3, 2>>, 1), skip, k, b2, 2, 1)] :
        s \in {<<0, 6>>, <<0, 3>>, <<2, 6>>}, skip \in {0, 2, 3}, b1, b2 \in BlockShapes, k \in Kernels}

\* All is as in a pair with a convolution, but for one thing.
OtherPairs ==
    LET plain == {q \in ConvPairs : q.first.block = <<1, 2, 1>> /\ q.second.slice = 1}
    IN  {[q EXCEPT !.first.moved = TRUE] : q \in plain}
          \cup {[q EXCEPT !.first.control = TRUE] : q \in plain}
          \cup {[q EXCEPT !.second.chained = TRUE] : q \in plain}
          \cup {[q EXCEPT !.second.inputs[1].fm.shape = <<1, 27, 1>>] : q \in plain}
          \cup {[q EXCEPT !.second.inputs[1].fm.address = a] : q \in plain, a \in {2, 50}}

UnitKernel == [size |-> 1, stride |-> 1, pad |-> 0]

Add(fm1, fm2, b, shape) ==
    Second(<<[fm |-> fm1, area |-> WholeOf(fm1.shape)], [fm |-> fm2, area |-> WholeOf(fm2.shape)]>>,
           <<shape[1], shape[2], 1>>, b, b[3], UnitKernel)

\* Two of: what was produced, a tensor elsewhere, one row of such a tensor;
\* and a tensor that overlaps what was produced.
AddPairs ==
    LET shape    == <<4, 4, 2>>
        produced == FeatureMap(0, shape, 1)
        far      == {FeatureMap(50, shape, 1), FeatureMap(50, <<1, 4, 2>>, 1), FeatureMap(50, <<4, 1, 2>>, 1)}
        inputs   == {<<produced, produced>>, <<FeatureMap(50, shape, 1), FeatureMap(4, shape, 1)>>}
                      \cup UNION {{<<produced, f>>, <<f, produced>>} : f \in far}
    IN  {[first |-> First(produced, WholeOf(shape), b1), second |-> Add(in[1], in[2], b2, shape)] :
            in \in inputs, b1, b2 \in BlockShapes}
        \cup {[first |-> First(FeatureMap(0, <<1, 4, 2>>, 1), WholeOf(<<1, 4, 2>>), b1),
               second |-> Add(in[1], in[2], b2, shape)] :
            in \in {<<FeatureMap(0, <<1, 4, 2>>, 1), FeatureMap(50, shape, 1)>>,
                    <<FeatureMap(50, shape, 1), FeatureMap(0, <<1, 4, 2>>, 1)>>}, b1, b2 \in BlockShapes}

MCBlockPairs == ConvPairs \cup StepPairs \cup SlicePairs \cup OtherPairs \cup AddPairs

\* An addition of the lower to the upper half of the tensor written before it.
TwoViews ==
    {[first |-> First(FeatureMap(0, <<8, 2, 1>>, 1), WholeOf(<<8, 2, 1>>), <<1, 2, 1>>),
      second |-> Second(<<[fm |-> FeatureMap(0, <<8, 2, 1>>, 1), area |-> AreaOf(<<4, 0, 0>>, <<8, 2, 1>>)],
                          [fm |-> FeatureMap(0, <<8, 2, 1>>, 1), area |-> AreaOf(<<0, 0, 0>>, <<4, 2, 1>>)]>>,
                        <<4, 2, 1>>, <<1, 2, 1>>, 1, UnitKernel)]}

-----------------------------------------------------------------------------

VARIABLES
    part,                                           \* what this behaviour runs
    pair, blockdep, left, started,                                  \* of BlockDependency
    ops, limit, depths, plans, phase, streams, filled, at, contents, \* of WeightBuffering
    conv, pending, convCode, ran, acc, outputs,             \* of ConvDecomposition
    graph, list, entries, out, clip, move, stage, walk, tensors, buffers    \* of OpGroups

weightVars == <<ops, limit, depths, plans, phase, streams, filled, at, contents>>
convVars   == <<conv, pending, convCode, ran, acc, outputs>>
groupVars  == <<graph, list, entries, out, clip, move, stage, walk, tensors, buffers>>
blockVars  == <<pair, blockdep, left, started>>
allVars    == <<part, vars, blockVars, lutVars, weightVars, convVars, groupVars>>

Blocks == INSTANCE BlockDependency WITH Pairs <- BlockPairs, MaxBlockdep <- 7

Weight == INSTANCE WeightBuffering WITH
              UnitBytes <- MCUnitBytes, Networks <- MCNetworks, Limits <- {3, 6, 9, 14, 20},
              MinDepth <- 1, BlockDepth <- 2

Decomposition == INSTANCE ConvDecomposition WITH
                     Convolutions <- MCConvolutions, MaxAxis <- 54, MaxStride <- 3, MaxDilation <- 2,
                     code <- convCode

Groups == INSTANCE OpGroups WITH Graphs <- GroupGraphs, phase <- stage, memory <- tensors

NoBlocks == pair = <<>> /\ blockdep = 0 /\ left = 0 /\ started = 0

NoLuts == /\ stream = <<>> /\ next = 0 /\ slots = <<>> /\ opSlot = <<>>
          /\ code = <<>> /\ lutPc = 0 /\ memory = <<>>

NoWeights == /\ ops = <<>> /\ limit = 0 /\ depths = <<>> /\ plans = <<>> /\ phase = "none"
             /\ streams = <<>> /\ filled = <<>> /\ at = <<>> /\ contents = <<>>

NoConvolutions == /\ conv = <<>> /\ pending = <<>> /\ convCode = <<>>
                  /\ ran = 0 /\ acc = <<>> /\ outputs = <<>>

NoGroups == /\ graph = <<>> /\ list = <<>> /\ entries = <<>> /\ out = <<>> /\ clip = <<>>
            /\ move = <<>> /\ stage = "none" /\ walk = <<>> /\ tensors = <<>> /\ buffers = <<>>

\* Only graphs whose operations the traversal yields in their order: the others
\* are the same with other numbers.
InOrder == list = [i \in DOMAIN graph.ops |-> i]

NoWaits == /\ generator = [code |-> <<>>, dma |-> <<>>, npu |-> <<>>]
           /\ commands = 0 /\ pc = 0 /\ running = [e \in Engines |-> <<>>]

EthosInit ==
    \/ part = "waits" /\ Init /\ NoBlocks /\ NoLuts /\ NoWeights /\ NoConvolutions /\ NoGroups
    \/ part = "blocks" /\ NoWaits /\ Blocks!Init /\ NoLuts /\ NoWeights /\ NoConvolutions /\ NoGroups
    \/ part = "luts" /\ NoWaits /\ NoBlocks /\ LutInit /\ NoWeights /\ NoConvolutions /\ NoGroups
    \/ part = "weights" /\ NoWaits /\ NoBlocks /\ NoLuts /\ Weight!Init /\ NoConvolutions /\ NoGroups
    \/ part = "convolutions" /\ NoWaits /\ NoBlocks /\ NoLuts /\ NoWeights /\ Decomposition!Init /\ NoGroups
    \/ part = "groups" /\ NoWaits /\ NoBlocks /\ NoLuts /\ NoWeights /\ NoConvolutions /\ Groups!Init /\ InOrder

Synchronise  == part = "waits" /\ Next
                /\ UNCHANGED <<part, blockVars, lutVars, weightVars, convVars, groupVars>>
Overlap      == part = "blocks" /\ Blocks!Next
                /\ UNCHANGED <<part, vars, lutVars, weightVars, convVars, groupVars>>
LookUp       == part = "luts" /\ LutNext
                /\ UNCHANGED <<part, vars, blockVars, weightVars, convVars, groupVars>>
StageWeights == part = "weights" /\ Weight!Next
                /\ UNCHANGED <<part, vars, blockVars, lutVars, convVars, groupVars>>
Decompose    == part = "convolutions" /\ Decomposition!Next
                /\ UNCHANGED <<part, vars, blockVars, lutVars, weightVars, groupVars>>
PackGroups   == part = "groups" /\ Groups!Next
                /\ UNCHANGED <<part, vars, blockVars, lutVars, weightVars, convVars>>

\* The scheduler and the generators are sequential code: while one has a step
\* to take it takes it.
EthosSpec ==
    /\ EthosInit
    /\ [][Synchronise \/ Overlap \/ LookUp \/ StageWeights \/ Decompose \/ PackGroups]_allVars
    /\ WF_allVars(StageWeights)

-----------------------------------------------------------------------------
(* Properties *)

\* No job of a kernel operation reads what a job in flight before it writes, for
\* the block dependency is "the highest blockdep such that there is no overlap
\* between any job from the previous op with any job from the current op during
\* blockdep jobs" (ethos_u85_register_cs_generator.cpp:932-933).
NothingReadEarly == part = "blocks" => Blocks!ReadsWhatWasWritten

\* A stripe that reads staged weights reads those of its own slice, whichever
\* operations share the buffer and however they take turns
\* (CoalesceWeightBufferTensors, GenerateWeightDMA).
WeightsAreExact == part = "weights" => Weight!WeightsAreExact

\* A convolution that was decomposed computes what it computed before: the
\* operations in its place take every output row from the right input rows,
\* once (DecomposeConv2D, CalculateIfmStripeAndPadding).
ComputesConvolution == part = "convolutions" => Decomposition!ComputesConvolution

\* However operations were packed into groups, moved between CPU and NPU and
\* fused or chained, the tensors hold what the graph says, and no group outgrows
\* its arrays. "There can be only one fused activation"
\* (ethos_u85_register_cs_generator.cpp:996).
ComputesGraph == part = "groups" => Groups!ComputesGraph /\ Groups!GroupsFit

\* The loop over slice depths ends, and every operation is planned
\* (ProposeSlicedWeightBuffering).
SlicingTerminates == part = "weights" ~> Weight!Planned

=============================================================================
