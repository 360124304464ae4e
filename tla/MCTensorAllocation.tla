------------------------- MODULE MCTensorAllocation -------------------------
(***************************************************************************)
(* Programs of three operations over two graph inputs, from their schedule *)
(* to their addresses; and the search alone, from every list of four short *)
(* live ranges and lists on which the heuristic order is not optimal.      *)
(***************************************************************************)
EXTENDS TensorAllocation

X == <<"x", 0, 0>>
Y == <<"y", 0, 0>>
T(i) == <<"t", i, 0>>

Earlier(i) == {X, Y} \cup {T(j) : j \in 1..(i - 1)}

Reads(i) == {<<a>> : a \in Earlier(i)} \cup {<<a, b>> \in Earlier(i) \X Earlier(i) : a # b /\ a # X}

NpuOp(reads, i, elementwise, cascade, alias) ==
    [reads |-> reads, writes |-> T(i), elementwise |-> elementwise, npu |-> TRUE, cascade |-> cascade,
     alias |-> alias, parts |-> 0, slices |-> 1, preBuffer |-> FALSE]

Program(ops, here, rolling, outputs, persistent, workspace) ==
    [ops |-> ops, here |-> here, addRollingBuffers |-> rolling, reuseIfms |-> TRUE,
     inputs |-> {X, Y}, outputs |-> outputs, persistent |-> persistent, workspace |-> workspace]

Everything == {X, Y, T(1), T(2), T(3)}

\* Operations one by one, with reuse of inputs.
Plain ==
    {Program(<<NpuOp(r1, 1, e[1], 0, FALSE), NpuOp(r2, 2, e[2], 0, FALSE), NpuOp(r3, 3, e[3], 0, FALSE)>>,
             here, FALSE, outputs, {}, <<>>) :
        r1 \in {<<X>>, <<Y, X>>}, r2 \in Reads(2), r3 \in Reads(3), e \in {<<TRUE, TRUE, b>> : b \in BOOLEAN},
        here \in {Everything, Everything \ {T(1)}}, outputs \in {{T(3)}, {T(1), T(3)}}}

\* One operand is state, and is read or written.
Stateful ==
    {Program(<<NpuOp(<<X>>, 1, TRUE, 0, FALSE), NpuOp(r2, 2, TRUE, 0, FALSE), NpuOp(r3, 3, TRUE, 0, FALSE)>>,
             Everything, FALSE, {T(3)}, persistent, <<8, 8, 0, 4>>) :
        r2 \in Reads(2), r3 \in Reads(3), persistent \in {{Y}, {T(1)}, {T(2)}}}

\* Cascades over the second and third or all three operations.
Cascaded ==
    {Program(<<NpuOp(r1, 1, e[1], c[1], FALSE), NpuOp(<<T(1)>>, 2, e[2], c[2], alias),
               NpuOp(r3, 3, e[3], c[3], FALSE)>>, here, rolling, {T(3)}, {}, <<4, 4, 4, 4, 4, 4, 4, 4, 4>>) :
        r1 \in {<<X>>, <<Y, X>>}, r3 \in {<<T(2)>>, <<T(2), Y>>, <<T(2), X>>}, e \in [1..3 -> BOOLEAN],
        c \in {<<0, 3, 3>>, <<3, 3, 3>>}, alias \in BOOLEAN, here \in {Everything, {X, Y}},
        rolling \in BOOLEAN}

\* ofmEquivalenceId is set inside a cascade, on operations that map one to one.
RealCascades == {p \in Cascaded : p.ops[2].alias => p.ops[2].elementwise /\ p.ops[1].cascade = 3}

\* Weights in one or two parts beside operations of one or several slices, and
\* an operation of the CPU.
WithWeights(i, parts, slices, pre, npu) ==
    [NpuOp(<<IF i = 1 THEN X ELSE T(i - 1)>>, i, FALSE, 0, FALSE) EXCEPT
        !.parts = parts, !.slices = slices, !.preBuffer = pre /\ parts > 0, !.npu = npu \/ parts > 0]

Weighted ==
    {Program(<<WithWeights(1, p[1], slices, pre, cpu # 1), WithWeights(2, p[2], slices, pre, cpu # 2),
               WithWeights(3, p[3], slices, pre, cpu # 3)>>,
             Everything, FALSE, {T(3)}, {}, workspace) :
        p \in [1..3 -> 0..2], slices \in 2..5, pre \in BOOLEAN, cpu \in 0..3,
        workspace \in {<<>>, <<0, 3, 3, 5, 0, 2>>}}

MCSchedules ==
    Plain \cup Stateful \cup RealCascades \cup Weighted
      \cup {[p EXCEPT !.reuseIfms = FALSE] : p \in {q \in Plain \cup Weighted : q.workspace = <<>>}}

\* The parts of the first two operations are half as large as feature maps.
\* (The heuristic order is optimal for these ranges: the search is long.)
MCSizeOf(t) == IF t[1] = "part" /\ t[2] # 3 THEN 1 ELSE 2

-----------------------------------------------------------------------------
R(start, end, bytes) == [startTime |-> start, endTime |-> end, size |-> bytes]

Times == 0..2

Kinds == {r \in [startTime : Times, endTime : Times, size : 1..2] : r.startTime <= r.endTime}

\* The order of a list only breaks ties: one list per multiset.
Key(r) == 100 * r.startTime + 10 * r.endTime + r.size

Lists(n) == {s \in [1..n -> Kinds] : \A i \in 1..(n - 1) : Key(s[i]) <= Key(s[i + 1])}

\* The heuristic order takes 4, 6 and 5 bytes, the best order 3, 5 and 4.
Hard == { << R(0,0,2), R(0,1,1), R(1,2,1), R(2,2,2) >>,
          << R(0,0,3), R(0,1,2), R(1,2,1), R(2,2,3) >>,
          << R(2,3,2), R(0,0,2), R(1,3,1), R(2,2,1), R(0,1,2) >> }

MCRangeSets == {<<>>} \cup Lists(1) \cup Lists(2) \cup Lists(3) \cup Lists(4) \cup Hard

\* No schedule: the ranges are given.
GivenInit ==
    /\ Init
    /\ schedule = <<>> /\ pos = 0 /\ time = 0 /\ extracted = <<>> /\ rangeOf = <<>>
    /\ opTime = <<>> /\ kept = <<>> /\ run = <<>> /\ stage = "given"

MCSpec == (AllocationInit \/ GivenInit) /\ [][AllocationNext]_<<vars, liveVars>>

=============================================================================
