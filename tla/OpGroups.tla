------------------------------ MODULE OpGroups -------------------------------
(***************************************************************************)
(* Operations packed into groups that the Ethos-U85 runs as one: the       *)
(* execution order (Graph::TraverseGraphFromEnd), PackOperations and       *)
(* ReorderOperations (scheduler_packing.cpp), the group that accepts or    *)
(* refuses an operation (EthosU85OpGroup), and the operations of the       *)
(* machine that GenerateOpGroup emits for it.                              *)
(***************************************************************************)
EXTENDS Integers, Sequences, FiniteSets, FiniteSetsExt, SequencesExt

(***************************************************************************)
(* A graph has ops, producers before consumers, outputs (a sequence) and   *)
(* chaining (~_disableChaining).  An operation has a kind, in, out and     *)
(* fits: shapes, slices, scales and types let it follow its producer.      *)
(***************************************************************************)
CONSTANT Graphs

VARIABLES
    graph,
    list,       \* _schedList: the operations not yet packed
    entries,    \* _schedList: operations and groups [ops, chained, fused, external, length, moved]
    out,        \* per operation, the tensor it writes now
    clip, move, \* per operation, the clipping and the reordering its output has taken over
    phase,      \* "pack", "run", "done"
    walk,       \* GenerateOpGroup: [at, idx, stripe, subs, own] of the entry at
    memory,     \* what each tensor in memory holds, as a set of values
    buffers     \* what the chaining buffers hold

vars == <<graph, list, entries, out, clip, move, phase, walk, memory, buffers>>

Op(i) == graph.ops[i]
Ids == DOMAIN graph.ops

IsNpuOp(i) == Op(i).kind # "cpu"
IsElementwise(i) == Op(i).kind = "elementwise"
IsActivation(i) == Op(i).kind \in {"table", "clip"}
IsReordering(i) == Op(i).kind \in {"transpose", "reverse"}

Tensors == UNION {ToSet(Op(i).in) \cup {Op(i).out} : i \in Ids}
IsConstant(t) == t = "scalar"
IsGraphInput(t) == ~IsConstant(t) /\ \A i \in Ids : Op(i).out # t
IsGraphOutput(t) == t \in ToSet(graph.outputs)

-----------------------------------------------------------------------------
(* Graph::TraverseGraphFromEnd                                             *)

WritersOf(g, t) == SelectSeq([i \in DOMAIN g.ops |-> i], LAMBDA i : g.ops[i].out = t)
Entries(ops) == [k \in DOMAIN ops |-> [done |-> FALSE, op |-> ops[k]]]

\* One turn of the loop: an entry is popped; an operation comes after its inputs.
Popped(g, s) ==
    LET top == Last(s.stack)
        rest == Front(s.stack)
        seen == s.visited \cup {top.op}
        Unvisited(t) == SelectSeq(WritersOf(g, t), LAMBDA i : i \notin seen)
        inputs == FlattenSeq([k \in DOMAIN g.ops[top.op].in |-> Unvisited(g.ops[top.op].in[k])])
    IN  IF top.done THEN [s EXCEPT !.stack = rest, !.order = Append(@, top.op)]
        ELSE IF top.op \in s.visited THEN [s EXCEPT !.stack = rest]
        ELSE [s EXCEPT !.stack = rest \o <<[done |-> TRUE, op |-> top.op]>> \o Entries(inputs),
                       !.visited = seen]

ExecutionList(g) ==
    LET Traversals == [stack : Seq([done : BOOLEAN, op : DOMAIN g.ops]),
                       visited : SUBSET DOMAIN g.ops, order : Seq(DOMAIN g.ops)]
        traverse[s \in Traversals] == IF s.stack = <<>> THEN s.order ELSE traverse[Popped(g, s)]
        writers == FlattenSeq([k \in DOMAIN g.outputs |-> WritersOf(g, g.outputs[k])])
    IN  traverse[[stack |-> Entries(writers), visited |-> {}, order |-> <<>>]]

-----------------------------------------------------------------------------
(* EthosU85OpGroup                                                         *)

ExternalIfms(i) == Cardinality({k \in DOMAIN Op(i).in : ~IsConstant(Op(i).in[k])})

CanStartChain(i) == IsNpuOp(i) /\ Op(i).kind # "resize"

NewGroup(i) ==
    [ops |-> <<i>>, chained |-> <<>>, fused |-> {}, external |-> ExternalIfms(i), length |-> 1,
     moved |-> IsReordering(i)]

\* OperatorQuery for the first operation of the group
SupportsFused(i, kind) ==
    CASE kind = "transpose" -> Op(i).kind # "resize"
      [] kind = "reverse"   -> ~IsElementwise(i)
      [] OTHER              -> TRUE

IsFusing(i) == IsActivation(i) \/ IsReordering(i)

CanFuse(g, i) ==
    /\ g.length = 1 \/ IsActivation(i)
    /\ ~(IsActivation(i) /\ IsActivation(Last(g.ops)))
    /\ ~(IsReordering(i) /\ g.moved)
    /\ SupportsFused(g.ops[1], Op(i).kind)

CanChain(g, i) ==
    /\ CanStartChain(g.ops[1])
    /\ IsElementwise(i)
    /\ ~g.moved
    /\ g.length + 1 <= 4
    /\ g.external + ExternalIfms(i) - 1 <= 3

CanAdd(g, i) == IF IsFusing(i) THEN CanFuse(g, i) ELSE CanChain(g, i)

Added(g, i) ==
    LET link == Op(Last(g.ops)).out
        grown == [g EXCEPT !.ops = Append(@, i)]
    IN  IF IsFusing(i)
        THEN [grown EXCEPT !.fused = @ \cup {link}, !.moved = @ \/ IsReordering(i)]
        ELSE [grown EXCEPT !.chained = Append(@, link), !.length = @ + 1,
                           !.external = @ + ExternalIfms(i) - 1]

IsChained(g, t) == t \in ToSet(g.chained)
IsFused(g, t) == t \in g.fused
NeedsAllocation(g, t) == ~IsChained(g, t) /\ ~IsFused(g, t)

-----------------------------------------------------------------------------
(* PackOperations                                                          *)

\* An operation that is fused is no longer a producer.
IsWriter(i) == \A n \in DOMAIN entries : i \notin ToSet(Tail(entries[n].ops)) \/ ~IsFusing(i)
Producers(t) == {i \in Ids : out[i] = t /\ IsWriter(i)}
Readers(t) == {<<i, k>> \in Ids \X (1..2) : k \in DOMAIN Op(i).in /\ Op(i).in[k] = t}

SinglePath(t) == Cardinality(Producers(t)) = 1 /\ Cardinality(Readers(t)) = 1

CanPack(g, next) ==
    LET link == out[Last(g.ops)]
    IN  /\ IsNpuOp(next)
        /\ link \in ToSet(Op(next).in)
        /\ graph.chaining \/ ~IsElementwise(next)
        /\ SinglePath(link)
        /\ Op(next).fits
        /\ ~IsGraphOutput(out[g.ops[1]]) /\ ~IsGraphOutput(link)
        /\ CanAdd(g, next)

Packs == entries # <<>> /\ IsNpuOp(Last(entries).ops[1]) /\ CanPack(Last(entries), Head(list))

LastNonFused(g) == g.ops[Max({k \in DOMAIN g.ops : k = 1 \/ ~IsFusing(g.ops[k])})]

Init ==
    /\ graph \in Graphs
    /\ list = ExecutionList(graph)
    /\ entries = <<>>
    /\ out = [i \in Ids |-> Op(i).out]
    /\ clip = [i \in Ids |-> IF Op(i).kind = "clip" THEN <<i>> ELSE <<>>]
    /\ move = [i \in Ids |-> IF IsReordering(i) THEN <<i>> ELSE <<>>]
    /\ phase = "pack"
    /\ walk = <<>>
    /\ memory = [t \in Tensors |->
                    IF IsGraphInput(t) \/ IsConstant(t)
                    THEN {[op |-> t, args |-> <<>>, acts |-> <<>>, moves |-> <<>>]} ELSE {}]
    /\ buffers = <<>>

StartEntry ==
    /\ phase = "pack" /\ list # <<>> /\ ~Packs
    /\ entries' = Append(entries, NewGroup(Head(list)))
    /\ list' = Tail(list)
    /\ UNCHANGED <<graph, out, clip, move, phase, walk, memory, buffers>>

Pack ==
    /\ phase = "pack" /\ list # <<>> /\ Packs
    /\ LET next == Head(list)
           g == Last(entries)
           last == LastNonFused(g)
       IN  /\ entries' = Append(Front(entries), Added(g, next))
           /\ out' = IF IsFusing(next) THEN [out EXCEPT ![last] = Op(next).out] ELSE out
           /\ clip' = IF Op(next).kind = "clip" THEN [clip EXCEPT ![last] = <<next>>] ELSE clip
           /\ move' = IF IsReordering(next) THEN [move EXCEPT ![last] = <<next>>] ELSE move
    /\ list' = Tail(list)
    /\ UNCHANGED <<graph, phase, walk, memory, buffers>>

-----------------------------------------------------------------------------
(* ReorderOperations                                                       *)

IsCpu(e) == ~IsNpuOp(e.ops[1])

AllInputsAreGraphInputs(e) ==
    \A t \in ToSet(Op(e.ops[1]).in) : IsConstant(t) \/ IsGraphInput(t)

AllInputsProducersAreEarlyOps(e, early) ==
    \A t \in ToSet(Op(e.ops[1]).in) : \A p \in Producers(t) : \E k \in DOMAIN early : early[k].ops[1] = p

AllOutputsAreGraphOutputs(e) == IsGraphOutput(out[e.ops[1]]) /\ Readers(out[e.ops[1]]) = {}

IsEarly(e, early) == IsCpu(e) /\ (AllInputsAreGraphInputs(e) \/ AllInputsProducersAreEarlyOps(e, early))

Partitioned ==
    FoldLeft(LAMBDA lists, e :
                IF IsEarly(e, lists.early) THEN [lists EXCEPT !.early = Append(@, e)]
                ELSE IF IsCpu(e) /\ AllOutputsAreGraphOutputs(e) THEN [lists EXCEPT !.late = Append(@, e)]
                ELSE [lists EXCEPT !.other = Append(@, e)],
             [early |-> <<>>, late |-> <<>>, other |-> <<>>], entries)

\* mutated: the sub operations of the second are not looked at
IsConnectedToFirst(first, second) == out[first.ops[1]] \in ToSet(Op(second.ops[1]).in)

IsConnected(first, second) == \E i \in ToSet(second.ops) : out[first.ops[1]] \in ToSet(Op(i).in)

\* The CPU operation at p moves down to the next one, or to what reads it.
MovedDown(es, p) ==
    LET Passes(q) == \A k \in (p + 1)..q : ~IsCpu(es[k]) /\ ~IsConnected(es[p], es[k])
        to == Max({q \in p..Len(es) : Passes(q)})
    IN  InsertAt(RemoveAt(es, p), to, es[p])

Reordered ==
    LET lists == Partitioned
        step(es, p) == IF IsCpu(es[p]) THEN MovedDown(es, p) ELSE es
    IN  lists.early
        \o FoldRight(LAMBDA p, es : step(es, p), [p \in DOMAIN lists.other |-> p], lists.other)
        \o lists.late

StartOf(es, n) == [at |-> n, idx |-> -1, stripe |-> es[n].ops[1], subs |-> Tail(es[n].ops), own |-> <<>>]

Reorder ==
    /\ phase = "pack" /\ list = <<>>
    /\ entries' = Reordered
    /\ phase' = "run"
    /\ walk' = StartOf(entries', 1)
    /\ UNCHANGED <<graph, list, out, clip, move, memory, buffers>>

-----------------------------------------------------------------------------
(* GenerateOpGroup, and what the machine does with each operation          *)

\* GenerateActivation: the first activation among the fused sub operations
ActivationOf(g, s, subs) ==
    LET fused == {k \in DOMAIN subs : \A j \in 1..k : IsFused(g, Op(subs[j]).in[1])}
        acts == {k \in fused : IsActivation(subs[k])}
    IN  IF IsActivation(s) THEN <<s>> ELSE IF acts = {} THEN <<>> ELSE <<subs[Min(acts)]>>

Tables(ops) == SelectSeq(ops, LAMBDA i : Op(i).kind = "table")

CbOf(g, t) == CHOOSE c \in DOMAIN g.chained : g.chained[c] = t

\* Activations are pointwise: they commute with reordering, and are kept apart.
Refined(values, acts, moves) == {[v EXCEPT !.acts = @ \o acts, !.moves = @ \o moves] : v \in values}

Fresh(i, args) == {[op |-> ToString(i), args |-> args, acts |-> <<>>, moves |-> <<>>]}

ResultOf(g, s, subs) ==
    LET Read(t) == IF IsChained(g, t) THEN buffers[CbOf(g, t)] ELSE memory[t]
        args == [k \in DOMAIN Op(s).in |-> Read(Op(s).in[k])]
    IN  Refined(IF IsFusing(s) THEN args[1] ELSE Fresh(s, args),
                clip[s] \o Tables(ActivationOf(g, s, subs)), move[s])

\* Where a result goes: a chaining buffer, or the tensor in memory.
Store(g, t, result) ==
    IF IsChained(g, t)
    THEN /\ buffers' = (CbOf(g, t) :> result) @@ buffers
         /\ UNCHANGED memory
    ELSE /\ memory' = [memory EXCEPT ![t] = @ \cup result]
         /\ UNCHANGED buffers

\* One turn of the loop of GenerateOpGroup.
GenerateStripe ==
    /\ phase = "run"
    /\ LET g == entries[walk.at]
           enters == walk.idx >= 0 /\ IsChained(g, out[walk.stripe])
           stripe == IF enters THEN walk.subs[walk.idx + 1] ELSE walk.stripe
           isPrimary == stripe = g.ops[1]
           fuses == walk.idx + 1 < Len(walk.subs) /\ IsFused(g, Op(walk.subs[walk.idx + 2]).in[1])
           pushed == IF fuses /\ walk.idx >= 0 THEN <<walk.subs[walk.idx + 2]>> ELSE <<>>
           subs == IF isPrimary THEN walk.subs \o pushed ELSE walk.subs
           own == (IF enters THEN <<>> ELSE walk.own) \o (IF isPrimary THEN <<>> ELSE pushed)
           idx == walk.idx + (IF fuses THEN 2 ELSE 1)
       IN  /\ Store(g, out[stripe], ResultOf(g, stripe, IF isPrimary THEN subs ELSE own))
           /\ IF idx < Len(subs)
              THEN walk' = [walk EXCEPT !.idx = idx, !.stripe = stripe, !.subs = subs, !.own = own]
                   /\ UNCHANGED phase
              ELSE IF walk.at < Len(entries)
              THEN walk' = StartOf(entries, walk.at + 1) /\ UNCHANGED phase
              ELSE walk' = <<>> /\ phase' = "done"
    /\ UNCHANGED <<graph, list, entries, out, clip, move>>

Next == StartEntry \/ Pack \/ Reorder \/ GenerateStripe

Spec == Init /\ [][Next]_vars

-----------------------------------------------------------------------------
(* Properties                                                              *)

TypeOK ==
    /\ DOMAIN graph = {"ops", "outputs", "chaining"}
    /\ list \in Seq(Ids)
    /\ entries \in Seq([ops : Seq(Ids) \ {<<>>}, chained : Seq(Tensors), fused : SUBSET Tensors,
                        external : 0..3, length : 1..4, moved : BOOLEAN])
    /\ out \in [Ids -> Tensors]
    /\ clip \in [Ids -> Seq(Ids)] /\ move \in [Ids -> Seq(Ids)]
    /\ phase \in {"pack", "run", "done"}
    /\ walk # <<>> => walk.at \in DOMAIN entries /\ walk.stripe \in Ids /\ walk.idx \in -1..8
    /\ DOMAIN memory = Tensors

\* What the operations of the graph compute, one by one.
ValueOf ==
    LET value[i \in Ids] ==
            LET Of(t) == IF IsGraphInput(t) \/ IsConstant(t) THEN memory[t]
                         ELSE UNION {value[j] : j \in {k \in Ids : Op(k).out = t}}
                args == [k \in DOMAIN Op(i).in |-> Of(Op(i).in[k])]
            IN  IF IsActivation(i) THEN Refined(args[1], <<i>>, <<>>)
                ELSE IF IsReordering(i) THEN Refined(args[1], <<>>, <<i>>)
                ELSE Fresh(i, args)
    IN  value

\* However the operations were packed, reordered and fused, every tensor that
\* has memory holds at the end what the graph says, each of its parts
\* (PackOperations, ReorderOperations, GenerateOpGroup).
ComputesGraph ==
    phase = "done" =>
        \A t \in Tensors :
            ~IsGraphInput(t) /\ ~IsConstant(t) /\ (\A n \in DOMAIN entries : NeedsAllocation(entries[n], t))
            => memory[t] = UNION {ValueOf[i] : i \in {k \in Ids : Op(k).out = t}}

\* A group never outgrows the arrays of EthosU85OpGroup.
GroupsFit == \A n \in DOMAIN entries : Len(entries[n].ops) <= 8

=============================================================================
