----------------------------- MODULE LiveRanges -----------------------------
(***************************************************************************)
(* The live ranges of one memory area (live_range.cpp): the scheduled      *)
(* operations are visited in order, every operation or cascade takes two   *)
(* slots of time, tensors that are allowed to share an address share a     *)
(* range, and command workspace is reserved in runs of equal usage         *)
(* (tensor_allocator.cpp).  Sizes are left to the allocator.               *)
(***************************************************************************)
EXTENDS Integers, Sequences, FiniteSets, FiniteSetsExt, SequencesExt

CONSTANTS
    Schedules,   \* the scheduled programs
    Never        \* numeric_limits<int>::max()

(***************************************************************************)
(* A schedule has operations [reads, writes, elementwise, npu, cascade,    *)
(* alias, parts, slices, preBuffer]: reads lists the IFMs, the primary one *)
(* first, cascade is 0 or the last operation of its cascade, alias says    *)
(* that ofmEquivalenceId names the primary IFM.                            *)
(***************************************************************************)

VARIABLES
    schedule,
    pos,          \* the operation visited next
    time,         \* _currentTime
    ranges,       \* _lrs: [start, end, tensors, bytes]
    rangeOf,      \* _equivalenceIdToLr, 0 for none
    opTime,       \* timeIndex of the operations visited
    kept,         \* graphOutputRanges and persistentRanges
    run,          \* start, bytes and time of the workspace loop
    phase         \* "extract", "reserve", "done"

vars == <<schedule, pos, time, ranges, rangeOf, opTime, kept, run, phase>>

Ops == DOMAIN schedule.ops
Op(i) == schedule.ops[i]

Part(i, p) == <<"part", i, p>>
Parts == {Part(i, p) : i \in Ops, p \in 0..1}
Tensors == UNION {{Op(i).writes} \cup Range(Op(i).reads) : i \in Ops}

Consumers(t) == {i \in Ops : t \in Range(Op(i).reads)}
Producers(t) == {i \in Ops : Op(i).writes = t}

\* The mid-cascade inputs, which CascadeInfo has a buffer for.
IsCascaded(i) == Op(i).cascade # 0
IsCascadeStart(i) == i = Min({j \in Ops : Op(j).cascade = Op(i).cascade})
HasRollingInput(i) == IsCascaded(i) /\ ~IsCascadeStart(i)
RollingInput(i) == IF HasRollingInput(i) THEN {Op(i).reads[1]} ELSE {}

\* ShouldBeIgnored
IsHere(t) == t \in schedule.here
Included(i, t) == IsHere(t) \/ (schedule.addRollingBuffers /\ t \in RollingInput(i))

-----------------------------------------------------------------------------
(* The graph of live ranges, as a value g = [ranges, rangeOf]              *)

NewRange(t) == [start |-> Never, end |-> -1, tensors |-> {t}, bytes |-> 0]

GetOrCreateRange(g, t) ==
    IF g.rangeOf[t] # 0
    THEN [g EXCEPT !.ranges[g.rangeOf[t]].tensors = @ \cup {t}]
    ELSE [ranges  |-> Append(g.ranges, NewRange(t)),
          rangeOf |-> [g.rangeOf EXCEPT ![t] = Len(g.ranges) + 1]]

MarkUsage(g, r, opTime_, duration) ==
    LET first == Max({opTime_, 0})
        last  == opTime_ + duration
    IN  IF last < first THEN g
        ELSE [g EXCEPT !.ranges[r].start = Min({@, first}), !.ranges[r].end = Max({@, last})]

\* A range that outTens had already loses its tensors, not its times.
FuseRanges(g, inTens, outTens) ==
    LET h == GetOrCreateRange(g, inTens)
        r == h.rangeOf[inTens]
        old == h.rangeOf[outTens]
        moved == IF old = 0 THEN {} ELSE h.ranges[old].tensors
        emptied == IF old = 0 THEN h.ranges ELSE [h.ranges EXCEPT ![old].tensors = {}]
    IN  [ranges  |-> [emptied EXCEPT ![r].tensors = @ \cup moved \cup {outTens}],
         rangeOf |-> [h.rangeOf EXCEPT ![outTens] = r]]

\* mutated: the input may have other readers
CanReuseWhileRead(ifm, ofm) ==
    /\ ifm \notin schedule.outputs /\ {ifm, ofm} \cap schedule.persistent = {}
    /\ Cardinality(Producers(ofm)) = 1

CanReuseIFMTensors(ifm, ofm) ==
    /\ ifm \notin schedule.outputs /\ {ifm, ofm} \cap schedule.persistent = {}
    /\ Cardinality(Consumers(ifm)) = 1 /\ Cardinality(Producers(ofm)) = 1

ReusableIFMs(i) ==
    IF ~Op(i).elementwise \/ ~IsHere(Op(i).writes) THEN {}
    ELSE {k \in DOMAIN Op(i).reads :
             CanReuseIFMTensors(Op(i).reads[k], Op(i).writes) /\ IsHere(Op(i).reads[k])}

\* The input whose range the output takes over, if there is one.
ReusedInput(i) ==
    IF ~Op(i).npu THEN {}
    ELSE IF Op(i).alias /\ (schedule.addRollingBuffers \/ IsHere(Op(i).writes)) THEN {Op(i).reads[1]}
    ELSE IF schedule.reuseIfms /\ ~IsCascaded(i) /\ ReusableIFMs(i) # {}
    THEN {Op(i).reads[Min(ReusableIFMs(i))]}
    ELSE {}

WithReuse(g, i) ==
    IF ReusedInput(i) = {} THEN g
    ELSE FuseRanges(g, CHOOSE t \in ReusedInput(i) : TRUE, Op(i).writes)

-----------------------------------------------------------------------------
(* ExtractLiveRangesFromCascades                                           *)

Init ==
    /\ schedule \in Schedules
    /\ pos = 1 /\ time = 0 /\ ranges = <<>>
    /\ rangeOf = [t \in Tensors \cup Parts |-> 0]
    /\ opTime = <<>>
    /\ kept = [outputs |-> {}, persistent |-> {}]
    /\ run = [start |-> 0, bytes |-> 0, at |-> 0]
    /\ phase = "extract"

\* A cascade has the time of its first operation.
SlotOf(i) == IF IsCascaded(i) /\ ~IsCascadeStart(i)
             THEN opTime[Min({j \in Ops : Op(j).cascade = Op(i).cascade})]
             ELSE time

\* A part that the last slice does not use is released one slot earlier.
BufferDuration(i, p) ==
    (IF p = 0 /\ Op(i).preBuffer THEN 2 ELSE 1)
      - (IF p # (Op(i).slices - 1) % Op(i).parts THEN 1 ELSE 0)

WithParts(g, i, slot) ==
    FoldLeft(LAMBDA h, p :
                LET k == GetOrCreateRange(h, Part(i, p))
                    begin == IF p = 0 /\ Op(i).preBuffer THEN slot - 1 ELSE slot
                IN  MarkUsage(k, k.rangeOf[Part(i, p)], begin, BufferDuration(i, p)),
             g, [k \in 1..Op(i).parts |-> k - 1])

\* mutated: a graph input is alive from its first reader on
MarkedLate(g, t) == g

MarkedFromStart(g, t) ==
    IF t \in schedule.inputs THEN MarkUsage(g, g.rangeOf[t], 0, 1) ELSE g

WithTensors(g, i, slot) ==
    FoldLeft(LAMBDA h, t :
                LET k == MarkedFromStart(GetOrCreateRange(h, t), t)
                IN  MarkUsage(k, k.rangeOf[t], slot, 1),
             g, SelectSeq(Append(Op(i).reads, Op(i).writes), LAMBDA t : Included(i, t)))

VisitOp ==
    /\ phase = "extract" /\ pos <= Len(schedule.ops)
    /\ LET slot == SlotOf(pos)
           g == [ranges |-> ranges, rangeOf |-> rangeOf]
           result == WithTensors(WithParts(WithReuse(g, pos), pos, slot), pos, slot)
           touched == {t \in {Op(pos).writes} \cup Range(Op(pos).reads) : Included(pos, t)}
           RangesOf(S) == {result.rangeOf[t] : t \in touched \cap S}
       IN  /\ ranges' = result.ranges /\ rangeOf' = result.rangeOf
           /\ opTime' = Append(opTime, slot)
           /\ kept' = [outputs    |-> kept.outputs \cup RangesOf(schedule.outputs),
                       persistent |-> kept.persistent \cup RangesOf(schedule.persistent)]
           /\ time' = IF slot = time THEN time + 2 ELSE time
    /\ pos' = pos + 1
    /\ UNCHANGED <<schedule, run, phase>>

EndTime == time + 1

Finish ==
    /\ phase = "extract" /\ pos > Len(schedule.ops)
    /\ LET g == [ranges |-> ranges, rangeOf |-> rangeOf]
           held == FoldSet(LAMBDA r, h : MarkUsage(h, r, time, 1), g, kept.outputs)
       IN  ranges' = FoldSet(LAMBDA r, h : MarkUsage(h, r, 0, EndTime), held, kept.persistent).ranges
    /\ time' = EndTime
    /\ phase' = "reserve"
    /\ UNCHANGED <<schedule, pos, rangeOf, opTime, kept, run>>

-----------------------------------------------------------------------------
(* Allocate: the command workspace                                         *)

Times == Min({Len(schedule.workspace), time + 1})

UsedAt(t) == IF t < Times THEN schedule.workspace[t + 1] ELSE 0

ReservedRange == [start |-> run.start, end |-> run.at - 1, tensors |-> {}, bytes |-> run.bytes]

ReserveWorkspace ==
    /\ phase = "reserve"
    /\ LET ends == UsedAt(run.at) # run.bytes
       IN  /\ ranges' = IF ends /\ run.bytes > 0 THEN Append(ranges, ReservedRange) ELSE ranges
           /\ run' = IF ends THEN [start |-> run.at, bytes |-> UsedAt(run.at), at |-> run.at + 1]
                     ELSE [run EXCEPT !.at = @ + 1]
    /\ phase' = IF run.at = Times THEN "done" ELSE "reserve"
    /\ UNCHANGED <<schedule, pos, time, rangeOf, opTime, kept>>

Next == VisitOp \/ Finish \/ ReserveWorkspace

Spec == Init /\ [][Next]_vars

-----------------------------------------------------------------------------
(* Properties                                                              *)

\* Every range is alive for some time and inside the times of the graph
\* (asserted by GetTemporalMemoryUsage and AddReservedRange).
TypeOK ==
    /\ pos \in 1..(Len(schedule.ops) + 1) /\ time \in Nat
    /\ rangeOf \in [Tensors \cup Parts -> 0..Len(ranges)]
    /\ phase # "extract" =>
          \A r \in DOMAIN ranges :
              ranges[r].tensors # {} \/ ranges[r].bytes > 0 => ranges[r].start \in 0..ranges[r].end
                                                              /\ ranges[r].end <= time

Alive(t, slot) ==
    /\ rangeOf[t] # 0
    /\ slot \in ranges[rangeOf[t]].start..ranges[rangeOf[t]].end

\* The slots in which an operation runs; the second is that of its last slice,
\* beside which the next operation's weights are fetched.
RunsIn(i) == {opTime[i], opTime[i] + 1}

\* Slice k of the weights is in part k % parts; the first slice may be fetched
\* beside the operation before.
PartSlots(i, p) ==
    LET slices == {k \in 0..(Op(i).slices - 1) : k % Op(i).parts = p}
    IN  (IF slices # {} THEN {opTime[i]} ELSE {})
          \cup (IF Op(i).slices - 1 \in slices THEN {opTime[i] + 1} ELSE {})
          \cup (IF 0 \in slices /\ Op(i).preBuffer /\ opTime[i] > 0 THEN {opTime[i] - 1} ELSE {})

\* From its first to its last use, as operand, weight part, graph input, graph
\* output or state, a tensor has a range that is alive, and so has the command
\* workspace where it is used: whatever else is alive then is placed elsewhere
\* (ExtractLiveRangesFromCascades, Allocate).
CoversUses ==
    phase = "done" =>
        /\ \A i \in Ops, t \in schedule.here \cap Tensors :
              t \in {Op(i).writes} \cup Range(Op(i).reads) =>
                  /\ \A slot \in RunsIn(i) : Alive(t, slot)
                  /\ t \in schedule.inputs => Alive(t, 0)
                  /\ t \in schedule.outputs => Alive(t, time)
                  /\ t \in schedule.persistent => \A slot \in 0..time : Alive(t, slot)
        /\ \A i \in Ops : \A p \in 0..(Op(i).parts - 1) :
              \A slot \in PartSlots(i, p) : Alive(Part(i, p), slot)
        /\ \A slot \in 0..time :
              slot < Len(schedule.workspace) /\ schedule.workspace[slot + 1] > 0 =>
                  \E r \in Range(ranges) :
                      /\ r.tensors = {} /\ r.bytes >= schedule.workspace[slot + 1]
                      /\ slot \in r.start..r.end

MadeBefore(t, i) == t \in schedule.inputs \/ \E j \in Producers(t) : j < i

\* Tensors that share a range share their bytes: an operation that writes one
\* never destroys another that is still to be read, nor a graph output or
\* state, and only an elementwise operation writes over what it reads.
SharingIsSafe ==
    phase = "done" =>
        \A a, b \in Tensors : \A w \in Producers(b) :
            a # b /\ rangeOf[a] # 0 /\ rangeOf[a] = rangeOf[b] /\ MadeBefore(a, w) =>
                /\ a \notin schedule.outputs \cup schedule.persistent
                /\ \A r \in Consumers(a) : r < w \/ (r = w /\ Op(w).elementwise)
                /\ \A r \in Consumers(a) :
                      Op(r).cascade = Op(w).cascade /\ IsCascaded(w) =>
                          \A i \in r..w : Op(i).elementwise

=============================================================================
