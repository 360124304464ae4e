# A TLA+ model of the Neural-AI and Ethos-U85 compiler

The repository is a compiler for neural networks: the upstream *regor* compiler for Ethos-U,
extended with a Neural-AI backend. The modules here model the decisions whose mistakes are hard
to see in a test: which tensor lies where and for how long, what is already in local memory, in
which order stripes and commands run, and what may run beside what.

    scheduler: packing into groups, decomposition, weight buffering, stripes, cascade builder
        -> live ranges -> fast storage -> hill climbing allocator
        -> high level stream: stripes of a cascade, padding, weight transfers
    Neural-AI:  generator (workspaces, staged rows, spilled convolutions, linebuffer planner)
        -> OptimizeDMAResidency -> OptimizeQParamResidency -> OptimizeAFULutResidency
        -> BuildCommandDependencyGraph -> ScheduleGlobalCommandStream
        -> CompactAffineCommandStream -> writer
    Ethos-U85:  register stream of each group (waits, lookup tables, fused operations)

Paths below are relative to `src/ethosu/regor/compiler/` unless they begin with `src/`.

## 1. Inventory

For each component: the state it keeps, what it does to it, why it is hard, what makes it correct.

**Semantic commands and dependency graph** (`neural_ai_command_ir.{hpp,cpp}`). The records; while
the graph is built the last fence, and per configuration state the last writer and the readers
since; while content is annotated, spans and a write counter per storage. State edges are not drawn
between all pairs, so order relies on paths; spans nest and cut one another. *Correct when* exactly
the pairs whose order can be observed are ordered, and each word read names its last writer.

**Residency passes** (`neural_ai_command_scheduler.cpp:140-337`). The transfers, the parameter
block and the table known to be resident; per command: drop, rewrite or keep it. What is resident
goes stale through writes to a transfer's *source* and other users of the LUT banks. *Correct when*
no remaining command can tell that anything was dropped.

**Global scheduler** (`neural_ai_command_scheduler.cpp:340-612`). Indegrees, the ready set, per queue
the submitted jobs no wait has covered, an estimated clock. A submitted job overlaps everything
emitted before the next wait of its queue. *Correct when* the machine running the result computes
what the blocking stream computes, and ends.

**Command memory state** (`neural_ai_memory_state.hpp`). Spans of known content in TCDM, asked by
the generator which rows or weights need no new transfer. *Correct when* every query answers as a
word-by-word memory would.

**Affine compactor** (`neural_ai_command_compactor.cpp`). Best score per prefix, the output, the
expansion. 32-bit wrap, flat patch offsets, ties and overlaps of candidates. *Correct when* the
expansion is the stream, the choice is the best one, and a damaged stream is refused.

**Live ranges and allocators** (`live_range.cpp`, `tensor_allocator.cpp`, `hillclimb_allocator.cpp`).
Per tensor a range of time, ranges fused when a tensor may take over another's bytes, ranges
reserved for command workspace; then an order of ranges permuted by a search that stops passes early
and undoes what did not help, or addresses in a row; read-only tensors go behind those of the graphs
compiled before. *Correct when* every use lies in a live range, sharing destroys nothing
that is still read, and ranges alive together never overlap.

**Fast storage** (`faststorage_allocator.cpp`). Memory usage per time step, followed incrementally
through a backtracking search over components of competing ranges; a pass over elementwise
operations afterwards. *Correct when* usage stays exact and within the limit, the choice is the
best, and operands end in one memory.

**Cascade builder** (`cascade_builder.cpp`). A candidate cascade and its buffers, grown operation by
operation, with the best extent remembered on the way. *Correct when* the recorded size is the size
of what is recorded, and a cascade lowers the peak.

**Linebuffer planner** (`src/ethosu/regor/architecture/neuralai/neural_ai_linebuffer_planner.cpp`).
Tiles of a convolution under three limits. *Correct when* jobs cover the output once and each tap
reads the right pixel.

**Generator: staging and workspaces** (`neural_ai_command_generator.cpp`). Rows staged in TCDM with
padding and halo, claims about rows of earlier stripes, partial sums of several input groups,
workspaces kept while the operations of a cascade take turns. *Correct when* every claim is true, and
every stripe reads its own rows, weights and partial sums.

**Rolling cascades** (`high_level_command_stream_generator.cpp`, `scheduler.cpp`,
`src/ethosu/regor/architecture/neuralai/neural_ai.cpp`). Rows produced and consumed through rings,
operations interleaved stripe by stripe. *Correct when* no row is overwritten before its last reader
and the walk produces every stripe.

**Weight buffering** (`scheduler.cpp`, `high_level_command_stream_generator.cpp`). Weights in slices,
single or double buffers sized by the largest slice of each half, buffers shared by operations that
follow one another. *Correct when* a slice is there when it is read, and the loop over sizes ends.

**Decomposition** (`scheduler_decompose.cpp`). A convolution the Ethos-U85 cannot run becomes several:
every n-th row, blocks of rows, single taps summed in the accumulators; padding follows later from
each part. *Correct when* the parts together compute the convolution.

**Packing** (`scheduler_packing.cpp`, `EthosU85OpGroup` in
`src/ethosu/regor/architecture/ethosu85/ethos_u85.cpp`). The list of operations, the groups grown from
it, producers and readers of each tensor, which change as operations are fused; then CPU operations
move. Whether a tensor may vanish into a group depends on all its readers and writers, and whether an
operation may move on every operation inside a group. *Correct when* the groups in their final order
compute the graph.

**Ethos-U85 stream** (`src/ethosu/regor/architecture/ethosu85/ethos_u85_register_cs_generator.cpp`).
Outstanding operations per engine, how many jobs of two kernel operations may overlap (BLOCKDEP), and
which table is in which slot. *Correct when* no operation runs beside one it conflicts with, no job
reads what is still to be written, and each operation finds its table.

**External**: the Neural-AI command processor and the Ethos-U85, modelled from what the code
relies on (queue order, one preloaded systolic job, waits that count, accumulators that are kept).

### Not modelled, with the reason

| component | reason |
|---|---|
| TCDM placement, Neural-AI constraints, performance model | stateless decisions or reports; placement enters as inputs (`external`, `spillOut`) |
| graph optimisers (Neural-AI, TFLite, TOSA, GraphIR), readers | rewriting of single operators and file formats: data, no concurrency or lasting state |
| search for block sizes and costs in `scheduler.cpp` | cost-driven, its result is an input of the modules that use it |
| tests of shapes, slices and scales in `CanPack`, `PrePackOperations`, traversal of graphs with persistent tensors | a group is refused or an operation changed by its data alone: the tests are one input `fits` per operation |
| decomposition of other operators | one rewriting rule per operator; the convolution is the one with state carried from part to part |
| Ethos-U55/U65, register encodings, block configuration | generated tables and layout; two thirds of the repository's lines are such tables, generated schemas and vendored code |
| `AnnotateState` | read by no later pass but the validation |
| writer, Python driver, weight codec, vendored code | I/O or third party |

## 2. Modules

| module | models | state and actions |
|---|---|---|
| `CommandIR` | records and their conflicts | constructors per group of decoded commands, `Hazard`, the loop-free graph `DependencyEdges` |
| `DependencyGraph` | `BuildCommandDependencyGraph` | `lastFence`, `lastWriter`, `readers`, `edges`; `Visit` per command |
| `ContentAnnotation` | `AnnotateContent` | `stored`, `generation`, `content` beside a word-by-word reference; an action per access |
| `DMAResidency`, `StateResidency` | the residency passes | `resident` and the output, beside the memories and states both streams would leave |
| `CommandPasses` | `OptimizeGlobalCommandSchedule` up to the scheduler | composes the four above: each pass works on the stream the one before left |
| `BlockingStream` | what a blocking stream promises (abstract) | `Execute(i)` when every earlier command it has a hazard with is done |
| `GlobalScheduler` | `ScheduleGlobalCommandStream` | `Emit`, `InsertWait`, `Drain`, `Finish` |
| `CommandProcessor` | the machine (external) | fetch, job queues, engines, memory |
| `ScheduledExecution` | compiler, then machine | composes the two; refines `BlockingStream` with `done <- finished` |
| `MemoryState` | `CommandMemoryState` | `spans` beside the words they describe |
| `AffineCompactor` | compaction and expansion | `Plan`, `Emit*`, `Expand*`, `Reject` |
| `LiveRanges` | `ExtractLiveRangesFromCascades`, reserved workspace | `VisitOp`, `Finish`, `ReserveWorkspace` |
| `HillClimb` | `HillClimbAllocator` | `AllocateLr` per range, `EndPass` keeps or undoes, `AttemptBottleneckFix` swaps |
| `Allocation` | any allocation without overlap (abstract) | one step: addresses appear |
| `TensorAllocation` | `Allocate`, `IncrementalLinearAllocator` | composes `LiveRanges` with `HillClimb` or a linear placement; refines `Allocation` |
| `FastStorage`, `ElementwiseSanitizer` | `AllocateFeatureMaps` and its search, the pass after it | usage `base` and `peak`, the recursion as a `path`, `best`; one action per branch taken |
| `CascadeBuilder` | `BuildCascades` | `chain` grown by `GrowSpilled` or `GrowResident`, `cascades`, `stagingPeak` |
| `LinebufferJobs`, `LinebufferPlan` | `LinebufferPlanner` | pure job arithmetic, and the loop that emits jobs |
| `StripeStaging` | staging of rows with claims | operators on TCDM and claims, shared by the next two |
| `SpilledLinebuffer` | `AppendSpilledLinebuffer` | `LoadResident`, `Accumulate`, `Store`, on TCDM, partial sums and the output |
| `RollingCascade` | the walk over the stripes of a cascade | `opIndex`, `next` stripe per operation, `rolling` rows; `EmitStripe`, `StepBack` |
| `CascadeWorkspaces` | `SelectWorkspace`, reservations, staging in a cascade | extends `RollingCascade` by TCDM and its claims |
| `WeightBuffering` | `ProposeWeightBuffering`, `CoalesceWeightBufferTensors`, `GenerateWeightDMA` | `plans` per operation, then `streams` of transfers and stripes that `RunCommand` interleaves |
| `ConvDecomposition` | `DecomposeConv2D` | `pending`, `code`; then the parts run with accumulators |
| `OpGroups` | `TraverseGraphFromEnd`, `PackOperations`, `ReorderOperations`, `EthosU85OpGroup`, `GenerateOpGroup` | `list`, `entries`, `out`; `StartEntry`, `Pack`, `Reorder`, then `GenerateStripe` runs each operation emitted on `memory` and `buffers` |
| `BlockDependency` | `CalcBlockDep` | `blockdep` of one operation after another; then jobs finish (`left`) and start (`started`) as far as it allows |
| `NpuWaits`, `LutSlots` | waits and tables of the Ethos-U85 | generator and machine side by side |

and the proofs, each beside the module it is about:

| module | proves about |
|---|---|
| `CommandIRProofs` | streams and `DependencyEdges` |
| `CommandPassesProofs` | `DependencyGraph`, the residency passes and their composition |
| `ScheduledExecutionProofs` | `GlobalScheduler`, then the abstract blocking stream and the machine that runs what the scheduler emits |
| `HillClimbProofs` | the search and its refinement of `Allocation` |
| `StagingMemoryProofs` | the search of `FastStorage`, `ElementwiseSanitizer` and `CascadeBuilder` |
| `LocalMemoryProofs` | the walk of `RollingCascade`, the reservation of `CascadeWorkspaces`, the queries of `MemoryState` |
| `EthosU85Proofs` | `NpuWaits`, generator and machine together; the tables of `LutSlots` |
| `FiniteSetLemmas` | sums, maxima and least elements of finite sets, used by the others |

An address is a word, a row or a unit of depth, whichever the component compares. A memory cell holds
*who wrote it* (or which row or product), so that executions agreeing on cells agree on the data.
Cycle estimates are kept only where they choose, and saturate at `InfiniteCycles`.
`ConvDecomposition` follows one axis, since the code treats height and width alike and apart. Each
module with a state of its own has a type invariant; those of `DependencyGraph`, `GlobalScheduler`,
`ScheduledExecution`, `HillClimb`, `FastStorage`, `CascadeBuilder`, `RollingCascade` and `NpuWaits` are
proved, the others can be added to a cfg and hold.

## 3. Runs

Where a component needs no interaction with another, its model runs beside others as a *part* of one
MC module: a behaviour runs one part, and a property names its part.

| run | question | instance |
|---|---|---|
| `command_passes` | no dropped load missed; the graph orders every hazard and nothing else; reads annotated exactly; compaction: round trip, best plan, damage refused | every stream of up to 4 commands over four alphabets: ten copy shapes, eleven users of parameters and tables, nine users of state, seven crossing intervals. A stale reader needs three commands, a stale resident load four. Compaction: 5 commands over six and joined runs up to 15; 8-bit words, 2 patches, bodies of 2, records of 40 words: each limit is met |
| `scheduled_execution` | every interleaving of the engines refines the blocking stream, without race, and ends | 4 commands over two alphabets, seven streams of 5-8 that fill queues; `DMAQueueDepth = 2`, `Banks = 4`, `InfiniteCycles = 12`, so that full queues, bank conflicts and saturation occur |
| `local_memory` | spans answer exactly; jobs cover and read right; spilled convolutions are exact, claims true | spans: 4 words, 2 contents, 2 offsets. Planner: kernels 1 and 3, strides 1 and 2, each padding, three layouts, three job limits. Spilled: 3x3, up to 3 input and 2 output groups, stripes of 1-4 rows |
| `tensor_allocation` | uses covered, sharing safe, no overlap | three operations with reuse, state, cascades, weights, CPU and workspaces; the search alone on every multiset of 4 short ranges and three lists where the heuristic is not optimal; read-only tensors from address 0 and behind 3 others |
| `staging_memory` | fast storage: usage exact, kept fits, best choice, one memory per elementwise operation; cascades: sizes recorded, peaks lowered and covered | 4 ranges over 4 times, limit of two or three of them, a context switch, components of at most 2 so that the division happens; cascades of 4 operations with growing and shrinking maps, skips, branches, three kinds of memory |
| `cascade_workspaces` | rows, weights and claims hold through a cascade; the walk is complete; reservations suffice | 2-3 operations in 7-20 rows of memory, where workspaces meet; inputs of 6-12 rows, where rings wrap |
| `ethosu85_stream` | waits, block dependency, tables, weight slices, decomposed convolutions, packed groups; slicing ends | streams of 5 commands, 2 outstanding per engine; some 5000 pairs of kernel operations on maps of up to 40 elements, kernels to 3, steps, slices and broadcasts, with every BLOCKDEP from 0 to 7; tables of 1, 2 and 4 slots in 4, those alike in one order; weights of 2-8 units; convolutions of up to 14 rows (58 beyond `MaxAxis`), 5 taps, strides to 6, dilations to 4; every graph of four operations of five kinds in the order of the traversal, rows of three of nine kinds, chains of 7 and 10 |
| `wide_rows` | *violated* | rows of 14 pixels, 12 partial sums, 2 input groups |
| `staged_weights` | *violated* | two convolutions with a lookup between |
| `lut_group` | *violated* | one group with two tables |
| `fused_twice` | *violated* | a convolution, a clipping, a transposition and a table |
| `two_views` | *violated* | 8 rows written one by one, then their halves added |

The real constants (queues of 16, axes of 65536, strides to 3, the tile limits of the planner) enter
no comparison but those the small ones exercise as well. `CHECK_DEADLOCK FALSE` is set everywhere since every pass ends.

**Fairness.** The compiler is sequential code that is not suspended for ever: weak fairness of its
next step. The machine has weak fairness of fetching and of each engine's start and end; nothing is
assumed about the order between engines. `MachineEnds` and `SlicingTerminates` use this; all other
properties are safety.

## 4. What the checks found

Five runs show the code at odds with what it says:

* `wide_rows`: `AppendSpilledLinebuffer` (`neural_ai_command_generator.cpp:4623`) gives all jobs of a
  stripe the same `psumBase` before the next input group accumulates, so one job sums onto another's.
* `staged_weights`: `SelectWorkspace` (`:1385`) keeps only stage and halo of *earlier* operations free;
  the weights of a later one, loaded once (`:4443`), are overwritten by the next stripe of an earlier one.
* `lut_group`: the tables of one group are loaded before it runs, and the second may take the slot of
  the first (`ethos_u85_register_cs_generator.cpp:1654`).
* `fused_twice`: `Fuse` (`ethos_u85.cpp:1491`) looks for an activation only in the operation right before,
  so a group may fuse an activation, a transposition and another activation; `GenerateActivation` takes
  the first, *"There can be only one fused activation"*, and the second is lost.
* `two_views`: `CalcBlockDep` (`ethos_u85_register_cs_generator.cpp:881`) compares the jobs of one input
  only. When both are slices of what the operation before wrote (`graphir_optimiser.cpp:3374`), a job may
  read rows of the other that are not written yet.

Other disagreements met while modelling. The inputs of the passing runs leave these cases out, or
their properties do not depend on them:

| where | what the code does | where it says otherwise |
|---|---|---|
| `faststorage_allocator.cpp:94` | narrows an access count to `int`: a range beyond 2^31 counts as negative (`ScoreBits`) | `:287-288` |
| `faststorage_allocator.cpp:444` | keeps an operand that another kind of operation reads, beside operands in slow memory (`SameMemoryUnlessShared` leaves out shared ones) | `:397` |
| `neural_ai_command_generator.cpp:4655` | writes a local output stripe without withdrawing the claims on its bytes (excluded: a shorter last stripe) | `neural_ai_memory_state.hpp:29`, cf. `:4466` |
| `neural_ai_command_generator.cpp:4346` | refuses a cascade whose stripe straddles the end of a ring | `neural_ai.cpp:350-351` |
| `ethos_u85_register_cs_generator.cpp:1621`, `:1606` | follows slots in command order across branches; keeps one slot per operation for all its stripes | `:645-646` |
| `ethos_u85_register_cs_generator.cpp:803-814` | estimates jobs of the input that follow one another at the distance of their own size, the kernel included; where the stride is larger than the kernel the real ones are further apart, and BLOCKDEP may be too large (1x1, stride 2) | `:932-933` |
| `scheduler.cpp:1819` | never ends where the depth granule is larger than `OFM_SPLIT_DEPTH` | `:1808-1809` |
| `scheduler_decompose.cpp:664-673` | sizes the input of a block with a kernel not spread by the input step: the last block of a dilated and divided convolution may lose rows (13 rows, 3 taps, stride 4, dilation 3, padding 3 and 3, blocks of 2) | the replaced convolution |
| `scheduler_decompose.cpp:472-475` | overestimates the bottom padding of a block by up to stride - 1: rows are lost for strides 2 and 3 beyond the largest axis, and for larger strides with more padding than SAME gives | the replaced convolution |
| `ethos_u85_register_cs_generator.cpp:2043-2089` | emits an operation with two fused sub operations (an activation and a reordering) twice; the second time changes nothing | `:2052`, "fuse next subOp" |
| `scheduler_packing.cpp:661-678` | makes more groups of CPU operations where an early one is taken out in front of an NPU operation whose reader is the next CPU operation (NPU, CPU, CPU becomes CPU, NPU, CPU) | `:634`, "so that there are fewer groups" |
| `neural_ai_command_scheduler.cpp:520` | waits for a queue although no command is blocked, when the bank penalty defers all | `neural_ai_command_scheduler.hpp:70-73` |
| `neural_ai_command_ir.cpp:741` | gives a strided copy its source's identity | `:738-740` |

`FuseOneSystolicBinaryPostOp` is never enabled and is not modelled.

## 5. Proofs

The theorems hold for all values of the constants that satisfy the assumptions: every stream of
decoded commands, every queue depth and number of banks, every list of live ranges, every workload, every network of
operations.

**Streams** (`CommandIRProofs`). `EdgesReachEveryHazard`: a set of commands closed backwards under
`DependencyEdges` contains every earlier command that has a hazard with a member. By least
counterexample for states (`StateChain`): if another command between the two writes the state, the
last such writer is connected to the second, belongs to the set, and is itself a smaller
counterexample; for fences (`FenceChain`) the last fence between the two is connected to both.

**Passes** (`CommandPassesProofs`).

* *Graph.* Neither `OrdersEveryHazard` nor `OrdersOnlyHazards` is inductive: the edges drawn in a step
  depend on what the summaries say. `LoopInv` adds `FenceIsLast`, `WritersAreLast` and
  `ReadersSinceWriter`, which pin each summary to the visited prefix; with them
  `VisitFindsPredecessors` shows that a visit draws exactly the edges of `DependencyEdges` into the
  command. `GraphInv` carries this over to the composition, where the graph is built over the stream
  the passes leave (`PassesOrderEveryHazard`, `PassesOrderOnlyHazards`).
* *Loads.* `SameMemory` needs that a resident transfer's destination still holds the words of its
  source, and that a transfer which overwrites its own source never counts as resident (`LoadInv`). The case that takes the work is a kept load that writes part of the
  destination *or of the source* of a resident one.
* *Parameters and tables.* `SeesSameState` compares what a remaining command sees with what it saw
  before. `StateInv` has one conjunct per fact of the kind: nothing but loads is left out of the
  rewritten stream (`StreamTyped`, `StateTyped`), every command in it finds the parameters and the
  table that the input showed it (`ParametersStay`, `TablesStay`), and what counts as programmed or
  as lying in the banks is what the last writer put there (`ParametersKnown`, `TableKnown`).

**Scheduler** (`ScheduledExecutionProofs`, first part). `LoopInv` says that the graph is
`DependencyEdges` of the stream, that each indegree counts the predecessors not yet emitted and the
ready set is what has none left (`CountersExact`), that a queue holds submitted commands of its own
engine, each once (`QueuesHoldSubmitted`), and that every edge into an emitted command comes from a
completed one or from one ahead of it in the same DMA queue (`EdgesKept`). `RespectsHazards` is about
hazards, not edges, and needs no induction of its own: the completed commands, the command itself and
those ahead of it in its queue form a set closed backwards under the edges, so
`EdgesReachEveryHazard` applies. `NoQParamPreload` follows from it (a parameter load has a hazard with
every linebuffer job), `QueuesWithinCapacity` and `WaitsHaveAJob` from the tests of `QueuesBlocking`
and `BusyQueues`. `EmitsEachCommandOnce` adds `StreamInv`: a command has one record in the output if
it is emitted, none otherwise. `NeverFails`: edges go forward, so the first command not emitted is
ready; while all queues are empty nothing blocks it, and otherwise there is a queue to wait for.
None of this depends on the cycle estimates, the priorities or the bank penalty: these choose among
commands that are all safe to emit.

**Machine** (second part). What the scheduler knows about *now* must become a property of the stream
it leaves behind. `StreamOrder` does that: whichever record comes earlier, each hazard between two
records is separated by a wait of the earlier one's queue or kept by one DMA queue, and no systolic
job is unawaited at a Spatz command. `MachineInv` then says where the machine is in that stream: what is fetched
is finished, queued or running, a queue holds its records in their order, each awaited job is
finished, and what an engine read when it started is still in the cells it read. From `ExecInv`, their
conjunction, follow `RaceFree`, `SpatzRunsAlone` and the step-by-step refinement
`ImplementsBlocking`: a start is a stutter, an end is `Execute`, and that the command reads at its end
what it latched at its start is `LatchedIsCurrent`. `ExecutionSchedules` shows that the composition is
the scheduler's specification with steps beside it, so that the first part applies.
What the abstract stream promises is proved of `BlockingStream` by itself: in every order it allows, a
command reads what it reads in the sequential order (`SequentialInputs`), and the end is the sequential end.
Together they give `EndsAsBlocking`: the scheduled, overlapping stream leaves what the blocking one leaves.

**Hill climbing** (`HillClimbProofs`). The allocator undoes passes that did not help and cuts passes
short, so the invariant `SearchInv` speaks of two solutions: the one being built, in which what has
been placed in this pass overlaps no neighbour and ends within `size`, and the best one, which is
complete and is what a pass that failed goes back to. A pass is complete because turns and orders
stay permutations of the ranges, through every swap of the bottleneck fix, and the first is kept since
`PassFits` bounds it by the largest size of a range, below the greatest address. `SearchImplementsAllocation`
maps every step to a stutter but the last, which maps to the one step of `Allocation`. It depends on
no choice of the random generator, the heuristic order or the limits on iterations.

**Fast storage** (`StagingMemoryProofs`, first part). `SearchInv` is `Typed`, `Lists` (each range is in one place, a
component has each range once), `Usages` (base and peak are the sums over the ranges kept, and over
those not decided against) and `Feasible`: what is kept fits, wherever the first sweep, the recursion
or the pass over elementwise operations are. `UsageIsExact` is not inductive without the second: a
range counted twice would be subtracted twice. `SearchChoosesMostAccess` is about pruning: the search
leaves out the branch without a range that always fits, and returns from a depth before the
branches above have been tried. `ChoiceInv` says that each choice that fits is contained in one with at least
its access that is either no better than `best` or still to be reached from the present path
(`Pending`). `OperandsEndTogether` needs `VisitInv`: an operation visited stays as it was left unless
a later operation reads one of its operands.

**Cascades** (`StagingMemoryProofs`, second part). The builder keeps running totals while a chain grows past the
best prefix it has seen, and records the totals as they were at that prefix. `ChainFollowed` says that
the running totals are those of the whole chain: the bytes are the weights and the buffers that are
not written over the one before (`TakenByNext`), and the largest of the two running maxima and the
first operation's usage is the most that is alive beside any operation (`MostWithNext`; neither
maximum by itself is that of a set of operations that can be named without the live range).
`BestFollowed` says that the best prefix has the size it would be recorded with, that it fits if it
spills, and otherwise that one of its operations takes more by itself. The last is kept though a
larger prefix may replace a smaller one: then that operation is the new one. `LocalBytesAreTaken`
turns the record's own aliases back into the buffers counted.

**Walk of a cascade** (`LocalMemoryProofs`, first part). What makes `InputIsHeld` true is not in
one step of the walk: a producer may have stopped in the middle of a buffer, and the consumer goes on
from rows of several turns of the ring. `WalkInv` has three parts. `HasWork`: no operation from the
present one on is finished, so the walk goes back only to a producer that can go on. `NextFits`: the
next stripe of each of these fits in its buffer beside what the consumer has still to read, for either
`CanFitRollingBuffer` said so or the consumer was not ready, which bounds how far its producer is.
`RowsHeld`: the buffer holds every row from the first that the consumer will read to the last produced.
The heights and starts of stripes are products and quotients of variables; `StripeRows` and the
lemmas before it reduce them once to inequalities, and the steps of the walk use only these.
`WalkCompletes` then says that the walk always stands at an operation with a stripe left, and
ends with the whole output.

**Workspaces** (second part). `ReservationHolds` compares a sum over the operations with where a
first-fit search puts their parts. `RoomInv` says that the operations get their workspaces in
order, and that live tensors and kept parts then fill the memory without a gap below `Filled`, the
sum of what the first operations keep (`Stacked`); so the search puts the next part right there.
With a gap, a part could land between others and the sums would not say where memory ends.
`WorkspacesKeepWalk` carries the walk over to the composition.

**Memory state** (third part). `QueriesExact` needs more than spans that are true of the words: a query looks
at one span after the other and `Find` at one alone, so it would miss what is spread over two. `MemoryInv`
says that the spans are in order, apart, not to be merged any further (`IsMaximal`), and say of each
address what its word holds (`IsTrueOf`). From this, words that go on with each other lie in one span
(`HoldsInSpan`). Cutting and merging are each shown to change what is said at no address but those
replaced (`CutSays`, `MergedSays`).

**Waits** (`EthosU85Proofs`). The generator follows lists of outstanding accesses in the order of the
stream, while the machine jumps between its branches and targets, also backwards. `WaitsInv` says
that there is a pair of lists for every place in the code (`Explains`), each *leading* to the next
(`Leads`: what covers the engines before the instruction becomes what covers them after it), the last
being the generator's, and that the lists at the program counter cover what the engines run
(`Covers`): the x-th operation from the youngest is within an entry that is no further from the end of
its list. The position matters, not only the membership: a wait names a count. The operations of one
stripe become one entry, so that a list may be shorter than what runs; a full list drops its oldest
entry, since the engine can hold no more. Branches empty the lists after waiting for everything, which
is why a target may be reached from any of them. `NothingConflicts` follows for every program, limit
and way of the branches. `WaitsInv` quantifies over all sequences of lists and cannot be evaluated by
TLC; `NoHazard`, its consequence, is.

**Lookup tables** (second part). An operation whose table is taken to be resident gets no transfer, so
that the theorem rests on the slots saying the truth about a memory that other transfers fill later.
`SlotsInv` looks at the code in advance: what a slot is said to have is what the last transfer before
puts there (`Shows`, `IsKnown`), and each stripe so far finds its table in the slot its operation ends
up with (`StripesFind`). For that a transfer must never cut a table in two whose first slot it leaves,
or `AllocatedSlot` would find half a table: the slots of a table are equally old and of equals the
first is taken, and the sizes divide one another, so what is taken are whole tables or the first slots
of one (`TakenIsWhole`). `MemoryShows` then says of the memory at the program counter what the code
before it shows. `TablesAreLoaded` has two hypotheses. `TablesNest`: sizes divide one another and the
memory, as tables are of one, two, four or eight slots of 256 bytes. `InRow`: no branches, at most one
table in a group, and the stripes of an operation without another table between them. Streams outside
it are those of section 4, where the code errs, and the If of the run, which stays model-checked; the
other streams of the run satisfy both.

The folds of the community modules are proved about by least counterexample over finite sets, in
`FiniteSetLemmas`.

**Assumptions**, each one evaluated by TLC on the streams, lists and workloads of the runs:

| assumption | module | what it says of the code |
|---|---|---|
| `CommandIRAssumption` | `CommandIR` | queue depth and banks are positive |
| `ProgramsAssumption` | `DependencyGraph`, `GlobalScheduler` | commands are of the decoded type; for the scheduler also that a parameter load writes the parameters, a systolic job that may run asynchronously reads them, and a queue of a command holds at least one job |
| `CopiesAssumption` | `CommandPasses` | what decoding checks of a copy: no run is empty, source and destination have its extent |
| `UsersAssumption` | `CommandPasses` | parameter loads are what writes the parameters, and write nothing else; a lookup brings its table and fills the banks, or reads them |
| `InfiniteCyclesAssumption` | `GlobalScheduler` | cycles saturate at a natural number |
| `HillClimbAssumption`, `AddressesAssumption` | `HillClimb` | ranges are typed; their sizes add up to an address (sizes and counts are `int`, addresses have 64 bits) |
| `FastStorageAssumption`, `WorkloadsAssumption` | `FastStorage` | a range begins no later than it ends, at times whose usage is recorded |
| `GraphsAssumption` | `ElementwiseSanitizer` | operations read ranges of the workload |
| `NetworksAssumption` | `CascadeBuilder` | sizes of tensors and buffers are natural, usages integers, of any sign |
| `CascadesAssumption` | `RollingCascade` | a cascade has an operation; heights, strides and kernels are positive |
| `SizesAssumption` | `CascadeWorkspaces` | sizes of parts and of the memory are natural, live tensors are ranges of it |
| `MemoryAssumption` | `MemoryState` | sizes and content offsets are natural (they are unsigned) |
| `NpuWaitsAssumption`, `CommandsAssumption` | `NpuWaits` | an engine holds an operation at least; a stripe has an operation, a transfer exactly one |

`ScoresFit`, a hypothesis of `SearchChoosesMostAccess` alone, says that the conversion of access counts
to `int` loses nothing. The theorem is false without it (section 4).

**Only model-checked**, and why:

* `MachineEnds`, `SlicingTerminates`: liveness under fairness is out of the prover's reach.
* The compactor (`RoundTrip`, `NoBetterPlan`), `ReadsAreAnnotatedExactly`,
  `CoversUses`, `SharingIsSafe`: what they compare is built by folds over sequences of any length, and
  the induction principles over data cannot be used with the provers at hand.
* The planner, what the workspaces of a cascade contain, spilled convolutions and, of the
  Ethos-U85 stream, block dependency, weights and groups: not proved yet.
  `JobsAreExact`, `ComputesConvolution` and their like rest on
  products and quotients of variables, which the arithmetic of the SMT backend does not decide.

## 6. Plan

Modelled, checked and proved: the command pipeline from the residency passes to the machine, the
allocator's search, fast storage, the cascade builder, the walk of a cascade with the reservation of its
workspaces, the memory state, the waits and the lookup tables of the Ethos-U85. Modelled and checked:
the rest of the modules in section 2.

Left to prove: `InputsExact` of `CascadeWorkspaces`, from the claims and `RoomInv`.
