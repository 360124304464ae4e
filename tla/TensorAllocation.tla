-------------------------- MODULE TensorAllocation --------------------------
(***************************************************************************)
(* The allocation of one memory area (Allocate in tensor_allocator.cpp):   *)
(* the live ranges are extracted from the schedule (LiveRanges), the       *)
(* command workspace is reserved among them, and the hill climbing search  *)
(* (HillClimb) or a linear allocator places them all.                      *)
(***************************************************************************)
EXTENDS HillClimb

CONSTANTS
    Schedules, Never,    \* of LiveRanges
    SizeOf(_),           \* AllocationSizeBytes of a tensor
    HighestAddresses     \* where read-only tensors of the graphs compiled before may end

VARIABLES
    schedule, pos, time,
    extracted,           \* the ranges of LiveRanges
    rangeOf, opTime, kept, run,
    stage                \* the phase of LiveRanges

liveVars == <<schedule, pos, time, extracted, rangeOf, opTime, kept, run, stage>>

Live == INSTANCE LiveRanges WITH ranges <- extracted, phase <- stage

\* A range whose tensors moved to another one has no size.
SizeOfRange(r) ==
    IF r.tensors = {} THEN r.bytes ELSE Max({SizeOf(t) : t \in r.tensors})

AllocationInit ==
    /\ Live!Init
    /\ ranges = <<>> /\ phase = "idle" /\ indices = <<>> /\ lrs = <<>>
    /\ turn = 1 /\ size = 0 /\ iteration = 0 /\ lastImprovement = 0 /\ best = NoSolution

Extracted ==
    [r \in DOMAIN extracted |->
        [startTime |-> extracted[r].start, endTime |-> extracted[r].end,
         size |-> SizeOfRange(extracted[r])]]

\* HillClimbAllocateLiveRanges: the search begins with every range there is.
HandOver ==
    /\ stage = "done" /\ phase = "idle"
    /\ ranges' = Extracted
    /\ phase' = "start"
    /\ UNCHANGED <<indices, lrs, turn, size, best, iteration, lastImprovement, liveVars>>

\* The bytes of the ranges in front of range r.
BytesBefore(r) == MapThenSumSet(LAMBDA q : SizeOfRange(extracted[q]), 1..(r - 1))

PlaceFrom(base) ==
    /\ ranges' = Extracted
    /\ lrs' = [r \in DOMAIN extracted |->
                  [address |-> base + BytesBefore(r), endAddress |-> base + BytesBefore(r + 1),
                   predecessor |-> NoPredecessor, turn |-> r]]
    /\ best' = [size |-> base + BytesBefore(Len(extracted) + 1), indices |-> <<>>, lrs |-> lrs']
    /\ phase' = "done"
    /\ UNCHANGED <<indices, turn, size, iteration, lastImprovement, liveVars>>

\* LinearAllocateLiveRanges
LinearAllocate == stage = "done" /\ phase = "idle" /\ PlaceFrom(0)

\* IncrementalLinearAllocator: read-only tensors lie behind those of the graphs
\* before.  An equivalence id belongs to one graph and there to one range, so
\* that none of them has been placed yet; ranges are not shared and no workspace
\* is reserved.
IncrementalAllocate ==
    /\ stage = "done" /\ phase = "idle"
    /\ ~schedule.reuseIfms /\ schedule.workspace = <<>>
    /\ \E highest \in HighestAddresses : PlaceFrom(highest)

AllocationNext ==
    \/ UNCHANGED vars /\ Live!Next
    \/ HandOver \/ LinearAllocate \/ IncrementalAllocate
    \/ Next /\ UNCHANGED liveVars

AllocationSpec == AllocationInit /\ [][AllocationNext]_<<vars, liveVars>>

-----------------------------------------------------------------------------
(* Properties                                                              *)

\* From its first to its last use a tensor has a range that is alive
\* (ExtractLiveRangesFromCascades).
CoversUses == Live!CoversUses

\* Tensors share a range only if none destroys another that is still to be
\* read (ReusableIFM, FuseRanges).
SharingIsSafe == Live!SharingIsSafe

=============================================================================
