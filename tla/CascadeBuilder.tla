--------------------------- MODULE CascadeBuilder ---------------------------
(***************************************************************************)
(* CascadeBuilder::BuildCascades (cascade_builder.cpp): from each          *)
(* operation that can be cascaded a chain is grown operation by operation, *)
(* while the memory it takes is tracked; the best prefix of it becomes a   *)
(* cascade.  Shapes are reduced to what the conditions see of them.        *)
(***************************************************************************)
EXTENDS Integers, Sequences, FiniteSets, FiniteSetsExt

(***************************************************************************)
(* A network has a limit, spilling and operations with: npu, cascadable    *)
(* (IsCascadable), joins (the next operation is the only consumer, and the *)
(* feature maps between them can be rolled), ifm and ofm (bytes), stored   *)
(* (the bytes of ifm and ofm that are in staging memory), weights, buffer  *)
(* (bytes of the rolling buffer before the operation), oneToOne, local and *)
(* nonLocal (usage without cascades), rangeEnd and fusedEnd (the last      *)
(* operation at which the ifm's live range, of rangeSize bytes, is alive,  *)
(* and at which it is one of the operation's own operands).                *)
(***************************************************************************)
CONSTANT Networks

\* Sizes of tensors and buffers are natural; usages are int, and a difference
\* (NonLocalUsage) may be negative.
IsNetwork(n) ==
    /\ Len(n.ops) \in Nat /\ DOMAIN n.ops = 1..Len(n.ops)
    /\ n.limit \in Int
    /\ \A i \in DOMAIN n.ops :
          LET o == n.ops[i]
          IN  /\ {o.weights, o.buffer, o.ifmStored, o.ofmStored, o.rangeSize} \subseteq Nat
              /\ {o.local, o.nonLocal, o.rangeEnd, o.fusedEnd} \subseteq Int

ASSUME NetworksAssumption == \A n \in Networks : IsNetwork(n)

VARIABLES
    network,
    at,          \* the operation BuildCascades is at
    cost,        \* per operation "none", "fallback" or the end of its cascade
    stagingPeak, \* peakStagingUsage
    chain,       \* the proposal that is being grown
    cascades,    \* CascadeInfo: [start, end, size, local, aliases]
    building     \* "pick", "grow", "assign"

builderVars == <<network, at, cost, stagingPeak, chain, cascades, building>>

Ops == DOMAIN network.ops
Op(i) == network.ops[i]
NonNegative(n) == Max({0, n})
Spilled(i) == network.spilling /\ (~network.selective \/ (Op(i).ifmStored = 0 /\ Op(i).ofmStored = 0))

Uncascaded(i) == Op(i).local + Op(i).nonLocal

NoChain == [start |-> 0, end |-> 0, buffers |-> 0, previous |-> 0, active |-> 0, inactive |-> 0,
            bestEnd |-> 0, bestSize |-> 0, bestLocal |-> 0]

BuilderInit ==
    /\ network \in Networks
    /\ at = 1
    /\ cost = [i \in Ops |-> "none"]
    /\ stagingPeak = network.limit
    /\ chain = NoChain
    /\ cascades = {}
    /\ building = "pick"

RaisedPeak(i, bytes) == IF Spilled(i) THEN stagingPeak ELSE Max({stagingPeak, bytes})

IsProcessed(i) == ~Op(i).npu \/ cost[i] # "none"

Skip ==
    /\ building = "pick" /\ at \in Ops /\ IsProcessed(at)
    /\ at' = at + 1
    /\ UNCHANGED <<network, cost, stagingPeak, chain, cascades, building>>

NotCascaded ==
    /\ building = "pick" /\ at \in Ops /\ Op(at).npu /\ cost[at] = "none"
    /\ ~Op(at).cascadable
    /\ cost' = [cost EXCEPT ![at] = "fallback"]
    /\ stagingPeak' = RaisedPeak(at, Uncascaded(at))
    /\ at' = at + 1
    /\ UNCHANGED <<network, chain, cascades, building>>

-----------------------------------------------------------------------------
(* Proposing a cascade                                                     *)

IsInRange(start, i) == Op(start).rangeSize > 0 /\ i <= Op(start).rangeEnd

Propose ==
    /\ building = "pick" /\ at \in Ops /\ Op(at).npu /\ cost[at] = "none" /\ Op(at).cascadable
    /\ chain' = [NoChain EXCEPT
                    !.start = at, !.end = at, !.bestEnd = at,
                    !.buffers = Op(at).weights,
                    !.bestSize = Uncascaded(at),
                    !.inactive = IF IsInRange(at, at) THEN 0 ELSE NonNegative(Op(at).nonLocal)]
    /\ building' = "grow"
    /\ UNCHANGED <<network, at, cost, stagingPeak, cascades>>

\* The producer of a buffer can write it over the buffer it reads.
CanReuse(i, incoming, outgoing) == Op(i).oneToOne /\ incoming = outgoing

Follows(i, j) ==
    /\ Op(i).joins /\ j = i + 1 /\ j \in Ops
    /\ cost[j] = "none" /\ Op(j).npu /\ Op(j).cascadable

\* mutated: the previous buffer stays that of the first step
PreviousForgotten(j) == IF chain.previous = 0 THEN Op(j).buffer ELSE chain.previous

PreviousAfter(j) == Op(j).buffer

\* The range of the cascade's ifm is counted as local to the cascade.
AdjustedNonLocal(start, j) ==
    IF j <= Op(start).fusedEnd THEN NonNegative(Op(j).nonLocal)
    ELSE NonNegative(NonNegative(Op(j).nonLocal) - Op(start).rangeSize)

Appended(j) ==
    [chain EXCEPT
        !.end = j,
        !.buffers = @ + Op(j).weights
            + IF CanReuse(j - 1, chain.previous, Op(j).buffer) THEN 0 ELSE Op(j).buffer,
        !.previous = PreviousAfter(j),
        !.active = IF IsInRange(chain.start, j) THEN Max({@, AdjustedNonLocal(chain.start, j)}) ELSE @,
        !.inactive = IF IsInRange(chain.start, j) THEN @ ELSE Max({@, NonNegative(Op(j).nonLocal)})]

SegmentNonLocal(c) == Max({c.inactive, NonNegative(Op(c.start).nonLocal), c.active})

WithBest(c, size, local) == [c EXCEPT !.bestEnd = c.end, !.bestSize = size, !.bestLocal = local]

\* mutated: the buffers may exceed the limit by what is appended
BuffersExceedLate(buffers) == chain.buffers > stagingPeak

BuffersExceed(buffers) == buffers > stagingPeak

\* Spilling: grow until an operation fits by itself or the buffers do not fit.
GrowSpilled ==
    /\ building = "grow" /\ Spilled(chain.start) /\ Follows(chain.end, chain.end + 1)
    /\ LET j == chain.end + 1
           c == Appended(j)
           whole == IF CanReuse(j, Op(j).ifm, Op(j).ofm) THEN Op(j).ifm ELSE Op(j).ifm + Op(j).ofm
       IN  IF whole + Op(j).nonLocal < stagingPeak \/ BuffersExceed(c.buffers)
           THEN chain' = c /\ building' = "assign"
           ELSE chain' = WithBest(c, c.buffers, c.buffers) /\ UNCHANGED building
    /\ UNCHANGED <<network, at, cost, stagingPeak, cascades>>

\* mutated: the larger of two proposals is kept
IsBestLarger(size, j) == size > chain.bestSize \/ size < Uncascaded(j)

IsBest(size, j) == size < chain.bestSize \/ size < Uncascaded(j)

GrowResident ==
    /\ building = "grow" /\ ~Spilled(chain.start) /\ Follows(chain.end, chain.end + 1)
    /\ LET j == chain.end + 1
           c == Appended(j)
           prefix == Op(chain.start).ifmStored + c.buffers
           local == prefix + Op(j).ofmStored
           size == local + SegmentNonLocal(c)
           d == IF IsBest(size, j) THEN WithBest(c, size, local) ELSE c
       IN  /\ chain' = d
           /\ building' = IF \/ Uncascaded(j) < stagingPeak /\ d.bestSize < stagingPeak
                         \/ prefix + SegmentNonLocal(c) > d.bestSize
                      THEN "assign" ELSE "grow"
    /\ UNCHANGED <<network, at, cost, stagingPeak, cascades>>

ChainEnds ==
    /\ building = "grow" /\ ~Follows(chain.end, chain.end + 1)
    /\ building' = "assign"
    /\ UNCHANGED <<network, at, cost, stagingPeak, chain, cascades>>

-----------------------------------------------------------------------------
(* Taking the best prefix                                                  *)

\* The operations whose ofmEquivalenceId names their own ifm.
Aliases(start, end) ==
    {i \in start..(end - 1) :
        CanReuse(i, IF i = start THEN 0 ELSE Op(i).buffer, Op(i + 1).buffer)}

AssignCascade ==
    /\ building = "assign" /\ chain.bestEnd > chain.start
    /\ cost' = [i \in Ops |-> IF i \in chain.start..chain.bestEnd THEN "cascaded" ELSE cost[i]]
    /\ cascades' = cascades \cup {[start |-> chain.start, end |-> chain.bestEnd, size |-> chain.bestSize,
                                   local |-> chain.bestLocal, aliases |-> Aliases(chain.start, chain.bestEnd)]}
    /\ stagingPeak' = RaisedPeak(chain.start, chain.bestSize)
    /\ building' = "pick"
    /\ UNCHANGED <<network, at, chain>>

AssignFallback ==
    /\ building = "assign" /\ chain.bestEnd = chain.start
    /\ cost' = [cost EXCEPT ![chain.start] = "fallback"]
    /\ stagingPeak' = RaisedPeak(chain.start, Uncascaded(chain.start))
    /\ building' = "pick"
    /\ UNCHANGED <<network, at, chain, cascades>>

BuilderNext ==
    \/ Skip \/ NotCascaded \/ Propose \/ GrowSpilled \/ GrowResident \/ ChainEnds
    \/ AssignCascade \/ AssignFallback

BuilderSpec == BuilderInit /\ [][BuilderNext]_builderVars

-----------------------------------------------------------------------------
(* Properties                                                              *)

\* Type correctness; a chain lies within the network.
BuilderTypeOK ==
    /\ at \in 1..(Len(network.ops) + 1)
    /\ cost \in [Ops -> {"none", "fallback", "cascaded"}]
    /\ building # "pick" => chain.start = at /\ chain.bestEnd \in at..chain.end /\ chain.end \in Ops
    /\ \A c \in cascades : c.aliases \subseteq c.start..c.end

\* What a cascade takes: an aliased buffer is the one before it.
LocalBytes(c) ==
    MapThenSumSet(LAMBDA i : Op(i).weights, c.start..c.end)
      + MapThenSumSet(LAMBDA i : Op(i).buffer, {i \in (c.start + 1)..c.end : (i - 1) \notin c.aliases})

\* What else is alive while an operation of the cascade runs.
BesideCascade(c, i) ==
    IF i > c.start /\ i <= Op(c.start).rangeEnd /\ Op(c.start).rangeSize > 0 /\ i > Op(c.start).fusedEnd
    THEN NonNegative(NonNegative(Op(i).nonLocal) - Op(c.start).rangeSize)
    ELSE NonNegative(Op(i).nonLocal)

\* The size a cascade is recorded with, tracked while it was grown, is what its
\* buffers take when exactly the recorded aliases share memory, plus the most
\* that is alive beside it.
CascadeSizeExact ==
    \A c \in cascades :
        IF Spilled(c.start) THEN c.local = LocalBytes(c) /\ c.size = c.local
        ELSE /\ c.local = Op(c.start).ifmStored + LocalBytes(c) + Op(c.end).ofmStored
             /\ c.size = c.local + Max({BesideCascade(c, i) : i \in c.start..c.end})

\* "Allow larger cascades if they reduce total staging usage versus uncascaded
\* ops" (cascade_builder.cpp:342): a resident cascade takes less than the worst of
\* its operations by themselves.
CascadeReducesPeak ==
    \A c \in cascades :
        ~Spilled(c.start) => \E i \in c.start..c.end : c.size < Uncascaded(i)

\* The peak covers every cascade and resident operation behind it. What spills
\* does not raise it ("except where spilling makes this a hard limit",
\* cascade_builder.cpp:129), and no cascade has more buffers.
PeakCovers ==
    /\ \A c \in cascades : c.size <= stagingPeak
    /\ \A i \in Ops : cost[i] = "fallback" /\ ~Spilled(i) => Uncascaded(i) <= stagingPeak

=============================================================================
