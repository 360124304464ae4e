-------------------------- MODULE MCCommandPasses --------------------------
(***************************************************************************)
(* The passes over a command stream, and beside them the compaction of an  *)
(* encoded one: a behaviour runs the passes or the compactor.              *)
(***************************************************************************)
EXTENDS CommandPasses, SequencesExt

CONSTANTS MaxLoads, MaxTables, MaxStates, MaxIntervals, MaxLength

-----------------------------------------------------------------------------
(* The passes: every short stream over each of four alphabets, copies of    *)
(* every shape, loads of parameters and tables among the users of both,     *)
(* every kind of state access, and intervals that nest and cut each other.  *)

L2 == "L2TemporaryBinding"

Copy2D(source, shape) == DMA("DMA2D", ExternalToLocal, source, <<TCDM, 0>>, shape)

Copies ==
    {DMA("DMA1D", ExternalToLocal, <<L2, 0>>, <<TCDM, 0>>, Contiguous(3)),
     DMA("DMA1D", ExternalToLocal, <<L2, 0>>, <<TCDM, 2>>, Contiguous(3)),
     \* Same bounding spans, different words: spread rows, a gathered column.
     Copy2D(<<L2, 0>>, Shape(1, 2, 2, 2, 0, 0, 1)),
     Copy2D(<<L2, 0>>, Shape(1, 1, 1, 3, 0, 0, 1)),
     \* Runs that overwrite one another: the last one stays.
     Copy2D(<<L2, 0>>, Shape(2, 1, 0, 2, 0, 0, 1)),
     DMA("DMA3D", ExternalToLocal, <<"ModelConstants", 0>>, <<TCDM, 0>>, Shape(1, 1, 2, 2, 2, 1, 2)),
     DMA("DMA1D", LocalToExternal, <<TCDM, 2>>, <<L2, 1>>, Contiguous(1)),
     DMA("DMA1D", LocalToLocal, <<TCDM, 0>>, <<TCDM, 4>>, Contiguous(1)),
     LineBuffer(<<Read(TCDM, 0, 2), Write(TCDM, 1, 1)>>, 1),
     \* Malformed: both sides of the load in TCDM, overlapping.
     DMA("DMA1D", ExternalToLocal, <<TCDM, 0>>, <<TCDM, 1>>, Contiguous(2))}

Lookup(table, reuse) ==
    AFULut(table, Read("ModelConstants", table, 1), Read(TCDM, 0, 1), Write(TCDM, 1, 1), reuse, 1)

TableUsers ==
    {RQLoad(0, 1), RQLoad(1, 1), RQLoad(2, 1),
     Lookup(1, FALSE), Lookup(2, FALSE), Lookup(1, TRUE),
     AFUBinary(<<Read(TCDM, 0, 1), Write(TCDM, 2, 1)>>, TRUE, 1),
     AFUGlobalAvgPool(<<Read(TCDM, 0, 1), Write(TCDM, 3, 1)>>, TRUE, 1),
     AFUGlobalAvgPool(<<Read(TCDM, 0, 1), Write(TCDM, 3, 1)>>, FALSE, 1),
     AFUDFL16(1, <<Read(TCDM, 0, 1), Write(TCDM, 4, 1)>>, 1),
     LineBuffer(<<Read(TCDM, 0, 1), Write(TCDM, 5, 1)>>, 1)}

StateUsers ==
    {DMA("DMA1D", ExternalToLocal, <<L2, 0>>, <<TCDM, 0>>, Contiguous(2)),
     DMA("DMA1D", LocalToLocal, <<TCDM, 1>>, <<TCDM, 2>>, Contiguous(1)),
     LineBuffer(<<Read(TCDM, 0, 2), Write(TCDM, 2, 2)>>, 3),
     RQLoad(1, 1),
     AFULut(1, Read("ModelConstants", 0, 1), Read(TCDM, 3, 1), Write(TCDM, 4, 1), FALSE, 1),
     AFUBinary(<<Read(TCDM, 2, 1), Read(TCDM, 4, 1), Write(L2, 1, 1)>>, TRUE, 1),
     Systolic("Gemm32", <<Read(TCDM, 4, 1), Write(TCDM, 6, 1)>>, 1),
     ReservedSpatz("SpatzMul"),
     Fence("Barrier")}

Intervals ==
    {DMA("DMA1D", ExternalToLocal, <<L2, 0>>, <<TCDM, 1>>, Contiguous(4)),
     DMA("DMA1D", LocalToExternal, <<TCDM, 2>>, <<L2, 1>>, Contiguous(1)),
     DMA("DMA1D", LocalToLocal, <<TCDM, 0>>, <<TCDM, 3>>, Contiguous(2)),
     DMA("DMA2D", ExternalToLocal, <<"ModelConstants", 0>>, <<TCDM, 2>>, Shape(1, 1, 2, 2, 0, 0, 1)),
     AFUBinary(<<Read(TCDM, 0, 6), Read(TCDM, 2, 3), Write(TCDM, 2, 2)>>, FALSE, 1),
     LineBuffer(<<Read(TCDM, 1, 3), Write(TCDM, 4, 2)>>, 1),
     RQLoad(1, 1)}

MCPrograms ==
    BoundedSeq(Copies, MaxLoads) \cup BoundedSeq(TableUsers, MaxTables)
        \cup BoundedSeq(StateUsers, MaxStates) \cup BoundedSeq(Intervals, MaxIntervals)

-----------------------------------------------------------------------------
(* The compactor: short streams of small and large commands, and longer     *)
(* ones built of runs.                                                      *)

\* A command of one or two units of alignment, with two payload words.
Record(type, size, flags, a, b) ==
    <<64 * type + size, flags, 0, 0, a, b>> \o [w \in 1..(size - 6) |-> 0]

Small(a) == Record(2, 8, 0, a, 0)
Large(a, b) == Record(3, 16, 0, a, b)

Records ==
    {Small(0), Small(1), Large(0, 0), Large(1, 0), Large(2, 1), Record(3, 16, 1, 2, 0)}

\* Runs of count commands whose payload advances from start by delta; the
\* payload wraps in some of them.
Block(Instance(_), start, delta, count) ==
    [k \in 1..count |-> Instance((start + (k - 1) * delta) % 256)]

SmallRuns == {Block(Small, 0, 0, 2), Block(Small, 0, 0, 4), Block(Small, 254, 1, 5)}
LargeRuns ==
    {Block(LAMBDA a : Large(a, 0), 7, 255, 3), Block(LAMBDA a : Large(a, a), 0, 1, 4),
     Block(LAMBDA a : Large(a, 5), 0, 3, 2)}

\* Runs of two commands, one of which advances by itself too.
Pairs(count) ==
    FlattenSeq([k \in 1..count |-> <<Small(k), Large(4 * k, 0)>>])
SamePairs(count) ==
    FlattenSeq([k \in 1..count |-> <<Large(1, 0), Large(k % 2, 3)>>])

Runs == SmallRuns \cup LargeRuns \cup {Pairs(2), Pairs(3), SamePairs(2), SamePairs(3)}

LoopPrograms ==
    {Append(s, Record(0, 8, 0, 0, 0)) :
     s \in BoundedSeq(Records, MaxLength) \cup {r \o q : r, q \in Runs}
               \cup {r \o q \o p : r, q, p \in SmallRuns}}

VARIABLES commands, phase, at, plan, encoded, stats, received, expanded, logicalCommands, accepted

loopVars == <<commands, phase, at, plan, encoded, stats, received, expanded, logicalCommands, accepted>>

\* Words of 8 bits, loops of at most two commands, two patches and 40 words.
Compactor == INSTANCE AffineCompactor WITH
                 Programs <- LoopPrograms, WordValues <- 256, MaxPatches <- 2, MaxBody <- 2, MaxRecord <- 40

NoCompaction ==
    /\ commands = <<>> /\ phase = "none" /\ at = 0 /\ plan = <<>>
    /\ encoded = <<>> /\ stats = <<>> /\ received = <<>> /\ expanded = <<>>
    /\ logicalCommands = 0 /\ accepted = FALSE

StreamInit ==
    \/ PassInit /\ NoCompaction
    \/ PassInit /\ input = <<>> /\ Compactor!Init

Optimise == phase = "none" /\ PassNext /\ UNCHANGED loopVars
Compact  == phase # "none" /\ Compactor!Next /\ UNCHANGED passVars

StreamSpec == StreamInit /\ [][Optimise \/ Compact]_<<passVars, loopVars>>

-----------------------------------------------------------------------------
(* Properties *)

\* The stream the machine expands is the scheduled stream, word for word, and
\* counts its commands (CompactAffineCommandStream); one that was cut off, or
\* whose patch would change a header, is refused (ExpandAffineCommandStream).
RoundTrip == Compactor!RoundTrip

\* No choice of disjoint loops saves more than the planned one
\* (CompactAffineCommandStream).
NoBetterPlan == Compactor!NoBetterPlan

=============================================================================
