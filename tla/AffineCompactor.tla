--------------------------- MODULE AffineCompactor --------------------------
(***************************************************************************)
(* neural_ai_command_compactor.cpp: the scheduled stream is compacted by   *)
(* replacing repeated runs of commands with a loop record, one instance of *)
(* the run and the words (patches) that change by a constant between its   *)
(* iterations.  The machine and the tools expand it again.                 *)
(*                                                                         *)
(* Sizes are in 32-bit words.  A stream is a sequence of words; the first  *)
(* word of a record holds its type and size, the second its flags.         *)
(***************************************************************************)
EXTENDS Integers, Sequences, FiniteSets, SequencesExt

CONSTANTS
    Programs,     \* the command lists, each the encodings of its commands
    WordValues,   \* 2^32: words are added modulo it
    MaxPatches,   \* MaxAffineLoopPatches
    MaxBody,      \* MaxAffineLoopBodyCommands
    MaxRecord     \* MaxAffineLoopRecordBytes

Alignment   == 8    \* neuralai::Alignment
HeaderWords == 4    \* sizeof(CommandHeaderV2)
LoopWords   == 8    \* sizeof(CommandAffineLoopV2)
PatchWords  == 2    \* sizeof(CommandAffinePatchV2)
Unpatchable == 2    \* the words of type, size and flags

End        == 0
AffineLoop == 1
SizeLimit  == 64    \* bounds the size field of Header
Header(type, size) == type * SizeLimit + size
TypeOf(word) == word \div SizeLimit
SizeOf(word) == word % SizeLimit

Words == 0..(WordValues - 1)

\* What DecodeSemanticCommandStream yields: whole records, and END at the end.
IsCommand(c) ==
    /\ c \in Seq(Words)
    /\ Len(c) >= HeaderWords /\ Len(c) % Alignment = 0
    /\ SizeOf(c[1]) = Len(c)

IsProgram(p) ==
    /\ \A i \in DOMAIN p : IsCommand(p[i]) /\ TypeOf(p[i][1]) # AffineLoop
    /\ \A i \in DOMAIN p : TypeOf(p[i][1]) = End <=> i = Len(p)
    /\ p # <<>>

VARIABLES
    commands,   \* the command list
    phase,      \* "plan", "emit", then "expand", "done" or "mismatch"
    at,         \* begin, commandIndex or offset, by phase
    plan,       \* best, previous and selected, per number of commands
    encoded,    \* the compacted stream
    stats,      \* of CommandCompactionStats
    received,   \* the stream that is expanded
    expanded,   \* the expansion so far
    logicalCommands,
    accepted    \* what ExpandAffineCommandStream answers

vars == <<commands, phase, at, plan, encoded, stats, received, expanded, logicalCommands, accepted>>

Executable == Len(commands) - 1    \* executableCommands

-----------------------------------------------------------------------------
(* BuildCandidate                                                          *)

Aligned(words) == ((words + Alignment - 1) \div Alignment) * Alignment

DescriptorWords(patchCount) == Aligned(LoopWords + patchCount * PatchWords)

\* The encodings of count commands from begin (0-based) on.
Run(begin, count) == FlattenSeq(SubSeq(commands, begin + 1, begin + count))

SameShape(i, j, count) ==
    \A child \in 1..count :
        /\ Len(commands[i + child]) = Len(commands[j + child])
        /\ TypeOf(commands[i + child][1]) = TypeOf(commands[j + child][1])

Deltas(i, j, count) ==
    LET first  == Run(i, count)
        second == Run(j, count)
    IN  [w \in DOMAIN first |-> (second[w] - first[w]) % WordValues]

\* Positions in the run of the words a patch may not change.
HeaderPositions(begin, count) ==
    UNION {LET base == Len(Run(begin, child - 1)) IN (base + 1)..(base + Unpatchable) :
           child \in 1..count}

\* Patches as <<word offset, delta>>, ascending.
PatchesOf(deltas) ==
    LET changed == SetToSortSeq({w \in DOMAIN deltas : deltas[w] # 0}, <)
    IN  [p \in DOMAIN changed |-> <<changed[p] - 1, deltas[changed[p]]>>]

\* mutated: later iterations are compared by their shape alone
RepeatsInShape(begin, count, k, deltas) ==
    SameShape(begin + (k - 2) * count, begin + (k - 1) * count, count)

\* Iteration k differs from iteration k - 1 as the second from the first.
Repeats(begin, count, k, deltas) ==
    LET previous == begin + (k - 2) * count
        next     == begin + (k - 1) * count
    IN  SameShape(previous, next, count) /\ Deltas(previous, next, count) = deltas

Iterations(begin, count, deltas) ==
    LET possible == 2..((Executable - begin) \div count)
    IN  Max({n \in possible : \A k \in 3..n : Repeats(begin, count, k, deltas)})

Saved(iterations, bodyWords, descriptor) == (iterations - 1) * bodyWords - descriptor

Reduction(iterations, count) == (iterations - 1) * count - 1

\* The set of the candidate of count commands at begin, empty for nullopt.
BuildCandidate(begin, count) ==
    IF begin + 2 * count > Executable \/ ~SameShape(begin, begin + count, count) THEN {}
    ELSE
    LET deltas     == Deltas(begin, begin + count, count)
        patches    == PatchesOf(deltas)
        bodyWords  == Len(Run(begin, count))
        descriptor == DescriptorWords(Len(patches))
        iterations == Iterations(begin, count, deltas)
        saved      == Saved(iterations, bodyWords, descriptor)
    IN  IF /\ \A w \in HeaderPositions(begin, count) : deltas[w] = 0
           /\ Len(patches) <= MaxPatches
           /\ descriptor + bodyWords <= MaxRecord
           /\ saved > 0
        THEN {[begin |-> begin, end |-> begin + iterations * count, bodyCommands |-> count,
               iterations |-> iterations, bodyWords |-> bodyWords, patches |-> patches,
               saved |-> saved, reduction |-> Reduction(iterations, count)]}
        ELSE {}

Candidates(begin) == UNION {BuildCandidate(begin, count) : count \in 1..MaxBody}

-----------------------------------------------------------------------------
(* CompactAffineCommandStream: which candidates                            *)

Zero == [saved |-> 0, reduction |-> 0]

Plus(score, c) ==
    [saved |-> score.saved + c.saved, reduction |-> score.reduction + c.reduction]

Better(a, b) == a.saved > b.saved \/ (a.saved = b.saved /\ a.reduction > b.reduction)

\* mutated: what loops that end here have won is overwritten
CarryAlways(table, begin) ==
    [table EXCEPT ![begin + 1] = [best |-> table[begin].best, previous |-> begin, selected |-> {}]]

\* The command at begin is left as it is.
Carry(table, begin) ==
    IF Better(table[begin + 1].best, table[begin].best) THEN table
    ELSE [table EXCEPT ![begin + 1] =
              [best |-> table[begin].best, previous |-> begin, selected |-> {}]]

Select(table, c) ==
    LET score == Plus(table[c.begin].best, c)
    IN  IF Better(score, table[c.end].best)
        THEN [table EXCEPT ![c.end] =
                  [best |-> score, previous |-> c.begin, selected |-> {c}]]
        ELSE table

Plan ==
    /\ phase = "plan" /\ at < Executable
    /\ plan' = FoldLeft(Select, Carry(plan, at),
                        SetToSortSeq(Candidates(at),
                                     LAMBDA c, d : c.bodyCommands < d.bodyCommands))
    /\ at' = at + 1
    /\ UNCHANGED <<commands, phase, encoded, stats, received, expanded, logicalCommands, accepted>>

PlanEnd ==
    /\ phase = "plan" /\ at = Executable
    /\ phase' = "emit" /\ at' = 0
    /\ UNCHANGED <<commands, plan, encoded, stats, received, expanded, logicalCommands, accepted>>

\* The chosen candidates, back from the last command.
Chosen ==
    LET upTo[end \in 0..Executable] ==
            IF end = 0 THEN {} ELSE plan[end].selected \cup upTo[plan[end].previous]
    IN  upTo[Executable]

-----------------------------------------------------------------------------
(* CompactAffineCommandStream: the output                                  *)

Padded(words, size) == words \o [w \in 1..(size - Len(words)) |-> 0]

\* The layer and tile of a loop are those of its first command.
LoopRecord(c) ==
    LET first == commands[c.begin + 1]
        size  == DescriptorWords(Len(c.patches))
    IN  Padded(<<Header(AffineLoop, size), 0, first[3], first[4],
                 c.iterations, c.bodyCommands, c.bodyWords, Len(c.patches)>>
                   \o FlattenSeq(c.patches),
               size)

EmitCommand ==
    /\ phase = "emit" /\ at < Executable
    /\ \A c \in Chosen : c.begin # at
    /\ encoded' = encoded \o commands[at + 1]
    /\ stats' = [stats EXCEPT !.encodedCommands = @ + 1]
    /\ at' = at + 1
    /\ UNCHANGED <<commands, phase, plan, received, expanded, logicalCommands, accepted>>

EmitLoop ==
    /\ phase = "emit" /\ at < Executable
    /\ \E c \in Chosen :
          /\ c.begin = at
          /\ encoded' = encoded \o LoopRecord(c) \o Run(at, c.bodyCommands)
          /\ stats' = [encodedCommands |-> stats.encodedCommands + c.bodyCommands + 1,
                       loops |-> stats.loops + 1,
                       loopedCommands |-> stats.loopedCommands + c.bodyCommands * c.iterations]
          /\ at' = c.end
    /\ UNCHANGED <<commands, phase, plan, received, expanded, logicalCommands, accepted>>

Uncompacted == FlattenSeq(commands)

\* A stream that was cut off, or whose first patch names a header word (as the
\* test of the expansion has it).
Damaged(stream) ==
    {SubSeq(stream, 1, Alignment * k) : k \in 0..(Len(stream) \div Alignment - 1)} \cup
    (IF TypeOf(stream[1]) = AffineLoop /\ stream[LoopWords] > 0
     THEN {[stream EXCEPT ![LoopWords + 1] = 0]} ELSE {})

EmitEnd ==
    /\ phase = "emit" /\ at = Executable
    /\ encoded' = encoded \o Last(commands)
    /\ IF Len(Uncompacted) - Len(encoded') # plan[Executable].best.saved
       THEN phase' = "mismatch" /\ UNCHANGED received
       ELSE phase' = "expand" /\ received' \in {encoded'} \cup Damaged(encoded')
    /\ at' = 0
    /\ UNCHANGED <<commands, plan, stats, expanded, logicalCommands, accepted>>

-----------------------------------------------------------------------------
(* ExpandAffineCommandStream                                               *)

Remaining == Len(received) - at

Word(w) == received[at + w + 1]    \* word w of the record at the offset

RecordType == TypeOf(Word(0))
RecordSize == SizeOf(Word(0))

IsFramed ==
    /\ Remaining >= HeaderWords
    /\ RecordSize >= HeaderWords /\ RecordSize % Alignment = 0 /\ RecordSize <= Remaining

\* The fields of a loop record.
LoopIterations == Word(4)
BodyCommands   == Word(5)
BodyWords      == Word(6)
PatchCount     == Word(7)
Patch(p)       == <<Word(LoopWords + 2 * p - 2), Word(LoopWords + 2 * p - 1)>>

Body == SubSeq(received, at + RecordSize + 1, at + RecordSize + BodyWords)

\* ValidateBody's offsets of the commands of the body, the last one its end;
\* -1 from the first command that is not whole.
BodyOffsets ==
    LET offset[child \in 0..BodyCommands] ==
            IF child = 0 THEN 0
            ELSE LET o    == offset[child - 1]
                     size == SizeOf(Body[o + 1])
                 IN  IF o = -1 \/ BodyWords - o < HeaderWords THEN -1
                     ELSE IF \/ TypeOf(Body[o + 1]) \in {End, AffineLoop}
                             \/ size < HeaderWords \/ size % Alignment # 0
                             \/ size > BodyWords - o
                          THEN -1 ELSE o + size
    IN  offset

\* Ascending, within a command of the body and behind its flags.
PatchesAreValid ==
    \A p \in 1..PatchCount :
        LET word == Patch(p)[1]
        IN  /\ p > 1 => word > Patch(p - 1)[1]
            /\ \E child \in 1..BodyCommands :
                  word \in (BodyOffsets[child - 1] + Unpatchable)..(BodyOffsets[child] - 1)

IsLoop ==
    /\ RecordSize >= LoopWords /\ Word(1) = 0
    /\ LoopIterations >= 2
    /\ BodyCommands \in 1..MaxBody
    /\ PatchCount <= MaxPatches
    /\ RecordSize = DescriptorWords(PatchCount)
    /\ RecordSize + BodyWords <= MaxRecord
    /\ RecordSize + BodyWords <= Remaining
    /\ BodyOffsets[BodyCommands] = BodyWords
    /\ PatchesAreValid

Patched(body) ==
    [w \in DOMAIN body |->
        (body[w] + MapThenSumSet(LAMBDA p : Patch(p)[2],
                                 {p \in 1..PatchCount : Patch(p)[1] + 1 = w})) % WordValues]

\* The body as it is at the end of each iteration.
Unrolled ==
    LET body[k \in 1..LoopIterations] == IF k = 1 THEN Body ELSE Patched(body[k - 1])
    IN  FlattenSeq(body)

ExpandCommand ==
    /\ phase = "expand" /\ IsFramed /\ RecordType \notin {End, AffineLoop}
    /\ expanded' = expanded \o SubSeq(received, at + 1, at + RecordSize)
    /\ at' = at + RecordSize
    /\ logicalCommands' = logicalCommands + 1
    /\ UNCHANGED <<commands, phase, plan, encoded, stats, received, accepted>>

ExpandLoop ==
    /\ phase = "expand" /\ IsFramed /\ RecordType = AffineLoop /\ IsLoop
    /\ expanded' = expanded \o Unrolled
    /\ at' = at + RecordSize + BodyWords
    /\ logicalCommands' = logicalCommands + LoopIterations * BodyCommands
    /\ UNCHANGED <<commands, phase, plan, encoded, stats, received, accepted>>

\* mutated: a stream that stops between records counts as ended
EndsAtBoundary == Remaining = 0 \/ (IsFramed /\ RecordType = End /\ RecordSize = Remaining)

\* END, and nothing behind it.
Ends == IsFramed /\ RecordType = End /\ RecordSize = Remaining

ExpandEnd ==
    /\ phase = "expand" /\ Ends
    /\ expanded' = expanded \o SubSeq(received, at + 1, Len(received))
    /\ phase' = "done" /\ accepted' = TRUE
    /\ at' = Len(received)
    /\ UNCHANGED <<commands, plan, encoded, stats, received, logicalCommands>>

\* Everything else is malformed.
Reject ==
    /\ phase = "expand"
    /\ ~Ends
    /\ IsFramed => RecordType = End \/ (RecordType = AffineLoop /\ ~IsLoop)
    /\ phase' = "done" /\ accepted' = FALSE
    /\ expanded' = <<>> /\ logicalCommands' = 0
    /\ UNCHANGED <<commands, at, plan, encoded, stats, received>>

-----------------------------------------------------------------------------

Init ==
    /\ commands \in {p \in Programs : IsProgram(p)}
    /\ phase = "plan" /\ at = 0
    /\ plan = [k \in 0..Executable |-> [best |-> Zero, previous |-> 0, selected |-> {}]]
    /\ encoded = <<>> /\ received = <<>> /\ expanded = <<>>
    /\ stats = [encodedCommands |-> 0, loops |-> 0, loopedCommands |-> 0]
    /\ logicalCommands = 0 /\ accepted = FALSE

Compact == Plan \/ PlanEnd \/ EmitCommand \/ EmitLoop \/ EmitEnd
Expand  == ExpandCommand \/ ExpandLoop \/ ExpandEnd \/ Reject

Next == Compact \/ Expand

Spec == Init /\ [][Next]_vars

-----------------------------------------------------------------------------
(* Properties                                                              *)

TypeOK ==
    /\ phase \in {"plan", "emit", "expand", "done", "mismatch"}
    /\ at \in Nat /\ logicalCommands \in Nat /\ accepted \in BOOLEAN
    /\ \A s \in {encoded, received, expanded} : \A w \in DOMAIN s : s[w] \in Words
    /\ \A k \in DOMAIN plan :
          /\ plan[k].previous \in 0..k
          /\ \A c \in plan[k].selected : c.begin = plan[k].previous /\ c.end = k

\* The stream the machine expands is the scheduled stream, word for word, and
\* counts its commands (the semantic list "remains the authoritative expanded
\* trace"): nothing is lost in the deltas, the flat patch offsets or the wrap, and
\* what the plan promised is what was emitted (no accounting mismatch).  One that
\* was cut off between records, in a loop body, or whose patch would change a
\* header is never taken for a stream.
RoundTrip ==
    /\ phase # "mismatch"
    /\ phase = "expand" =>
          stats.encodedCommands + plan[Executable].best.reduction = Executable
    /\ phase = "done" =>
          IF received = encoded
          THEN accepted /\ expanded = Uncompacted /\ logicalCommands = Executable
          ELSE ~accepted /\ expanded = <<>>

\* No choice of disjoint candidates is better than the planned one, though the
\* plan looks at each begin once and overwrites what it has for an end.
NoBetterPlan ==
    phase = "emit" /\ at = 0 =>
        LET all == UNION {Candidates(begin) : begin \in 0..(Executable - 1)}
            Disjoint(cs) == \A c, d \in cs : c = d \/ c.end <= d.begin \/ d.end <= c.begin
            Total(cs) == FoldSet(LAMBDA c, score : Plus(score, c), Zero, cs)
        IN  \A cs \in SUBSET all :
                Disjoint(cs) => ~Better(Total(cs), plan[Executable].best)

=============================================================================
