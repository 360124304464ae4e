------------------------- MODULE ContentAnnotation -------------------------
(***************************************************************************)
(* AnnotateContent of neural_ai_command_ir.cpp: every memory access of a   *)
(* stream is annotated with slices that say which command left what it     *)
(* reads, or that a write leaves content of its own; a copy passes the     *)
(* identity of its source on.                                              *)
(*                                                                         *)
(* words is the reference: what each single word of memory holds.          *)
(***************************************************************************)
EXTENDS CommandIR, SequencesExt

CONSTANT Programs   \* the decoded streams considered

VARIABLES
    program,      \* the stream
    current,      \* the command annotated next
    access,       \* and its access
    stored,       \* contentByStorage: per storage, spans in address order
    generation,   \* generationByStorage
    content,      \* per command, the slices of each access annotated so far
    words         \* per word, <<identity, generation>>

vars == <<program, current, access, stored, generation, content, words>>

Initial(storage) == <<<<"initial", storage, 0>>, 0>>   \* InitialContentIdentity
Fresh(i, m)      == <<"command", i, m>>                \* CommandContentIdentity

Slice(begin, end, value) == [begin |-> begin, end |-> end, value |-> value]

\* The words of the accesses, read or written.
WordsOf(prog) == UNION {MemoryCells(prog[i], TRUE) \cup MemoryCells(prog[i], FALSE) : i \in DOMAIN prog}

Init ==
    /\ program \in Programs
    /\ current = 1 /\ access = 1
    /\ stored = [s \in Regions |-> <<>>]
    /\ generation = [s \in Regions |-> 0]
    /\ content = [i \in DOMAIN program |-> <<>>]
    /\ words = [w \in WordsOf(program) |-> Initial(w[1])]

-----------------------------------------------------------------------------
(* Reads                                                                   *)

Smaller(x, y) == IF x < y THEN x ELSE y
Larger(x, y)  == IF x > y THEN x ELSE y

AddContentSlice(slices, begin, end, value) ==
    IF begin = end THEN slices
    ELSE IF slices # <<>> /\ Last(slices).end = begin /\ Last(slices).value = value
    THEN [slices EXCEPT ![Len(slices)].end = end]
    ELSE Append(slices, Slice(begin, end, value))

\* mutated: what lies before the span is taken for the span's
SpanReadGapless(a, cut, span) ==
    [cursor |-> Smaller(a.end, span.end),
     slices |-> AddContentSlice(cut.slices, cut.cursor, Smaller(a.end, span.end), span.value)]

\* The gap before the span, if any, still holds the initial content.
SpanRead(a, cut, span) ==
    LET gapEnd == Larger(cut.cursor, Smaller(span.begin, a.end))
        end    == Smaller(a.end, span.end)
    IN  [cursor |-> end,
         slices |-> AddContentSlice(
                        AddContentSlice(cut.slices, cut.cursor, gapEnd, Initial(a.storage)),
                        gapEnd, end, span.value)]

\* The spans the access does not meet are passed over.
AnnotateRead(a) ==
    LET met  == SelectSeq(stored[a.storage], LAMBDA s : s.begin < a.end /\ a.begin < s.end)
        step(cut, span) == SpanRead(a, cut, span)
        read == FoldLeft(step, [cursor |-> a.begin, slices |-> <<>>], met)
    IN  AddContentSlice(read.slices, read.cursor, a.end, Initial(a.storage))

-----------------------------------------------------------------------------
(* Writes                                                                  *)

IsDMA(c) == c.type \in {"DMA1D", "DMA2D", "DMA3D"}

\* A copy whose source holds one content passes its identity on, when the two
\* bounding spans have one size.
WrittenIdentity(c, m) ==
    LET source == c.accesses[1]
        slices == content[current][1]
    IN  IF /\ IsDMA(c) /\ m = 2
           /\ source.end - source.begin = c.accesses[m].end - c.accesses[m].begin
           /\ Len(slices) = 1
        THEN slices[1].value[1]
        ELSE Fresh(current, m)

LeftOf(span, begin) == IF span.begin < begin THEN <<[span EXCEPT !.end = begin]>> ELSE <<>>
RightOf(span, end)  == IF span.end > end THEN <<[span EXCEPT !.begin = end]>> ELSE <<>>

\* The spans before the new one, what it leaves of the spans it cuts, and the
\* spans after it.
ReplaceContent(spans, new) ==
    LET before == SelectSeq(spans, LAMBDA s : s.end <= new.begin)
        cut    == SelectSeq(spans, LAMBDA s : s.end > new.begin /\ s.begin < new.end)
        after  == SelectSeq(spans, LAMBDA s : s.begin >= new.end)
        pieces(side(_, _), at) == FlattenSeq([k \in DOMAIN cut |-> side(cut[k], at)])
    IN  before \o pieces(LeftOf, new.begin) \o <<new>> \o pieces(RightOf, new.end) \o after

-----------------------------------------------------------------------------

AnnotateReadAccess(a) ==
    /\ ~a.write
    /\ content' = [content EXCEPT ![current] = Append(@, AnnotateRead(a))]
    /\ UNCHANGED <<stored, generation, words>>

AnnotateWriteAccess(c, a) ==
    LET value == <<WrittenIdentity(c, access), generation[a.storage] + 1>>
        slice == Slice(a.begin, a.end, value)
    IN  /\ a.write
        /\ generation' = [generation EXCEPT ![a.storage] = @ + 1]
        /\ content' = [content EXCEPT ![current] = Append(@, <<slice>>)]
        /\ stored' = [stored EXCEPT ![a.storage] = ReplaceContent(@, slice)]
        /\ words' = [w \in DOMAIN words |->
                IF w[1] = a.storage /\ w[2] \in a.begin..(a.end - 1) THEN value ELSE words[w]]

AnnotateAccess ==
    /\ current <= Len(program)
    /\ access <= Len(program[current].accesses)
    /\ LET c == program[current]
       IN  AnnotateReadAccess(c.accesses[access]) \/ AnnotateWriteAccess(c, c.accesses[access])
    /\ access' = access + 1
    /\ UNCHANGED <<program, current>>

NextCommand ==
    /\ current <= Len(program)
    /\ access > Len(program[current].accesses)
    /\ current' = current + 1
    /\ access' = 1
    /\ UNCHANGED <<program, stored, generation, content, words>>

Next == AnnotateAccess \/ NextCommand
Spec == Init /\ [][Next]_vars

-----------------------------------------------------------------------------
(* Properties *)

Tiles(slices, begin, end) ==
    /\ slices # <<>>
    /\ slices[1].begin = begin /\ Last(slices).end = end
    /\ \A k \in DOMAIN slices : slices[k].begin < slices[k].end
    /\ \A k \in 1..(Len(slices) - 1) : slices[k].end = slices[k + 1].begin

\* The counters stay inside the stream and the spans of every storage are in
\* address order and apart, which the walk over them relies on.
TypeOK ==
    /\ current \in 1..(Len(program) + 1)
    /\ access \in Nat \ {0}
    /\ \A s \in Regions : \A k \in 1..(Len(stored[s]) - 1) :
          stored[s][k].end <= stored[s][k + 1].begin

\* However writes have cut and covered one another, the spans kept say of
\* every word what the last write of that word left (ReplaceContent).
StoredContentIsExact ==
    \A w \in DOMAIN words :
        LET here == {k \in DOMAIN stored[w[1]] :
                        stored[w[1]][k].begin <= w[2] /\ w[2] < stored[w[1]][k].end}
        IN  words[w] = IF here = {} THEN Initial(w[1])
                       ELSE stored[w[1]][CHOOSE k \in here : TRUE].value

\* A read is annotated with what each of its words holds, slice by slice,
\* and with the fewest slices that say so (AnnotateRead).
ReadsAreAnnotatedExactly ==
    [][LET a == program[current].accesses[access]
           slices == AnnotateRead(a)
       IN  access' = access + 1 /\ ~a.write =>
              /\ Tiles(content'[current][access], a.begin, a.end)
              /\ \A k \in DOMAIN slices :
                    /\ \A o \in slices[k].begin..(slices[k].end - 1) :
                          words[<<a.storage, o>>] = slices[k].value
                    /\ k > 1 => slices[k - 1].value # slices[k].value]_vars

=============================================================================
