---------------------------- MODULE MemoryState ----------------------------
(***************************************************************************)
(* CommandMemoryState (neural_ai_memory_state.hpp): which logical content  *)
(* each range of a command-visible memory holds, kept as a sorted list of  *)
(* spans.  The generator asks it which weights and rows are resident, so a *)
(* wrong answer drops a transfer that is needed.                           *)
(*                                                                         *)
(* words is the reference: what each single word holds.  Addresses stay    *)
(* far from the 32-bit limits the class guards, which are left out.        *)
(***************************************************************************)
EXTENDS Integers, Sequences, FiniteSets, FiniteSetsExt, Functions

CONSTANTS
    Words,      \* the memory has addresses 0..Words-1
    Contents,   \* identity and generation of a content
    Offsets     \* content offsets that writes start from (a bound)

\* Sizes and offsets are unsigned.
ASSUME MemoryAssumption == Words \in Nat /\ Offsets \subseteq Nat

VARIABLES
    spans,      \* _spans
    words       \* per address, <<content, content offset>> or <<>>

memoryVars == <<spans, words>>

Span(begin, end, content, offset) ==
    [begin |-> begin, end |-> end, content |-> content, offset |-> offset]

MemoryInit ==
    /\ spans = <<>>
    /\ words = [a \in 0..(Words - 1) |-> <<>>]

-----------------------------------------------------------------------------
(* Replace                                                                 *)

LeftOf(span, begin) == IF span.begin < begin THEN {[span EXCEPT !.end = begin]} ELSE {}

\* mutated: the content offset of the remainder is not moved with it
RightOfUnshifted(span, end) == IF span.end > end THEN {[span EXCEPT !.begin = end]} ELSE {}

RightOf(span, end) ==
    IF span.end > end
    THEN {[span EXCEPT !.begin = end, !.offset = @ + end - span.begin]} ELSE {}

\* What is left of a span around begin..end-1.
Pieces(span, begin, end) ==
    IF span.begin < end /\ begin < span.end THEN LeftOf(span, begin) \cup RightOf(span, end) ELSE {span}

Cut(begin, end) == UNION {Pieces(s, begin, end) : s \in Range(spans)}

Continues(last, span) ==
    /\ last.end = span.begin
    /\ last.content = span.content
    /\ last.offset + last.end - last.begin = span.offset

Merge(merged, span) ==
    LET last == merged[Len(merged)]
    IN  IF merged # <<>> /\ Continues(last, span)
        THEN [merged EXCEPT ![Len(merged)].end = span.end]
        ELSE Append(merged, span)

\* The spans in the order of their addresses, each merged with those before.
MergeNext(state) ==
    LET span == CHOOSE s \in state.rest : \A t \in state.rest : s.begin <= t.begin
    IN  [rest |-> state.rest \ {span}, merged |-> Merge(state.merged, span)]

Merged(set) ==
    LET after[k \in 0..Cardinality(set)] ==
            IF k = 0 THEN [rest |-> set, merged |-> <<>>] ELSE MergeNext(after[k - 1])
    IN  after[Cardinality(set)].merged

Replaced(begin, end, new) == Merged(Cut(begin, end) \cup new)

WriteContent(begin, size, content, offset) ==
    /\ spans' = IF size = 0 THEN spans
                ELSE Replaced(begin, begin + size,
                              {Span(begin, begin + size, content, offset)})
    /\ words' = [a \in DOMAIN words |->
                    IF a \in begin..(begin + size - 1)
                    THEN <<content, offset + a - begin>> ELSE words[a]]

InvalidateRange(begin, size) ==
    /\ spans' = IF size = 0 THEN spans ELSE Replaced(begin, begin + size, {})
    /\ words' = [a \in DOMAIN words |->
                    IF a \in begin..(begin + size - 1) THEN <<>> ELSE words[a]]

Clear ==
    /\ spans' = <<>>
    /\ words' = [a \in DOMAIN words |-> <<>>]

Ranges == {r \in (0..(Words - 1)) \X (0..Words) : r[1] + r[2] <= Words}

MemoryNext ==
    \/ \E r \in Ranges, c \in Contents, o \in Offsets : WriteContent(r[1], r[2], c, o)
    \/ \E r \in Ranges : InvalidateRange(r[1], r[2])
    \/ Clear

MemorySpec == MemoryInit /\ [][MemoryNext]_memoryVars

-----------------------------------------------------------------------------
(* The queries                                                             *)

\* The cursor after the next span; -1 when the answer is false.
NextCursor(cursor, s, address, end, content, offset) ==
    IF cursor \in {-1, end} \/ s.end <= cursor THEN cursor
    ELSE IF \/ s.begin > cursor
            \/ s.content # content
            \/ s.offset + cursor - s.begin # offset + cursor - address
         THEN -1
    ELSE IF s.end < end THEN s.end ELSE end

\* The loop walks the spans from the cursor and stops at the first hole,
\* other content or other offset.
ContainsRange(address, size, content, offset) ==
    LET end == address + size
        cursorAfter[k \in 0..Len(spans)] ==
            IF k = 0 THEN address
            ELSE NextCursor(cursorAfter[k - 1], spans[k], address, end, content, offset)
    IN  size = 0 \/ cursorAfter[Len(spans)] = end

HasOffset(s, content, offset) ==
    s.content = content /\ offset >= s.offset /\ offset < s.offset + s.end - s.begin

AddressOf(s, offset) == s.begin + offset - s.offset

\* Find for size > 0; -1 for nullopt.
FindContent(content, offset, size) ==
    LET found == {k \in DOMAIN spans : /\ spans[k].content = content
                                      /\ offset >= spans[k].offset
                                      /\ offset + size <= spans[k].offset + spans[k].end - spans[k].begin}
    IN  IF found = {} THEN -1 ELSE AddressOf(spans[Min(found)], offset)

\* FindExtent for maxSize > 0, as <<address, size>>; <<>> for nullopt.
FindExtent(content, offset, maxSize) ==
    LET found == {k \in DOMAIN spans : HasOffset(spans[k], content, offset)}
        first == spans[Min(found)]
        left  == first.offset + first.end - first.begin - offset
    IN  IF found = {} THEN <<>>
        ELSE <<AddressOf(first, offset), IF left < maxSize THEN left ELSE maxSize>>

\* What is matched after a round of the loop, which takes the rest of one span.
Advance(address, maxSize, content, offset, matched) ==
    LET cursor == address + matched
        at == {k \in DOMAIN spans : spans[k].begin <= cursor /\ cursor < spans[k].end}
        s == spans[Min(at)]
    IN  IF \/ matched = maxSize
           \/ at = {}
        THEN matched
        ELSE IF \/ s.content # content
                \/ s.offset + cursor - s.begin # offset + matched
        THEN matched
        ELSE IF matched + s.end - cursor < maxSize THEN matched + s.end - cursor ELSE maxSize

\* Every round but the last matches a byte at least.
MatchedPrefix(address, maxSize, content, offset) ==
    LET matched[k \in 0..maxSize] ==
            IF k = 0 THEN 0 ELSE Advance(address, maxSize, content, offset, matched[k - 1])
    IN  matched[maxSize]

-----------------------------------------------------------------------------
(* Properties *)

WordsHold(address, size, content, offset) ==
    \A k \in 0..(size - 1) :
        address + k \in DOMAIN words /\ words[address + k] = <<content, offset + k>>

\* The spans are in order and apart, and no two neighbours could be one: the
\* queries look at one span at a time and rely on it (Replace).
SpansAreMaximal ==
    /\ \A k \in DOMAIN spans : spans[k].begin < spans[k].end
    /\ \A k \in 1..(Len(spans) - 1) :
          spans[k].end <= spans[k + 1].begin /\ ~Continues(spans[k], spans[k + 1])

\* The spans describe exactly the words: every range reported to hold a
\* content holds it, and no range that does is missed (Contains).
ContainsIsExact ==
    \A r \in Ranges, c \in Contents, o \in 0..Words :
        ContainsRange(r[1], r[2], c, o) <=> WordsHold(r[1], r[2], c, o)

\* Find and FindExtent return a place that holds the content asked for, find
\* one whenever there is one, and an extent ends where the content does or the
\* caller's limit is reached.
FindIsExact ==
    \A c \in Contents, o \in 0..Words, size \in 1..Words :
        /\ LET a == FindContent(c, o, size)
           IN  IF a = -1 THEN \A r \in Ranges : r[2] = size => ~WordsHold(r[1], size, c, o)
               ELSE WordsHold(a, size, c, o)
        /\ LET e == FindExtent(c, o, size)
           IN  IF e = <<>> THEN \A a \in DOMAIN words : ~WordsHold(a, 1, c, o)
               ELSE /\ WordsHold(e[1], e[2], c, o)
                    /\ e[2] = size \/ ~WordsHold(e[1], e[2] + 1, c, o)

\* MatchedPrefix is the longest prefix of the range with the content, whether
\* it lies in one span or in several.
MatchedPrefixIsLongest ==
    \A r \in Ranges, c \in Contents, o \in 0..Words :
        LET m == MatchedPrefix(r[1], r[2], c, o)
        IN  WordsHold(r[1], m, c, o) /\ (m = r[2] \/ ~WordsHold(r[1], m + 1, c, o))

\* After any writes, invalidations and clears, the queries of CommandMemoryState
\* answer as a memory of single words would.
QueriesAreExact ==
    ContainsIsExact /\ FindIsExact /\ MatchedPrefixIsLongest /\ SpansAreMaximal

=============================================================================
