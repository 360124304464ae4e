--------------------------- MODULE StripeStaging ----------------------------
(***************************************************************************)
(* Staging the input of a convolution stripe in local memory               *)
(* (PlanStripeStaging in neural_ai_linebuffer_planner.cpp,                 *)
(* AppendStripeStaging in neural_ai_command_generator.cpp): padding is     *)
(* filled, rows that are already in local memory are kept or copied there, *)
(* and only the rest is loaded.                                            *)
(*                                                                         *)
(* A store is a record of tcdm, what each unit of local memory holds, and  *)
(* claims, what tcdmContent says it holds.  MemoryState checks that the    *)
(* spans of tcdmContent answer like such a map.                            *)
(***************************************************************************)
EXTENDS LinebufferJobs, SequencesExt

Unclaimed == <<>>
Tensor == <<"tensor">>
Padding(value) == <<"padding", value>>

Seed == C32                  \* PaddingSeedBytes
Aligned(n) == CeilDiv(n, C32) * C32

-----------------------------------------------------------------------------
(* PlanStripeStaging                                                       *)

StoredChannels(in) == IF in.direct THEN in.channels ELSE Aligned(in.channels)
SourcePixel(in) == IF in.direct \/ in.compact THEN in.channels ELSE C32
StagedPixel(in) == IF in.direct THEN in.channels ELSE C32
StagedH(in)     == in.padTop + in.h + in.padBottom
StagedW(in)     == in.padLeft + in.w + in.padRight
StagedBytes(in) == StagedH(in) * StagedW(in) * StoredChannels(in)

\* The rows between two wraps of a rolling storage: where they start and how
\* many there are.
Segments(in) ==
    LET starts == {0} \cup {k \in 1..(in.h - 1) : (in.y + k) % in.storageH = 0}
        End(k) == Min({in.h} \cup {j \in starts : j > k})
    IN  SetToSortSeq({<<k, End(k) - k>> : k \in starts}, LAMBDA a, b : a[1] < b[1])

CopyOf(in, group, first, rows) ==
    LET channels  == IF in.direct THEN in.channels ELSE AtMost(C32, in.channels - group * C32)
        strided   == ~in.direct /\ (in.compact \/ channels < C32)
        sourceRow == in.storageW * SourcePixel(in)
        stagedRow == StagedW(in) * StagedPixel(in)
        source    == in.sourceBase
                         + group * (IF in.compact THEN C32 ELSE in.storageH * sourceRow)
                         + ((in.y + first) % in.storageH) * sourceRow + in.x * SourcePixel(in)
        staged    == in.stagingBase + group * StagedH(in) * stagedRow
                         + (in.padTop + first) * stagedRow + in.padLeft * StagedPixel(in)
        \* rows of segments: one per pixel when the channels do not fill it
        pixels    == IF strided THEN in.w ELSE 1
    IN  [source |-> source, staged |-> staged, strided |-> strided,
         length |-> IF strided THEN channels ELSE in.w * SourcePixel(in),
         pixels |-> pixels, sourcePixel |-> SourcePixel(in),
         rows |-> rows, sourceRow |-> sourceRow, stagedRow |-> stagedRow]

PlanStripeStaging(in) ==
    LET groups == IF in.direct THEN 1 ELSE StoredChannels(in) \div C32
    IN  [bytes |-> StagedBytes(in),
         copies |-> FlattenSeq([g \in 1..groups |->
                        [i \in DOMAIN Segments(in) |->
                            CopyOf(in, g - 1, Segments(in)[i][1], Segments(in)[i][2])]])]

-----------------------------------------------------------------------------
(* The units a copy moves                                                  *)

Units(copy) == (0..(copy.rows - 1)) \X (0..(copy.pixels - 1)) \X (0..(copy.length - 1))
StagedUnit(copy, u) == copy.staged + u[1] * copy.stagedRow + u[2] * C32 + u[3]
SourceUnit(copy, u) == copy.source + u[1] * copy.sourceRow + u[2] * copy.sourcePixel + u[3]
RowUnits(copy, row) == {u \in Units(copy) : u[1] = row}

Range0(base, size) == base..(base + size - 1)

Holds(st, base, size, content, offset) ==
    \A a \in Range0(base, size) : st.claims[a] = <<content, offset + a - base>>

Claim(st, base, size, content, offset) ==
    [st EXCEPT !.claims = [a \in DOMAIN @ |->
        IF a \in Range0(base, size) THEN <<content, offset + a - base>> ELSE @[a]]]

Invalidate(st, base, size) ==
    [st EXCEPT !.claims = [a \in DOMAIN @ |-> IF a \in Range0(base, size) THEN Unclaimed ELSE @[a]]]

\* A local transfer, with the claim that follows it.
CopyLocal(st, from, to, size, offset) ==
    Claim([st EXCEPT !.tcdm = [a \in DOMAIN @ |->
              IF a \in Range0(to, size) THEN @[from + a - to] ELSE @[a]]],
          to, size, Tensor, offset)

\* FindExtent: the first place that holds the offset, as far as it continues.
Extent(st, offset, maxSize) ==
    LET places == {a \in DOMAIN st.claims : st.claims[a] = <<Tensor, offset>>}
        at     == Min(places)
    IN  IF places = {} THEN <<>>
        ELSE <<at, Max({n \in 1..maxSize :
                            /\ at + n - 1 \in DOMAIN st.claims
                            /\ Holds(st, at, n, Tensor, offset)})>>

\* Find: the first place that holds all of it, -1 when there is none.
Find(st, offset, size) ==
    LET places == {a \in DOMAIN st.claims : /\ a + size - 1 \in DOMAIN st.claims
                                            /\ Holds(st, a, size, Tensor, offset)}
    IN  IF places = {} THEN -1 ELSE Min(places)

-----------------------------------------------------------------------------
(* AppendStripeStaging: the padding                                        *)

ValidUnits(plan) ==
    UNION {{StagedUnit(plan.copies[k], u) : u \in Units(plan.copies[k])} : k \in DOMAIN plan.copies}

\* The ranges of the staging area that no copy writes.
Gaps(in, plan) ==
    LET area == Range0(in.stagingBase, plan.bytes) \ ValidUnits(plan)
        Ends(b) == {e \in area : e >= b /\ b..e \subseteq area /\ e + 1 \notin area}
    IN  {<<b, Min(Ends(b)) + 1 - b>> : b \in {a \in area : a - 1 \notin area}}

\* The seed is loaded once and every gap is filled from it; a small staging
\* area is filled from the constant itself.
SeedLoaded(st, in, plan) ==
    IF plan.bytes > Seed /\ ~Holds(st, in.seed, Seed, Padding(in.pad), 0)
    THEN Claim([st EXCEPT !.tcdm = [a \in DOMAIN @ |->
                   IF a \in Range0(in.seed, Seed) THEN Padding(in.pad) ELSE @[a]]],
               in.seed, Seed, Padding(in.pad), 0)
    ELSE st

Filled(st, in, plan) ==
    LET s == SeedLoaded(st, in, plan)
        missing == {g \in Gaps(in, plan) : ~Holds(s, g[1], g[2], Padding(in.pad), 0)}
        begin == [a \in UNION {Range0(g[1], g[2]) : g \in missing} |->
                     Max({g[1] : g \in {h \in missing : h[1] <= a}})]
        FillValue(a) == IF plan.bytes > Seed THEN s.tcdm[in.seed + ((a - begin[a]) % Seed)]
                        ELSE Padding(in.pad)
    IN  [tcdm |-> [a \in DOMAIN s.tcdm |->
                      IF a \in DOMAIN begin THEN FillValue(a) ELSE s.tcdm[a]],
         claims |-> [a \in DOMAIN s.claims |->
                      IF a \in DOMAIN begin THEN <<Padding(in.pad), a - begin[a]>> ELSE s.claims[a]]]

-----------------------------------------------------------------------------
(* AppendStripeStaging: the rows                                           *)

Apart(a, b, size) == a + size <= b \/ b + size <= a

\* A whole row: as much as one place of local memory still holds is copied.
RestoreRow(st, copy, row) ==
    LET staged == copy.staged + row * copy.stagedRow
        source == copy.source + row * copy.sourceRow
        extent == Extent(st, source, copy.length)
    IN  IF \/ Holds(st, staged, copy.length, Tensor, source)
           \/ extent = <<>>
        THEN st
        ELSE IF ~Apart(extent[1], staged, extent[2]) THEN st
        ELSE CopyLocal(st, extent[1], staged, extent[2], source)

\* A row of strided pixels: all of them are found, equally far apart, or none
\* is copied (the branch on repetitions3).
RestorePixels(st, copy, row) ==
    LET staged == copy.staged + row * copy.stagedRow
        source == copy.source + row * copy.sourceRow
        found  == [p \in 0..(copy.pixels - 1) |->
                      Find(st, source + p * copy.sourcePixel, copy.length)]
        stride == IF copy.pixels > 1 THEN found[1] - found[0] ELSE copy.length
        end    == staged + (copy.pixels - 1) * C32 + copy.length
        offset == [a \in {staged + p * C32 + k :
                             p \in 0..(copy.pixels - 1), k \in 0..(copy.length - 1)} |-> a - staged]
    IN  IF /\ \A p \in DOMAIN found : found[p] >= 0
           /\ stride >= 0
           /\ \A p \in DOMAIN found : /\ found[p] = found[0] + p * stride
                                      /\ found[p] >= end \/ found[p] + copy.length <= staged
        THEN [tcdm |-> [a \in DOMAIN st.tcdm |->
                  IF a \in DOMAIN offset
                  THEN st.tcdm[found[offset[a] \div C32] + (offset[a] % C32)] ELSE st.tcdm[a]],
              claims |-> [a \in DOMAIN st.claims |->
                  IF a \in DOMAIN offset
                  THEN <<Tensor, source + (offset[a] \div C32) * copy.sourcePixel + (offset[a] % C32)>>
                  ELSE st.claims[a]]]
        ELSE st

Restored(st, copy) ==
    LET rows == [i \in 1..copy.rows |-> i - 1]
    IN  IF copy.strided THEN FoldLeft(LAMBDA s, r : RestorePixels(s, copy, r), st, rows)
        ELSE FoldLeft(LAMBDA s, r : RestoreRow(s, copy, r), st, rows)

\* mutated: any rows of the tensor will do
IsAnyResident(st, copy, u) ==
    LET c == st.claims[StagedUnit(copy, u)] IN c # Unclaimed /\ c[1] = Tensor

IsResident(st, copy, u) == st.claims[StagedUnit(copy, u)] = <<Tensor, SourceUnit(copy, u)>>

\* What is transferred: all of a row from its first unit that is not resident,
\* and a row of strided pixels as a whole.
Missing(st, copy) ==
    {u \in Units(copy) : \E v \in RowUnits(copy, u[1]) :
        ~IsResident(st, copy, v) /\ (copy.strided \/ v[3] <= u[3])}

\* One copy of the plan.  Rows of a tensor in local memory are always copied,
\* and what is copied from there is not claimed.
Loaded(st, copy, source, external) ==
    LET s == IF external THEN Restored(st, copy) ELSE st
        from == [a \in {StagedUnit(copy, u) : u \in Units(copy)} |->
                    LET k == a - copy.staged
                        p == IF copy.strided THEN (k % copy.stagedRow) \div C32 ELSE 0
                    IN  copy.source + (k \div copy.stagedRow) * copy.sourceRow
                            + p * copy.sourcePixel + (k % copy.stagedRow) - p * C32]
        moved == IF external THEN {StagedUnit(copy, u) : u \in Missing(s, copy)} ELSE DOMAIN from
    IN  [tcdm |-> [a \in DOMAIN s.tcdm |-> IF a \in moved THEN source[from[a]] ELSE s.tcdm[a]],
         claims |-> [a \in DOMAIN s.claims |->
                        IF a \notin DOMAIN from THEN s.claims[a]
                        ELSE IF external THEN <<Tensor, from[a]>> ELSE Unclaimed]]

-----------------------------------------------------------------------------
(* AppendStripeStaging: the last rows are kept for the next stripe         *)

CopyHalo(st, halo, copy) ==
    LET rows   == AtMost(halo.rows, copy.rows)
        first  == copy.rows - rows
        left   == halo.base + halo.bytes - st.cursor
        length == IF copy.strided THEN copy.length
                  ELSE AtMost(copy.length, ((left \div rows) \div C32) * C32)
        packed == copy.pixels * length
        Fits   == packed > 0 /\ rows * packed <= left
        Staged(k) == copy.staged + (first + (k \div packed)) * copy.stagedRow
                         + ((k % packed) \div length) * C32 + (k % length)
        Source(k) == copy.source + (first + (k \div packed)) * copy.sourceRow
                         + ((k % packed) \div length) * copy.sourcePixel + (k % length)
        into   == Range0(st.cursor, rows * packed)
    IN  IF ~Fits THEN st
        ELSE [tcdm |-> [a \in DOMAIN st.tcdm |->
                           IF a \in into THEN st.tcdm[Staged(a - st.cursor)] ELSE st.tcdm[a]],
              claims |-> [a \in DOMAIN st.claims |->
                           IF a \in into THEN <<Tensor, Source(a - st.cursor)>> ELSE st.claims[a]],
              cursor |-> st.cursor + rows * packed]

HaloKept(st, halo, plan) ==
    IF halo.bytes = 0 \/ halo.rows = 0 THEN st
    ELSE LET s == FoldLeft(LAMBDA t, c : CopyHalo(t, halo, c),
                           [tcdm |-> st.tcdm, claims |-> st.claims, cursor |-> halo.base],
                           plan.copies)
         IN  [tcdm |-> s.tcdm, claims |-> s.claims]

NoHalo == [base |-> 0, bytes |-> 0, rows |-> 0]

\* AppendStripeStaging
Staged(st, in, plan, source, external, fill, halo) ==
    HaloKept(FoldLeft(LAMBDA s, c : Loaded(s, c, source, external),
                      IF fill THEN Filled(st, in, plan) ELSE st, plan.copies),
             halo, plan)

-----------------------------------------------------------------------------
(* MakeLinebufferSpillStaging                                              *)

\* One dimension of the valid area, with the padding on both sides of it.
ValidArea(base, count, stride, pad, kernel, size) ==
    LET begin == base * stride - pad
        end   == (base + count - 1) * stride - pad + kernel
    IN  [start |-> Clamp(begin, 0, size), size |-> Clamp(end, 0, size) - Clamp(begin, 0, size),
         before |-> AtLeast(0, -begin), after |-> AtLeast(0, end - size)]

\* Every claim about local memory is true of it.
ClaimsAreTrue(st, source) ==
    \A a \in DOMAIN st.claims :
        LET c == st.claims[a]
        IN  c # Unclaimed => st.tcdm[a] = IF c[1] = Tensor THEN source[c[2]] ELSE c[1]

=============================================================================
