------------------------- MODULE CascadeWorkspaces --------------------------
(***************************************************************************)
(* The local memory a cascade works in (neural_ai_command_generator.cpp):  *)
(* each operation gets a place for its staged weights, its kept input      *)
(* rows, its partial sums and its stripe (SelectWorkspace), the sizes      *)
(* leave room for one another (FitCascadeHaloWorkspaces), and each stripe  *)
(* stages its input and runs there (AppendC32MatrixStripe).  The stripes   *)
(* come in the order of RollingCascade.                                    *)
(*                                                                         *)
(* A unit of memory is a row of one pixel and one channel group: DMA       *)
(* alignment and padding seed are one unit.  The weights and the kept rows *)
(* of an operation stay for the whole cascade, the partial sums and the    *)
(* stripe are shared with the other operations.                            *)
(***************************************************************************)
EXTENDS RollingCascade

\* What the workspaces add to a cascade: sizes, and the ranges of live tensors.
HasSizes(c) ==
    /\ \A i \in Ops(c) : /\ c.ops[i].stage \in Nat /\ c.ops[i].partial \in Nat
                         /\ c.ops[i].spillOut \in BOOLEAN
    /\ c.external \in BOOLEAN /\ c.tcdm \in Nat
    /\ c.live \subseteq Nat \X Nat

ASSUME SizesAssumption == \A c \in Cascades : HasSizes(c)

VARIABLES
    place,       \* workspaceOffsets: where the parts of an operation are
    kept,        \* workspaceAllocations: the parts that stay, as <<begin, end>>
    owner,       \* contentOperation, 0 at the beginning
    st,          \* local memory and tcdmContent
    staged,      \* the operations with linebufferWeightsStaged
    refused,     \* a workspace found no room
    exact        \* did the last stripe run on the right input and weights?

workspaceVars == <<place, kept, owner, st, staged, refused, exact>>

Stage == INSTANCE StripeStaging WITH C32 <- 1, MaxTileWidth <- 1, InternalRows <- 1

Op(i)      == cascade.ops[i]
PaddingSeed == 1

-----------------------------------------------------------------------------
(* The sizes                                                               *)

\* The stage of stripe n of operation i (StripeStagingInput).
StagingOf(c, h, i, n, base, seed) ==
    LET first == OfmStart(h, i, n) * c.ops[i].stride - c.ops[i].top
        end   == (OfmEnd(c, h, i, n) - 1) * c.ops[i].stride - c.ops[i].top + c.ops[i].kernel
    IN  [y |-> IfmStart(c, h, i, n), h |-> IfmEnd(c, h, i, n) - IfmStart(c, h, i, n),
         padTop |-> AtLeast(0, -first), padBottom |-> AtLeast(0, end - IfmH(c, i)),
         x |-> 0, w |-> 1, padLeft |-> 0, padRight |-> 0,
         storageH |-> IF i = 1 THEN c.height ELSE BufferHeight(c, h, i - 1), storageW |-> 1,
         channels |-> 1, direct |-> FALSE, compact |-> FALSE,
         sourceBase |-> 0, stagingBase |-> base, seed |-> seed, pad |-> c.ops[i].padding]

\* CascadeLinebufferStripeBytes: the input, the output in L2, the seed.
StripeBytes(c, h, i, n) ==
    Stage!StagedBytes(StagingOf(c, h, i, n, 0, 0))
        + (IF c.ops[i].spillOut THEN OfmEnd(c, h, i, n) - OfmStart(h, i, n) ELSE 0) + PaddingSeed

StripeSize(c, h, i) ==
    IF c.ops[i].linebuffer THEN Max({StripeBytes(c, h, i, n) : n \in 0..(Stripes(c, h, i) - 1)})
    ELSE 0

TransientSize(c, h, i) == c.ops[i].partial + StripeSize(c, h, i)

\* CascadeHaloWorkspace: the rows two stripes share, for an input in L2.
HaloRows(c) == IF c.external /\ c.ops[1].linebuffer
               THEN AtLeast(0, c.ops[1].kernel - c.ops[1].stride) ELSE 0

Persistent(c) ==
    LET sum[i \in 0..Len(c.ops)] == IF i = 0 THEN 0 ELSE sum[i - 1] + c.ops[i].stage
    IN  sum[Len(c.ops)]

Transient(c, h) == Max({TransientSize(c, h, i) : i \in Ops(c)})
LiveBytes(c)    == FoldSet(LAMBDA r, n : n + r[2] - r[1], 0, c.live)

\* mutated: only the workspaces that stay are left room for
HaloBesidePersistent(c, h) ==
    AtMost(HaloRows(c), AtLeast(0, c.tcdm - LiveBytes(c) - Persistent(c)))

\* FitCascadeHaloWorkspaces: what the tensors and the other workspaces leave.
HaloSize(c, h) ==
    AtMost(HaloRows(c), AtLeast(0, c.tcdm - LiveBytes(c) - Persistent(c) - Transient(c, h)))

Sizes(i) == [stage |-> Op(i).stage, halo |-> IF i = 1 THEN HaloSize(cascade, stripe) ELSE 0,
             partial |-> Op(i).partial, stripe |-> StripeSize(cascade, stripe, i)]

Total(s) == s.stage + s.halo + s.partial + s.stripe

-----------------------------------------------------------------------------
(* SelectWorkspace                                                         *)

Part(base, bytes) == IF bytes = 0 THEN {} ELSE {<<base, base + bytes>>}

\* allocatePart: the first gap that is large enough.
FirstFit(occupied, bytes) ==
    IF bytes = 0 THEN 0
    ELSE Min({b \in {0} \cup {r[2] : r \in occupied} :
                 \A r \in occupied : b + bytes <= r[1] \/ r[2] <= b})

Placement(i) ==
    LET s       == Sizes(i)
        taken   == cascade.live \cup kept
        stage   == FirstFit(taken, s.stage)
        taken2  == taken \cup Part(stage, s.stage)
        halo    == FirstFit(taken2, s.halo)
        taken3  == taken2 \cup Part(halo, s.halo)
        partial == FirstFit(taken3, s.partial)
        taken4  == taken3 \cup Part(partial, s.partial)
    IN  [stage |-> stage, halo |-> halo, partial |-> partial, stripe |-> FirstFit(taken4, s.stripe)]

\* mutated: only the kept rows stay, the weights do not
KeptHalo(p, s) == Part(p.halo, s.halo)

KeptParts(p, s) == Part(p.stage, s.stage) \cup Part(p.halo, s.halo)

Ends(p, s) == [stage |-> p.stage + s.stage, halo |-> p.halo + s.halo,
               partial |-> p.partial + s.partial, stripe |-> p.stripe + s.stripe]

FitsMemory(p, s) == \A part \in DOMAIN Ends(p, s) : Ends(p, s)[part] <= cascade.tcdm

Dropped(t, base, bytes) == IF bytes = 0 THEN t ELSE Stage!Invalidate(t, base, bytes)

\* mutated: the partial sums of another operation are forgotten
ActivatedWithoutPartial(t, p, s, isNew) ==
    LET u == Dropped(Dropped(t, p.stage, s.stage), p.stripe, s.stripe - PaddingSeed)
    IN  IF isNew THEN Dropped(u, p.halo, s.halo) ELSE u

\* activatePlacement: another operation may have written all but the kept
\* rows; the padding seed is recognised by its content.
Activated(t, p, s, isNew) ==
    LET u == Dropped(Dropped(Dropped(t, p.partial, s.partial), p.stage, s.stage),
                     p.stripe, s.stripe - PaddingSeed)
    IN  IF isNew THEN Dropped(u, p.halo, s.halo) ELSE u

-----------------------------------------------------------------------------
(* The stripes                                                             *)

Write(t, base, values) ==
    [t EXCEPT !.tcdm = [a \in DOMAIN @ |->
        IF a - base \in 0..(Len(values) - 1) THEN values[a - base + 1] ELSE @[a]]]

Weight(i, k) == <<"weights", i, k>>
Bytes(what, i, bytes) == [k \in 1..bytes |-> <<what, i>>]

\* The input of operation i: an L2 tensor, or the rolling buffer.
InputRow(i, y) == <<"row", i, y>>
SourceOf(i) == IF i = 1 THEN [y \in 0..(cascade.height - 1) |-> InputRow(1, y)]
               ELSE [slot \in DOMAIN rolling[i - 1] |-> InputRow(i, rolling[i - 1][slot])]

\* The rows and the padding that the jobs of stripe n must find.
IsInput(t, i, in) ==
    \A k \in 0..(Stage!StagedH(in) - 1) :
        t.tcdm[in.stagingBase + k] =
            IF k - in.padTop \in 0..(in.h - 1) THEN InputRow(i, in.y + k - in.padTop)
            ELSE Stage!Padding(in.pad)

\* A stripe of a linebuffer convolution: the input is staged, the weights are
\* loaded the first time, the jobs use the partial sums, and an output that
\* goes to L2 is gathered before the seed.
ConvStripe(t, i, p, s) ==
    LET in == StagingOf(cascade, stripe, i, next[i], p.stripe, p.stripe + s.stripe - PaddingSeed)
        needsFill == in.padTop # 0 \/ in.padBottom # 0
        input == Stage!Staged(t, in, Stage!PlanStripeStaging(in), SourceOf(i),
                              i = 1 /\ cascade.external, needsFill,
                              [base |-> p.halo, bytes |-> s.halo,
                               rows |-> IF i = 1 THEN HaloRows(cascade) ELSE 0])
        ready == IF i \in staged THEN input
                 ELSE Write(input, p.stage, [k \in 1..s.stage |-> Weight(i, k - 1)])
        rows  == IF Op(i).spillOut
                 THEN OfmEnd(cascade, stripe, i, next[i]) - OfmStart(stripe, i, next[i]) ELSE 0
        local == p.stripe + StripeBytes(cascade, stripe, i, next[i]) - PaddingSeed - rows
        ran   == Write(Write(ready, p.partial, Bytes("psum", i, s.partial)),
                       local, Bytes("output", i, rows))
    IN  [st |-> Dropped(ran, local, rows),
         exact |-> [input |-> IsInput(ready, i, in),
                    weights |-> \A k \in 0..(s.stage - 1) :
                                    ready.tcdm[p.stage + k] = Weight(i, k)]]

\* A pointwise stripe passes its rows through its stage and partial sums.
OtherStripe(t, i, p, s) ==
    [st |-> Write(Write(t, p.stage, Bytes("rows", i, s.stage)),
                  p.partial, Bytes("psum", i, s.partial)),
     exact |-> [input |-> TRUE, weights |-> TRUE]]

WorkspaceInit ==
    /\ Init
    /\ place = [i \in Ops(cascade) |-> <<>>]
    /\ kept = {} /\ owner = 0 /\ staged = {} /\ refused = FALSE
    /\ st = [tcdm   |-> [a \in 0..(cascade.tcdm - 1) |-> <<"free">>],
             claims |-> [a \in 0..(cascade.tcdm - 1) |-> Stage!Unclaimed]]
    /\ exact = [input |-> TRUE, weights |-> TRUE]

\* The next stripe of the cascade, in the workspace of its operation.
RunStripe ==
    /\ ~refused
    /\ EmitStripe
    /\ LET i == opIndex
           s == Sizes(i)
           isNew == place[i] = <<>>
           p == IF isNew THEN Placement(i) ELSE place[i]
           t == IF owner = i THEN st ELSE Activated(st, p, s, isNew)
           r == IF Op(i).linebuffer THEN ConvStripe(t, i, p, s) ELSE OtherStripe(t, i, p, s)
       IN  IF Total(s) = 0
           THEN UNCHANGED workspaceVars
           ELSE IF ~FitsMemory(p, s)
           THEN refused' = TRUE /\ UNCHANGED <<place, kept, owner, st, staged, exact>>
           ELSE /\ place' = [place EXCEPT ![i] = p]
                /\ kept' = IF isNew THEN kept \cup KeptParts(p, s) ELSE kept
                /\ owner' = i
                /\ staged' = IF Op(i).linebuffer THEN staged \cup {i} ELSE staged
                /\ st' = r.st /\ exact' = r.exact
                /\ UNCHANGED refused

WorkspaceNext == RunStripe \/ (StepBack /\ UNCHANGED workspaceVars)

WorkspaceSpec == WorkspaceInit /\ [][WorkspaceNext]_<<vars, workspaceVars>>

-----------------------------------------------------------------------------
(* Properties                                                              *)

WorkspaceTypeOK ==
    /\ owner \in 0..Len(cascade.ops)
    /\ staged \subseteq {i \in Ops(cascade) : place[i] # <<>>}
    /\ \A r \in kept : r[1] \in 0..(cascade.tcdm - 1) /\ r[2] \in 1..cascade.tcdm
    /\ \A i \in Ops(cascade) : place[i] # <<>> =>
          \A part \in DOMAIN place[i] : Ends(place[i], Sizes(i))[part] \in 0..cascade.tcdm
    /\ DOMAIN st.tcdm = 0..(cascade.tcdm - 1) /\ DOMAIN st.claims = DOMAIN st.tcdm

\* The jobs of a stripe find the rows they read and their padding: what is
\* not loaded again is there although other operations have used the same
\* memory (AppendStripeStaging under the invalidations of SelectWorkspace).
InputsExact == exact.input

\* The weights loaded with the first stripe of an operation are there for all
\* of its stripes (linebufferWeightsStaged).
WeightsExact == exact.weights

\* With the live tensors below one another, a cascade for which the
\* workspaces that stay and the largest that do not were reserved finds room
\* for all of them, and kept rows take only what is left
\* (FitCascadeHaloWorkspaces, WorkspaceReservation, SelectWorkspace).
ReservationSuffices ==
    /\ cascade.live = Part(0, LiveBytes(cascade))
    /\ LiveBytes(cascade) + Persistent(cascade) + Transient(cascade, stripe) <= cascade.tcdm
    => ~refused

=============================================================================
