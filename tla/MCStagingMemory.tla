-------------------------- MODULE MCStagingMemory ---------------------------
(***************************************************************************)
(* Two decisions about staging memory, side by side: which operations form *)
(* a cascade, and which live ranges stay in fast storage.  A behaviour     *)
(* takes one of them.                                                      *)
(***************************************************************************)
EXTENDS ElementwiseSanitizer, CascadeBuilder

-----------------------------------------------------------------------------
(* Up to four ranges over four times, with a limit that two or three of    *)
(* them reach, a context switch, and an operation at each time that reads  *)
(* them.                                                                   *)

R(start, end, size, score) == [start |-> start, end |-> end, size |-> size, score |-> score]

Fixed == {[t \in 0..3 |-> 0], [t \in 0..3 |-> IF t = 1 THEN 2 ELSE 0], [t \in 0..3 |-> IF t = 3 THEN 5 ELSE 1]}

Spans == {<<0, 1>>, <<0, 3>>, <<1, 2>>, <<1, 3>>, <<2, 3>>}

\* In the order of creation, which is by start.
Work(spans, sizes, scores, fixed, switches) ==
    [lrs |-> [i \in DOMAIN spans |-> R(spans[i][1], spans[i][2], sizes[i], scores[i])],
     fixed |-> fixed, switches |-> switches, limit |-> 4]

MCWorkloads ==
    {Work(spans, sizes, scores, fixed, switches) :
        spans \in {s \in [1..4 -> Spans] : \A i \in 1..3 : s[i][1] <= s[i + 1][1]},
        sizes \in {<<2, 1, 3, 2>>, <<3, 2, 2, 1>>, <<1, 5, 2, 2>>},
        scores \in {<<1, 1, 1, 1>>, <<3, 1, 0, 2>>, <<0, 2, 3, 0>>},
        fixed \in Fixed, switches \in {{}, {2}}}

\* A range is read by the operation at its end, and perhaps by all before.
Readable(w, t, throughout) ==
    {i \in DOMAIN w.lrs : t > w.lrs[i].start
        /\ (t = w.lrs[i].end \/ (throughout /\ t < w.lrs[i].end))}

\* The kinds of the operations at times 0 to 3; the context switch is one of
\* the CPU.
Kinds == {<<"other", "elementwise", k, l>> : k, l \in {"elementwise", "other", "cascaded"}}

MCGraphsOf(w) ==
    {[k \in 1..4 |->
        [reads |-> Readable(w, k - 1, throughout), slowInput |-> slow = k,
         elementwise |-> kinds[k] # "other", npu |-> k - 1 \notin w.switches,
         inCascade |-> kinds[k] = "cascaded"]] :
        kinds \in Kinds, throughout \in BOOLEAN, slow \in {0, 3}}

-----------------------------------------------------------------------------
(* Four operations in a row: feature maps that shrink, grow or stay, skip  *)
(* connections that keep memory alive, branches, and memory that is        *)
(* resident, spilled or partly both.                                       *)

FeatureMaps == {<<4, 4, 4, 4, 4>>, <<8, 8, 2, 2, 2>>, <<2, 8, 8, 8, 2>>}
Buffers == {<<0, 2, 2, 2>>, <<0, 1, 2, 2>>}

\* Bytes that are alive beside each operation, and until where the first
\* feature map is alive: [beside, until, fused].
Alive == {[beside |-> <<0, 0, 0, 0>>, until |-> 1, fused |-> 1],
          [beside |-> <<3, 0, 5, 0>>, until |-> 1, fused |-> 1],
          [beside |-> <<0, 1, 1, 0>>, until |-> 3, fused |-> 2]}

OperationKinds == {"conv", "elementwise", "whole"}

Resident == {1..5, {}, {1, 3, 4, 5}}

\* A first feature map that is alive longer is beside the later operations.
NonLocal(bytes, alive, i) ==
    alive.beside[i] + IF i > 1 /\ i <= alive.until /\ i > alive.fused THEN bytes ELSE 0

Operation(i, fm, kind, buffer, alive, resident, joins) ==
    LET stored(k) == IF k \in resident THEN fm[k] ELSE 0
    IN  [npu |-> TRUE, cascadable |-> kind # "whole", joins |-> joins,
         ifm |-> fm[i], ofm |-> fm[i + 1], ifmStored |-> stored(i), ofmStored |-> stored(i + 1),
         weights |-> IF kind = "conv" THEN 1 ELSE 0, buffer |-> buffer, oneToOne |-> kind = "elementwise",
         local |-> stored(i) + stored(i + 1) + (IF kind = "conv" THEN 1 ELSE 0),
         nonLocal |-> NonLocal(stored(1), alive, i),
         rangeSize |-> stored(i), rangeEnd |-> IF i = 1 THEN alive.until ELSE i,
         fusedEnd |-> IF i = 1 THEN alive.fused ELSE i]

Network(fm, k, b, alive, resident, branch, spilling, selective, limit) ==
    [ops |-> <<Operation(1, fm, k[1], b[1], alive, resident, TRUE),
               Operation(2, fm, k[2], b[2], alive, resident, branch # 2),
               Operation(3, fm, k[3], b[3], alive, resident, TRUE),
               [Operation(4, fm, k[4], b[4], alive, resident, FALSE) EXCEPT !.npu = branch # 4]>>,
     spilling |-> spilling, selective |-> selective, limit |-> limit]

MCNetworks ==
    {Network(fm, k, b, alive, resident, branch, m[1], m[2], limit) :
        fm \in FeatureMaps, k \in {f \in [1..4 -> OperationKinds] : f[3] # "whole"}, b \in Buffers, alive \in Alive,
        resident \in Resident, branch \in {0, 2, 4},
        m \in {<<FALSE, FALSE>>, <<TRUE, TRUE>>, <<TRUE, FALSE>>}, limit \in {3, 12}}

-----------------------------------------------------------------------------

VARIABLE part   \* what this behaviour decides

storageVars == <<vars, sanitizerVars>>
stagingVars == <<part, storageVars, builderVars>>

NoNetwork == [ops |-> <<>>]

NoBuilder == /\ network = NoNetwork /\ at = 0 /\ cost = <<>> /\ stagingPeak = 0
             /\ chain = NoChain /\ cascades = {} /\ building = "none"

NoWork == [lrs |-> <<>>, fixed |-> <<>>, switches |-> {}, limit |-> 0]

NoStorage == /\ load = NoWork /\ base = <<>> /\ peak = <<>> /\ place = <<>> /\ component = <<>>
             /\ waiting = {} /\ path = <<>> /\ mode = "none" /\ best = <<>> /\ ops = <<>> /\ pos = 0

StagingInit ==
    \/ part = "cascades" /\ NoStorage /\ BuilderInit
    \/ part = "ranges" /\ SanitizerInit /\ NoBuilder

BuildCascades       == part = "cascades" /\ BuilderNext /\ UNCHANGED <<part, storageVars>>
AllocateFeatureMaps == part = "ranges" /\ SanitizerNext /\ UNCHANGED <<part, builderVars>>

StagingSpec == StagingInit /\ [][BuildCascades \/ AllocateFeatureMaps]_stagingVars

=============================================================================
