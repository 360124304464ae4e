------------------------ MODULE MCCascadeWorkspaces -------------------------
\* Cascades of two and three operations: in a memory of a few rows, where the
\* workspaces meet, and over inputs of 6 to 12 rows, where the stripes do.
EXTENDS CascadeWorkspaces

Kind(k, s, pad, linebuffer, stage, partial) ==
    [kernel |-> k, stride |-> s, top |-> pad, pad |-> 2 * pad, linebuffer |-> linebuffer,
     stage |-> stage, partial |-> partial]

Convs == {Kind(3, s, pad, TRUE, 1, partial) : s \in {1, 2}, pad \in {0, 1}, partial \in {0, 1}}
Rows  == {Kind(1, 1, 0, FALSE, 0, 0), Kind(1, 1, 0, FALSE, 0, 2), Kind(1, 1, 0, FALSE, 1, 4)}

OfmOf(ks, height) ==
    LET ofm[i \in DOMAIN ks] ==
            ((IF i = 1 THEN height ELSE ofm[i - 1]) + ks[i].pad - ks[i].kernel)
                \div ks[i].stride + 1
    IN  [i \in DOMAIN ks |-> ofm[i]]

Make(ks, height, external, spill, below, tcdm) ==
    LET ofm == OfmOf(ks, height)
    IN  [height |-> height, external |-> external, tcdm |-> tcdm,
         live |-> IF below = 0 THEN {} ELSE {<<0, below>>},
         ops |-> [i \in DOMAIN ks |->
             [kernel |-> ks[i].kernel, stride |-> ks[i].stride, top |-> ks[i].top,
              linebuffer |-> ks[i].linebuffer, concatRow |-> FALSE, ofmH |-> ofm[i],
              stage |-> ks[i].stage, partial |-> ks[i].partial, padding |-> i % 2,
              spillOut |-> spill /\ i = Len(ks)]]]

\* One convolution with weights, and before it nothing that uses memory: see
\* MCStagedWeights for the others.
Chains ==
    {<<a, b>> : a \in Convs, b \in Rows}
        \cup {<<Kind(1, 1, 0, FALSE, 0, 0), b>> : b \in Convs}
        \cup {<<a, b, Kind(1, 1, 0, FALSE, 1, 4)>> : a \in Convs, b \in Rows}

Tight ==
    {Make(ks, 9, external, spill, below, tcdm) :
        ks \in {c \in Chains : \A i \in DOMAIN c : OfmOf(c, 9)[i] > 1},
        external \in BOOLEAN, spill \in BOOLEAN, below \in {0, 2}, tcdm \in {7, 9, 12, 20}}

\* One row of padding may be missing at the bottom.
RollingKinds ==
    {[Kind(3, s, t, TRUE, 0, 0) EXCEPT !.pad = p] : s \in {1, 2}, t \in {0, 1}, p \in {0, 1, 2}}
        \cup {Kind(1, 1, 0, FALSE, 0, 0)}

Real(k) == k.top <= k.pad /\ k.pad <= k.top + 1

\* With or without the rows that a concatenation writes one by one.
Rolling ==
    {[c EXCEPT !.ops[2].concatRow = row /\ ~c.ops[2].linebuffer] :
        c \in {Make(ks, h, FALSE, FALSE, 0, 40) :
                  ks \in UNION {[1..n -> {k \in RollingKinds : Real(k)}] : n \in {2, 3}}, h \in {6, 7, 9, 12}},
        row \in BOOLEAN}

Valid(c) == \A i \in Ops(c) : OfmH(c, i) >= 1 /\ IfmH(c, i) >= c.ops[i].kernel

\* Of the convolutions that feed one another, which the generator refuses, one.
Convolution == Kind(3, 1, 1, TRUE, 0, 0)
Refused == Make(<<Convolution, Convolution>>, 12, FALSE, FALSE, 0, 40)

MCCascades ==
    Tight \cup {Refused}
        \cup {c \in Rolling :
                 /\ Valid(c)
                 /\ \A i \in 1..(Len(c.ops) - 1) : ~(c.ops[i].linebuffer /\ c.ops[i + 1].linebuffer)}

\* Two convolutions with a lookup between them.
TwoConvolutions ==
    {Make(<<Kind(3, 1, 1, TRUE, 1, 0), Kind(1, 1, 0, FALSE, 0, 0), Kind(3, 1, 1, TRUE, 1, 0)>>,
          9, TRUE, FALSE, 0, 30)}
=============================================================================
