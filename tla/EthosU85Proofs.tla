---------------------------- MODULE EthosU85Proofs ----------------------------
(***************************************************************************)
(* Whatever the commands, the limits of the engines and the branches taken *)
(* at run time, no two operations in flight conflict, one of them a        *)
(* transfer (NpuWaits).  In a stream without branches every operation      *)
(* finds its lookup table in its slot (LutSlots).                          *)
(*                                                                         *)
(* The first argument follows the lists of outstanding accesses that the   *)
(* generator keeps while it emits the code: for every instruction there    *)
(* is a pair of lists, those at the end being the generator's.  At run     *)
(* time the lists at the program counter cover what is running: each       *)
(* operation in flight lies within an entry, and at most as many entries   *)
(* as operations are younger.  Waits keep that because they count entries, *)
(* and a branch because it waits for everything.                           *)
(*                                                                         *)
(* The second runs the inserted transfers in advance: what the memory will *)
(* hold after the code so far is what the slots say (ShowsLast).  A table  *)
(* that is taken replaces whole tables or is part of one, because the      *)
(* slots of a table are equally old and the sizes divide one another.      *)
(***************************************************************************)
EXTENDS NpuWaits, LutSlots, FiniteSetLemmas

-----------------------------------------------------------------------------
(* Lists of accesses and what they cover.                                  *)

Within(a, b) == a.reads \subseteq b.reads /\ a.writes \subseteq b.writes

Covers(list, run) ==
    \A x \in DOMAIN run :
        \E i \in DOMAIN list : Within(run[x], list[i]) /\ Len(list) - i <= Len(run) - x

\* The list of an engine with one more access (UpdateMemoryAccesses).
Noted(list, access, limit) ==
    IF Len(list) < limit THEN Append(list, access) ELSE Append(Tail(list), access)

Instructions ==
    {Wait(e, n) : e \in Engines, n \in Nat} \cup {Run(e, a) : e \in Engines, a \in Accesses}
        \cup {[op |-> "branch"], [op |-> "target"]}

Lists == [dma : Seq(Accesses), npu : Seq(Accesses)]

Generators ==
    {g \in [code : Seq(Instructions), dma : Seq(Accesses), npu : Seq(Accesses)] :
        Len(g.dma) <= Limits["dma"] /\ Len(g.npu) <= Limits["npu"]}

ListsOf(g) == [dma |-> g.dma, npu |-> g.npu]

\* A conflict has no direction, and what lies within an access conflicts with
\* no more than it (MemoryAccess::Conflicts).
LEMMA ConflictsGrow ==
    ASSUME NEW a, NEW b, NEW c, NEW d, Within(a, c), Within(b, d), Conflicts(a, b)
    PROVE  Conflicts(c, d) /\ Conflicts(d, c)
BY DEF Conflicts, Within

\* Two accesses together are an access that both lie within.
LEMMA BothCovers ==
    ASSUME NEW a \in Accesses, NEW b \in Accesses
    PROVE  Both(a, b) \in Accesses /\ Within(a, Both(a, b)) /\ Within(b, Both(a, b))
BY DEF Both, Within, Accesses

\* An operation that is issued adds an entry at least as large; the entry that
\* leaves a full list is not needed, as the engine has a free place
\* (UpdateMemoryAccesses).
LEMMA NotedCovers ==
    ASSUME NEW list \in Seq(Accesses), NEW a \in Accesses, NEW limit \in Nat \ {0},
           NEW run \in Seq(Accesses), NEW b \in Accesses, Within(b, a),
           Covers(list, run), Len(run) < limit
    PROVE  Covers(Noted(list, a, limit), Append(run, b))
<1> DEFINE longer == Noted(list, a, limit)
           more == Append(run, b)
<1>1. Len(more) = Len(run) + 1 /\ Len(run) \in Nat /\ Len(list) \in Nat
      /\ DOMAIN more = 1..(Len(run) + 1)
      /\ more[Len(run) + 1] = b /\ \A x \in 1..Len(run) : more[x] = run[x]
    OBVIOUS
<1>2. CASE Len(list) < limit
    <2>1. /\ Len(longer) = Len(list) + 1 /\ DOMAIN longer = 1..(Len(list) + 1)
          /\ longer[Len(list) + 1] = a /\ \A i \in 1..Len(list) : longer[i] = list[i]
        BY <1>2 DEF Noted
    <2> HIDE DEF longer, more
    <2>2. ASSUME NEW x \in 1..Len(run)
          PROVE  \E i \in DOMAIN longer : Within(more[x], longer[i]) /\ Len(longer) - i <= Len(more) - x
        <3>1. PICK i \in DOMAIN list : Within(run[x], list[i]) /\ Len(list) - i <= Len(run) - x
            BY <1>1 DEF Covers
        <3>2. i \in 1..Len(list) /\ longer[i] = list[i] /\ more[x] = run[x] /\ i \in DOMAIN longer
            BY <1>1, <2>1
        <3>3. Len(longer) - i <= Len(more) - x
            BY <1>1, <2>1, <3>1, <3>2
        <3> QED BY <3>1, <3>2, <3>3
    <2>3. \E i \in DOMAIN longer :
              Within(more[Len(run) + 1], longer[i]) /\ Len(longer) - i <= Len(more) - (Len(run) + 1)
        BY <1>1, <2>1
    <2>4. Covers(longer, more)
        BY <1>1, <2>2, <2>3 DEF Covers
    <2> QED BY <2>4 DEF longer, more
<1>3. CASE Len(list) >= limit
    <2>1. /\ Len(list) >= 1 /\ Len(longer) = Len(list) /\ DOMAIN longer = 1..Len(list)
          /\ longer[Len(list)] = a /\ \A i \in 1..(Len(list) - 1) : longer[i] = list[i + 1]
        <3>1. list # <<>> /\ Len(list) >= 1
            BY <1>3
        <3>2. Tail(list) \in Seq(Accesses) /\ Len(Tail(list)) = Len(list) - 1
              /\ \A i \in 1..(Len(list) - 1) : Tail(list)[i] = list[i + 1]
            BY <3>1
        <3>3. longer = Append(Tail(list), a)
            BY <1>1, <1>3 DEF Noted
        <3> HIDE DEF longer
        <3> QED BY <1>1, <3>1, <3>2, <3>3
    <2> HIDE DEF longer, more
    <2>2. ASSUME NEW x \in 1..Len(run)
          PROVE  \E i \in DOMAIN longer : Within(more[x], longer[i]) /\ Len(longer) - i <= Len(more) - x
        <3>1. PICK i \in DOMAIN list : Within(run[x], list[i]) /\ Len(list) - i <= Len(run) - x
            BY <1>1 DEF Covers
        <3>2. i >= 2 /\ i \in 1..Len(list) /\ more[x] = run[x]
            BY <1>1, <1>3, <3>1
        <3>3. i - 1 \in DOMAIN longer /\ longer[i - 1] = list[i]
            <4>1. PICK j : j = i - 1 /\ j \in 1..(Len(list) - 1) /\ j + 1 = i
                BY <1>1, <3>2
            <4> QED BY <1>1, <2>1, <4>1
        <3>4. Len(longer) - (i - 1) <= Len(more) - x
            BY <1>1, <2>1, <3>1, <3>2
        <3> QED BY <3>1, <3>2, <3>3, <3>4
    <2>3. \E i \in DOMAIN longer :
              Within(more[Len(run) + 1], longer[i]) /\ Len(longer) - i <= Len(more) - (Len(run) + 1)
        BY <1>1, <2>1
    <2>4. Covers(longer, more)
        BY <1>1, <2>2, <2>3 DEF Covers
    <2> QED BY <2>4 DEF longer, more
<1> QED BY <1>1, <1>2, <1>3

\* The entry of a group grows with each of its operations (GenerateOpGroup).
LEMMA GrownCovers ==
    ASSUME NEW list \in Seq(Accesses), NEW a \in Accesses, NEW c \in Accesses,
           NEW limit \in Nat \ {0}, NEW run \in Seq(Accesses), NEW b \in Accesses,
           Within(b, c), Within(a, c), Covers(Noted(list, a, limit), run)
    PROVE  Covers(Noted(list, c, limit), Append(run, b))
<1> DEFINE more == Append(run, b)
<1>1. /\ Len(more) = Len(run) + 1 /\ Len(run) \in Nat /\ DOMAIN more = 1..(Len(run) + 1)
      /\ more[Len(run) + 1] = b /\ \A x \in 1..Len(run) : more[x] = run[x]
    OBVIOUS
<1>2. PICK short \in Seq(Accesses) :
          Noted(list, a, limit) = Append(short, a) /\ Noted(list, c, limit) = Append(short, c)
    <2>1. CASE Len(list) < limit
        BY <2>1 DEF Noted
    <2>2. CASE ~(Len(list) < limit)
        <3>1. Tail(list) \in Seq(Accesses)
            <4>1. list # <<>>
                BY <2>2
            <4> QED BY <4>1
        <3> QED BY <2>2, <3>1 DEF Noted
    <2> QED BY <2>1, <2>2
<1>3. PICK n, old, grown :
          n = Len(short) /\ old = Append(short, a) /\ grown = Append(short, c)
    OBVIOUS
<1>4. /\ n \in Nat /\ Len(old) = n + 1 /\ Len(grown) = n + 1
      /\ DOMAIN old = 1..(n + 1) /\ DOMAIN grown = 1..(n + 1)
      /\ \A i \in 1..n : old[i] = grown[i]
      /\ old[n + 1] = a /\ grown[n + 1] = c
    BY <1>3
<1> HIDE DEF more
<1>5. ASSUME NEW x \in 1..Len(run)
      PROVE  \E i \in DOMAIN grown : Within(more[x], grown[i]) /\ Len(grown) - i <= Len(more) - x
    <2>1. PICK i \in DOMAIN old : Within(run[x], old[i]) /\ Len(old) - i <= Len(run) - x
        <3>1. Covers(old, run) /\ x \in DOMAIN run
            BY <1>2, <1>3
        <3> QED BY <3>1 DEF Covers
    <2>2. Within(more[x], grown[i]) /\ i \in DOMAIN grown /\ i \in 1..(n + 1)
        <3>1. more[x] = run[x] /\ i \in 1..(n + 1)
            BY <1>1, <1>4, <2>1
        <3>2. CASE i \in 1..n
            BY <1>4, <2>1, <3>1, <3>2
        <3>3. CASE i = n + 1
            BY <1>4, <2>1, <3>1, <3>3 DEF Within
        <3> QED BY <1>4, <3>1, <3>2, <3>3
    <2>3. Len(grown) - i <= Len(more) - x
        BY <1>1, <1>4, <2>1, <2>2
    <2> QED BY <2>2, <2>3
<1>6. \E i \in DOMAIN grown :
          Within(more[Len(run) + 1], grown[i]) /\ Len(grown) - i <= Len(more) - (Len(run) + 1)
    <2>1. n + 1 \in DOMAIN grown /\ Within(more[Len(run) + 1], grown[n + 1])
        BY <1>1, <1>4
    <2>2. Len(grown) - (n + 1) <= Len(more) - (Len(run) + 1)
        BY <1>1, <1>4
    <2> QED BY <2>1, <2>2
<1>7. Covers(grown, more)
    <2>1. \A x \in DOMAIN more : x \in 1..Len(run) \/ x = Len(run) + 1
        BY <1>1
    <2> QED BY <1>5, <1>6, <2>1 DEF Covers
<1> QED BY <1>2, <1>3, <1>7 DEF more

\* When no more operations are left than entries are younger, those cover them
\* (CalcCommandWaits, and the wait at run time).
LEMMA WaitCovers ==
    ASSUME NEW list \in Seq(Accesses), NEW m \in DOMAIN list, NEW run \in Seq(Accesses),
           Covers(list, run), Len(run) <= Len(list) - m
    PROVE  Covers(SubSeq(list, m + 1, Len(list)), run)
<1>0. PICK n \in Nat : n = Len(list) /\ m \in 1..n
    OBVIOUS
<1>1. PICK left :
          /\ n = Len(list) /\ m \in 1..n /\ left = SubSeq(list, m + 1, n)
          /\ Len(left) = n - m /\ DOMAIN left = 1..(n - m)
          /\ \A i \in 1..(n - m) : left[i] = list[m + i]
    <2>2. Len(SubSeq(list, m + 1, n)) = n - m /\ DOMAIN SubSeq(list, m + 1, n) = 1..(n - m)
        BY <1>0
    <2>3. ASSUME NEW i \in 1..(n - m) PROVE SubSeq(list, m + 1, n)[i] = list[m + i]
        BY <1>0, <2>2
    <2> QED BY <1>0, <2>2, <2>3
<1>2. ASSUME NEW x \in DOMAIN run
      PROVE  \E i \in DOMAIN left : Within(run[x], left[i]) /\ Len(left) - i <= Len(run) - x
    <2>1. PICK i \in DOMAIN list : Within(run[x], list[i]) /\ Len(list) - i <= Len(run) - x
        BY DEF Covers
    <2>2. Len(run) \in Nat /\ x \in 1..Len(run) /\ i \in 1..n
        BY <1>1, <2>1
    <2>3. PICK j : j = i - m /\ j \in 1..(n - m) /\ m + j = i
        <3>1. PICK size, place : size = Len(run) /\ place = x
            OBVIOUS
        <3>2. size \in Nat /\ place \in 1..size /\ size <= n - m /\ n - i <= size - place
            BY <1>0, <2>1, <2>2, <3>1
        <3>3. n \in Nat /\ m \in 1..n /\ i \in 1..n
            BY <1>0, <2>2
        <3>4. i - m \in 1..(n - m) /\ m + (i - m) = i
            BY <3>2, <3>3
        <3> QED BY <3>4
    <2>4. left[j] = list[i] /\ j \in DOMAIN left
        BY <1>1, <2>3
    <2>5. Len(left) - j <= Len(run) - x
        <3>1. Len(left) = n - m /\ m \in Int
            BY <1>1
        <3>2. n - i <= Len(run) - x
            BY <1>1, <2>1
        <3>3. x \in Int /\ i \in Int /\ Len(run) \in Int /\ j = i - m
            BY <2>2, <2>3
        <3> QED BY <3>1, <3>2, <3>3
    <2> QED BY <2>1, <2>4, <2>5
<1> QED BY <1>1, <1>2 DEF Covers

-----------------------------------------------------------------------------
(* What an instruction makes of the lists.                                 *)

RunsSafely(l, e, a) ==
    /\ \A i \in DOMAIN l.dma : ~Conflicts(a, l.dma[i])
    /\ e = "dma" => \A i \in DOMAIN l.npu : ~Conflicts(a, l.npu[i])

AfterRun(l, e, a, after) ==
    \A run \in Seq(Accesses) :
        Covers(l[e], run) /\ Len(run) < Limits[e] => Covers(after[e], Append(run, a))

AfterWait(l, e, n, after) ==
    \A run \in Seq(Accesses) : Covers(l[e], run) /\ Len(run) <= n => Covers(after[e], run)

OthersStay(l, e, after) == \A f \in Engines \ {e} : after[f] = l[f]

Leads(l, instruction, after) ==
    \/ \E e \in Engines, a \in Accesses :
          /\ instruction = Run(e, a)
          /\ RunsSafely(l, e, a) /\ AfterRun(l, e, a, after) /\ OthersStay(l, e, after)
    \/ \E e \in Engines, n \in Nat :
          /\ instruction = Wait(e, n)
          /\ AfterWait(l, e, n, after) /\ OthersStay(l, e, after)
    \/ instruction = [op |-> "branch"] /\ l.dma = <<>> /\ l.npu = <<>> /\ after = l
    \/ instruction = [op |-> "target"] /\ after = l

\* A pair of lists for every place in the code, the last the generator's.
Explains(lists, g) ==
    /\ lists \in Seq(Lists)
    /\ Len(lists) = Len(g.code) + 1
    /\ lists[Len(g.code) + 1] = ListsOf(g)
    /\ \A k \in 1..Len(g.code) : Leads(lists[k], g.code[k], lists[k + 1])

Explained(g) == g \in Generators /\ \E lists : Explains(lists, g)

\* One more instruction (Emit).
LEMMA EmitExplained ==
    ASSUME NEW g, Explained(g), NEW instruction \in Instructions, NEW h \in Generators,
           h.code = Append(g.code, instruction),
           Leads(ListsOf(g), instruction, ListsOf(h))
    PROVE  Explained(h)
<1>1. PICK lists : Explains(lists, g)
    BY DEF Explained
<1>2. g.code \in Seq(Instructions) /\ ListsOf(h) \in Lists
    BY DEF Explained, Generators, ListsOf, Lists
<1>3. PICK n, more : n = Len(g.code) /\ more = Append(lists, ListsOf(h))
    OBVIOUS
<1>4. /\ n \in Nat /\ Len(lists) = n + 1 /\ more \in Seq(Lists) /\ Len(more) = n + 2
      /\ \A k \in 1..(n + 1) : more[k] = lists[k]
      /\ more[n + 2] = ListsOf(h)
    <2>1. lists \in Seq(Lists) /\ Len(lists) = n + 1
        BY <1>1, <1>3 DEF Explains
    <2>2. n \in Nat
        BY <1>2, <1>3
    <2> QED BY <1>2, <1>3, <2>1, <2>2
<1>5. /\ Len(h.code) = n + 1 /\ \A k \in 1..n : h.code[k] = g.code[k]
      /\ h.code[n + 1] = instruction
    BY <1>2, <1>3
<1>6. ASSUME NEW k \in 1..(n + 1) PROVE Leads(more[k], h.code[k], more[k + 1])
    <2>1. CASE k \in 1..n
        <3>1. PICK j : j = k + 1 /\ j \in 1..(n + 1)
            BY <1>4, <2>1
        <3>2. Leads(lists[k], g.code[k], lists[j])
            BY <1>1, <1>3, <2>1, <3>1 DEF Explains
        <3> QED BY <1>4, <1>5, <2>1, <3>1, <3>2
    <2>2. CASE k = n + 1
        <3>1. more[k] = ListsOf(g)
            BY <1>1, <1>3, <1>4, <2>2 DEF Explains
        <3>2. k + 1 = n + 2
            BY <1>4, <2>2
        <3>3. more[k + 1] = ListsOf(h) /\ h.code[k] = instruction
            BY <1>4, <1>5, <2>2, <3>2
        <3> QED BY <3>1, <3>3
    <2>3. k \in 1..n \/ k = n + 1
        BY <1>4
    <2> QED BY <2>1, <2>2, <2>3
<1>7. Explains(more, h)
    <2>1. Len(more) = (n + 1) + 1 /\ more[(n + 1) + 1] = ListsOf(h)
        BY <1>4
    <2> QED BY <1>4, <1>5, <1>6, <2>1 DEF Explains
<1> QED BY <1>7 DEF Explained

\* What is waited for leaves no conflict behind (CalcCommandWaits, GenerateWaits).
LEMMA AwaitedExplained ==
    ASSUME NEW g, Explained(g), NEW e \in Engines, NEW a \in Accesses,
           NEW h, h = Awaited(g, e, a)
    PROVE  /\ Explained(h)
           /\ \A f \in Engines \ {e} : h[f] = g[f]
           /\ \A i \in DOMAIN h[e] : ~Conflicts(a, h[e][i])
<1> DEFINE hits == {i \in DOMAIN g[e] : Conflicts(a, g[e][i])}
<1>1. g \in Generators /\ g.code \in Seq(Instructions) /\ g.dma \in Seq(Accesses)
      /\ g.npu \in Seq(Accesses) /\ g[e] \in Seq(Accesses) /\ Len(g[e]) <= Limits[e]
    BY DEF Explained, Generators, Engines
<1>2. CASE hits = {}
    BY <1>1, <1>2 DEF Awaited
<1>3. CASE hits # {}
    <2>1. PICK m : m = Max(hits) /\ m \in hits /\ \A i \in hits : i <= m
        <3>0. PICK n \in Nat : n = Len(g[e])
            BY <1>1
        <3>1. hits \in SUBSET (0..n)
            BY <1>1, <3>0
        <3> HIDE DEF hits
        <3>2. \E m \in hits : \A i \in hits : i <= m
            BY <1>3, <3>1, GreatestElement
        <3>3. hits \in SUBSET Int
            BY <1>1, <3>1
        <3> QED BY <3>2, <3>3 DEF Max
    <2>2. PICK n, left, instruction :
              n = Len(g[e]) /\ left = SubSeq(g[e], m + 1, n) /\ instruction = Wait(e, n - m)
        OBVIOUS
    <2>3. n \in Nat /\ m \in 1..n /\ n - m \in Nat /\ instruction \in Instructions
        <3>1. n \in Nat /\ m \in 1..n
            BY <1>1, <2>1, <2>2
        <3>2. n - m \in Nat
            BY <3>1
        <3> QED BY <2>2, <3>1, <3>2 DEF Instructions
    <2>4. left \in Seq(Accesses) /\ Len(left) = n - m /\ \A i \in 1..(n - m) : left[i] = g[e][m + i]
        <3>1. PICK s : s = g[e] /\ s \in Seq(Accesses) /\ Len(s) = n
            BY <1>1, <2>2
        <3>2. left = SubSeq(s, m + 1, n)
            BY <2>2, <3>1
        <3>3. left \in Seq(Accesses) /\ Len(left) = n - m
            BY <2>3, <3>1, <3>2
        <3>4. \A i \in 1..(n - m) : left[i] = s[m + i]
            BY <2>3, <3>1, <3>2
        <3> QED BY <3>1, <3>3, <3>4
    <2>5. h = [[g EXCEPT !.code = Append(g.code, instruction)] EXCEPT ![e] = left]
        <3>1. Waits(g[e], m) = n - m
            BY <2>2 DEF Waits
        <3>2. Emit(g, instruction) = [g EXCEPT !.code = Append(g.code, instruction)]
            BY DEF Emit
        <3>3. Emit(g, instruction)[e] = g[e]
            BY <1>1, <3>2 DEF Engines, Generators
        <3>4. h = [Emit(g, instruction) EXCEPT ![e] = SubSeq(Emit(g, instruction)[e], m + 1, Len(Emit(g, instruction)[e]))]
            BY <1>3, <2>1, <2>2, <3>1 DEF Awaited
        <3> QED BY <2>2, <3>2, <3>3, <3>4
    <2>6. /\ h \in Generators /\ h.code = Append(g.code, instruction)
          /\ h[e] = left /\ \A f \in Engines \ {e} : h[f] = g[f]
        <3>1. Append(g.code, instruction) \in Seq(Instructions) /\ Len(left) <= Limits[e]
            BY <1>1, <2>2, <2>3, <2>4, NpuWaitsAssumption
        <3>2. CASE e = "dma"
            BY <1>1, <2>4, <2>5, <3>1, <3>2 DEF Generators, Engines
        <3>3. CASE e = "npu"
            BY <1>1, <2>4, <2>5, <3>1, <3>3 DEF Generators, Engines
        <3> QED BY <3>2, <3>3 DEF Engines
    <2>7. Leads(ListsOf(g), instruction, ListsOf(h))
        <3>1. \A f \in Engines : ListsOf(g)[f] = g[f] /\ ListsOf(h)[f] = h[f]
            BY DEF ListsOf, Engines
        <3>2. AfterWait(ListsOf(g), e, n - m, ListsOf(h))
            BY <1>1, <2>1, <2>2, <2>6, <3>1, WaitCovers DEF AfterWait
        <3>3. OthersStay(ListsOf(g), e, ListsOf(h))
            BY <2>6, <3>1 DEF OthersStay
        <3> QED BY <2>2, <2>3, <3>2, <3>3 DEF Leads
    <2>8. ASSUME NEW i \in DOMAIN h[e] PROVE ~Conflicts(a, h[e][i])
        <3>1. i \in 1..(n - m) /\ h[e][i] = g[e][m + i] /\ m + i \in 1..n /\ m + i > m
            BY <2>3, <2>4, <2>6
        <3>2. m + i \notin hits
            <4> HIDE DEF hits
            <4>1. ~(m + i <= m)
                BY <2>3, <3>1
            <4> QED BY <2>1, <4>1
        <3> QED BY <1>1, <2>2, <3>1, <3>2
    <2> QED BY <2>3, <2>6, <2>7, <2>8, EmitExplained
<1> QED BY <1>2, <1>3

\* An operation is issued where nothing that may still run conflicts with it,
\* and its access is remembered (the order of GenerateWaits, UpdateMemoryAccesses
\* and the command itself).
LEMMA RunLeads ==
    ASSUME NEW l \in Lists, NEW e \in Engines, NEW a \in Accesses, NEW after,
           RunsSafely(l, e, a), AfterRun(l, e, a, after), OthersStay(l, e, after)
    PROVE  Leads(l, Run(e, a), after) /\ Run(e, a) \in Instructions
BY DEF Leads, Instructions

LEMMA OutstandingKeeps ==
    ASSUME NEW g \in Generators, NEW e \in Engines, NEW a \in Accesses
    PROVE  /\ Outstanding(g, e, a) \in Generators
           /\ Outstanding(g, e, a).code = g.code
           /\ Outstanding(g, e, a)[e] = Noted(g[e], a, Limits[e])
           /\ \A f \in Engines \ {e} : Outstanding(g, e, a)[f] = g[f]
<1>1. g.code \in Seq(Instructions) /\ g.dma \in Seq(Accesses) /\ g.npu \in Seq(Accesses)
      /\ g[e] \in Seq(Accesses) /\ Len(g[e]) <= Limits[e] /\ Limits[e] \in Nat \ {0}
    BY NpuWaitsAssumption DEF Generators, Engines
<1>2. PICK list, limit, noted :
          list = g[e] /\ limit = Limits[e] /\ noted = Noted(list, a, limit)
    OBVIOUS
<1>3. noted \in Seq(Accesses) /\ Len(noted) <= limit
    <2>1. CASE Len(list) < limit
        BY <1>1, <1>2, <2>1 DEF Noted
    <2>2. CASE ~(Len(list) < limit)
        <3>1. list # <<>> /\ list \in Seq(Accesses)
            BY <1>1, <1>2, <2>2
        <3>2. Tail(list) \in Seq(Accesses) /\ Len(Tail(list)) = Len(list) - 1
            BY <3>1
        <3>3. noted = Append(Tail(list), a)
            BY <1>2, <2>2 DEF Noted
        <3> QED BY <1>1, <1>2, <3>1, <3>2, <3>3
    <2> QED BY <2>1, <2>2
<1>4. Outstanding(g, e, a) = [g EXCEPT ![e] = noted]
    BY <1>1, <1>2 DEF Outstanding, Noted
<1>5. CASE e = "dma"
    BY <1>1, <1>2, <1>3, <1>4, <1>5 DEF Generators, Engines
<1>6. CASE e = "npu"
    BY <1>1, <1>2, <1>3, <1>4, <1>6 DEF Generators, Engines
<1> QED BY <1>5, <1>6 DEF Engines

\* Transfers wait for each other and for the kernel operations (GenerateDMA).
LEMMA DMAExplained ==
    ASSUME NEW g, Explained(g), NEW cmd, IsCommand(cmd), cmd.type = "DMA"
    PROVE  Explained(GenerateDMA(g, cmd))
<1>1. PICK a \in Accesses : a = cmd.ops[1]
    BY DEF IsCommand
<1>2. PICK first, second, noted, h :
          /\ first = Awaited(g, "dma", a) /\ second = Awaited(first, "npu", a)
          /\ noted = Outstanding(second, "dma", a) /\ h = Emit(noted, Run("dma", a))
    OBVIOUS
<1>3. Explained(first) /\ \A i \in DOMAIN first.dma : ~Conflicts(a, first.dma[i])
    BY <1>2, AwaitedExplained DEF Engines
<1>4. /\ Explained(second) /\ second.dma = first.dma
      /\ \A i \in DOMAIN second.npu : ~Conflicts(a, second.npu[i])
    BY <1>2, <1>3, AwaitedExplained DEF Engines
<1>5. second \in Generators /\ ListsOf(second) \in Lists
    BY <1>4 DEF Explained, Generators, ListsOf, Lists
<1>6. /\ noted \in Generators /\ noted.code = second.code /\ noted.npu = second.npu
      /\ noted.dma = Noted(second.dma, a, Limits["dma"])
    BY <1>2, <1>5, OutstandingKeeps DEF Engines
<1>7. h.code = Append(second.code, Run("dma", a)) /\ ListsOf(h) = ListsOf(noted) /\ h \in Generators
    <2>1. Run("dma", a) \in Instructions
        BY DEF Instructions, Engines
    <2>2. h = [noted EXCEPT !.code = Append(noted.code, Run("dma", a))]
        BY <1>2 DEF Emit
    <2>3. Append(noted.code, Run("dma", a)) \in Seq(Instructions)
        BY <1>6, <2>1 DEF Generators
    <2> QED BY <1>6, <2>2, <2>3 DEF Generators, ListsOf
<1>8. Leads(ListsOf(second), Run("dma", a), ListsOf(h)) /\ Run("dma", a) \in Instructions
    <2>1. RunsSafely(ListsOf(second), "dma", a)
        BY <1>3, <1>4 DEF RunsSafely, ListsOf
    <2>2. AfterRun(ListsOf(second), "dma", a, ListsOf(h))
        <3>1. Within(a, a) /\ second.dma \in Seq(Accesses) /\ Limits["dma"] \in Nat \ {0}
            BY <1>5, NpuWaitsAssumption DEF Within, Generators, Engines
        <3>2. ListsOf(second)["dma"] = second.dma
              /\ ListsOf(h)["dma"] = Noted(second.dma, a, Limits["dma"])
            BY <1>6, <1>7 DEF ListsOf
        <3> QED BY <3>1, <3>2, NotedCovers DEF AfterRun
    <2>3. OthersStay(ListsOf(second), "dma", ListsOf(h))
        BY <1>6, <1>7 DEF OthersStay, ListsOf, Engines
    <2> QED BY <1>5, <2>1, <2>2, <2>3, RunLeads DEF Engines
<1>9. Explained(h)
    BY <1>4, <1>7, <1>8, EmitExplained
<1> QED BY <1>1, <1>2, <1>9 DEF GenerateDMA

LEMMA NpuOutstanding ==
    ASSUME NEW g \in Generators, NEW a \in Accesses, NEW h, h = Outstanding(g, "npu", a)
    PROVE  /\ h \in Generators /\ h.code = g.code /\ h.dma = g.dma
           /\ h.npu = Noted(g.npu, a, Limits["npu"])
<1>1. "npu" \in Engines /\ "dma" \in Engines \ {"npu"}
    BY DEF Engines
<1>2. h["dma"] = g["dma"] /\ h["npu"] = Noted(g["npu"], a, Limits["npu"]) /\ h.code = g.code
    BY <1>1, OutstandingKeeps
<1>3. h \in Generators
    BY <1>1, OutstandingKeeps
<1> QED BY <1>2, <1>3 DEF Generators

LEMMA DmaAwaited ==
    ASSUME NEW g, Explained(g), NEW a \in Accesses, NEW h, h = Awaited(g, "dma", a)
    PROVE  /\ Explained(h) /\ h.npu = g.npu
           /\ \A i \in DOMAIN h.dma : ~Conflicts(a, h.dma[i])
<1>1. "dma" \in Engines /\ "npu" \in Engines \ {"dma"}
    BY DEF Engines
<1>2. /\ Explained(h) /\ h["npu"] = g["npu"]
      /\ \A i \in DOMAIN h["dma"] : ~Conflicts(a, h["dma"][i])
    BY <1>1, AwaitedExplained
<1> QED BY <1>2 DEF Explained, Generators

\* The generator within a group: its entry is not in the list yet, but with it
\* the lists explain the code (GenerateOpGroup).
GroupHolds(g, state, k) ==
    /\ state.g \in Generators /\ state.access \in Accesses
    /\ state.g.npu = g.npu
    /\ IF k = 0 THEN state.g = g /\ Explained(g) ELSE Explained(Outstanding(state.g, "npu", state.access))

\* Another operation of a group waits for the transfers that all of the group
\* so far conflicts with, and runs beside the rest of its group.
LEMMA GroupStepHolds ==
    ASSUME NEW g, NEW state, NEW k \in Nat, GroupHolds(g, state, k), NEW a \in Accesses
    PROVE  GroupHolds(g, GroupStep(state, a), k + 1)
<1>1. PICK sum : sum = Both(state.access, a)
    OBVIOUS
<1>2. sum \in Accesses /\ Within(state.access, sum) /\ Within(a, sum)
    BY <1>1, BothCovers DEF GroupHolds
<1>3. PICK s, waited, h : /\ s = state.g /\ waited = Awaited(s, "dma", sum)
                          /\ h = Emit(waited, Run("npu", a))
    OBVIOUS
<1>4. GroupStep(state, a) = [g |-> h, access |-> sum]
    BY <1>1, <1>3 DEF GroupStep
\* The lists before and after, with the entry of the group in them.
<1>5. PICK before, after :
          /\ before = IF k = 0 THEN waited ELSE Outstanding(waited, "npu", state.access)
          /\ after = Outstanding(h, "npu", sum)
    OBVIOUS
<1>6. /\ Explained(before) /\ waited \in Generators /\ waited.npu = g.npu
      /\ before.dma = waited.dma /\ before.code = waited.code
      /\ \A i \in DOMAIN waited.dma : ~Conflicts(sum, waited.dma[i])
    <2>1. CASE k = 0
        <3>1. Explained(s) /\ s.npu = g.npu
            BY <1>3, <2>1 DEF GroupHolds
        <3>2. /\ Explained(waited) /\ waited.npu = g.npu
              /\ \A i \in DOMAIN waited.dma : ~Conflicts(sum, waited.dma[i])
            BY <1>2, <1>3, <3>1, DmaAwaited
        <3> QED BY <1>5, <2>1, <3>2 DEF Explained
    <2>2. CASE k # 0
        <3>1. PICK t : t = Outstanding(s, "npu", state.access) /\ Explained(t)
            BY <1>3, <2>2 DEF GroupHolds
        <3>2. /\ s \in Generators /\ s.npu = g.npu /\ state.access \in Accesses
            BY <1>3 DEF GroupHolds
        <3>3. /\ t \in Generators /\ t.code = s.code /\ t.dma = s.dma
              /\ t.npu = Noted(s.npu, state.access, Limits["npu"])
            BY <3>1, <3>2, NpuOutstanding
        <3>4. PICK u : u = Awaited(t, "dma", sum)
            OBVIOUS
        <3>5. /\ Explained(u) /\ u.npu = t.npu
              /\ \A i \in DOMAIN u.dma : ~Conflicts(sum, u.dma[i])
            BY <1>2, <3>1, <3>4, DmaAwaited
        <3>6. /\ waited \in Generators /\ waited.npu = s.npu
              /\ waited.dma = u.dma /\ waited.code = u.code
            <4>1. PICK hits, list : list = s.dma /\ hits = {i \in DOMAIN list : Conflicts(sum, list[i])}
                OBVIOUS
            <4>2. CASE hits = {}
                BY <1>3, <3>2, <3>3, <3>4, <4>1, <4>2 DEF Awaited
            <4>3. CASE hits # {}
                <5>1. PICK left, emitted :
                          /\ left = SubSeq(list, Max(hits) + 1, Len(list))
                          /\ emitted = Append(s.code, Wait("dma", Waits(list, Max(hits))))
                    OBVIOUS
                <5>2. waited = [s EXCEPT !.code = emitted, !.dma = left]
                    BY <1>3, <3>2, <4>1, <4>3, <5>1 DEF Awaited, Emit, Generators
                <5>3. u = [t EXCEPT !.code = emitted, !.dma = left]
                    BY <3>3, <3>4, <4>1, <4>3, <5>1 DEF Awaited, Emit, Generators
                <5>4. u \in Generators
                    BY <3>5 DEF Explained
                <5> QED BY <3>2, <3>3, <5>2, <5>3, <5>4 DEF Generators
            <4> QED BY <4>2, <4>3
        <3>7. before = u
            <4>1. before = Outstanding(waited, "npu", state.access)
                BY <1>5, <2>2
            <4>2. /\ before \in Generators /\ before.code = waited.code /\ before.dma = waited.dma
                  /\ before.npu = Noted(waited.npu, state.access, Limits["npu"])
                BY <3>2, <3>6, <4>1, NpuOutstanding
            <4>3. u \in Generators /\ u.npu = before.npu /\ u.dma = before.dma /\ u.code = before.code
                BY <3>3, <3>5, <3>6, <4>2 DEF Explained
            <4> QED BY <4>2, <4>3 DEF Generators
        <3> QED BY <3>2, <3>5, <3>6, <3>7
    <2> QED BY <2>1, <2>2
<1>7. /\ h \in Generators /\ h.code = Append(waited.code, Run("npu", a))
      /\ h.npu = g.npu /\ h.dma = waited.dma
    <2>1. Run("npu", a) \in Instructions
        BY DEF Instructions, Engines
    <2>2. Append(waited.code, Run("npu", a)) \in Seq(Instructions)
        BY <1>6, <2>1 DEF Generators
    <2> QED BY <1>3, <1>6, <2>2 DEF Generators, Emit
<1>8. /\ after \in Generators /\ after.code = h.code /\ after.dma = h.dma
      /\ after.npu = Noted(g.npu, sum, Limits["npu"])
    BY <1>2, <1>5, <1>7, NpuOutstanding
<1>9. Leads(ListsOf(before), Run("npu", a), ListsOf(after)) /\ Run("npu", a) \in Instructions
    <2>1. before \in Generators /\ ListsOf(before) \in Lists
        BY <1>6 DEF Explained, Generators, ListsOf, Lists
    <2>2. RunsSafely(ListsOf(before), "npu", a)
        BY <1>2, <1>6, ConflictsGrow DEF RunsSafely, ListsOf, Within
    <2>3. OthersStay(ListsOf(before), "npu", ListsOf(after))
        BY <1>6, <1>7, <1>8 DEF OthersStay, ListsOf, Engines
    <2>4. AfterRun(ListsOf(before), "npu", a, ListsOf(after))
        <3>1. PICK list, limit : /\ list = g.npu /\ limit = Limits["npu"]
                                 /\ list \in Seq(Accesses) /\ limit \in Nat \ {0}
            BY <1>6, NpuWaitsAssumption DEF Generators, Engines
        <3>2. ListsOf(after)["npu"] = Noted(list, sum, limit)
            BY <1>8, <3>1 DEF ListsOf
        <3>3. CASE k = 0
            <4>1. ListsOf(before)["npu"] = list
                BY <1>5, <1>6, <3>1, <3>3 DEF ListsOf
            <4> QED BY <1>2, <3>1, <3>2, <4>1, NotedCovers DEF AfterRun
        <3>4. CASE k # 0
            <4>1. state.access \in Accesses
                BY DEF GroupHolds
            <4>2. ListsOf(before)["npu"] = Noted(list, state.access, limit)
                BY <1>5, <1>6, <3>1, <3>4, <4>1, NpuOutstanding DEF ListsOf
            <4> QED BY <1>2, <3>1, <3>2, <4>1, <4>2, GrownCovers DEF AfterRun
        <3> QED BY <3>3, <3>4
    <2> QED BY <2>1, <2>2, <2>3, <2>4, RunLeads DEF Engines
<1>10. Explained(after)
    BY <1>6, <1>7, <1>8, <1>9, EmitExplained
<1> QED BY <1>2, <1>4, <1>5, <1>7, <1>10 DEF GroupHolds

\* The operations of a group, one after the other (GenerateOpGroup).
LEMMA GroupExplained ==
    ASSUME NEW g, Explained(g), NEW ops \in Seq(Accesses)
    PROVE  GroupHolds(g, Group(g, ops), Len(ops))
<1>1. PICK n \in Nat : n = Len(ops) /\ \A k \in 1..n : ops[k] \in Accesses
    OBVIOUS
<1> DEFINE Recursive(f, k) == f = [i \in 0..k |->
               IF i = 0 THEN [g |-> g, access |-> NoAccess] ELSE GroupStep(f[i - 1], ops[i])]
           Holds(f, k) == Recursive(f, k) /\ GroupHolds(g, f[k], k)
           T == {k \in 0..n : ~\E f : Holds(f, k)}
<1>2. GroupHolds(g, [g |-> g, access |-> NoAccess], 0)
    BY DEF GroupHolds, Explained, NoAccess, Accesses
<1>3. T = {}
    <2> SUFFICES ASSUME T # {} PROVE FALSE
        OBVIOUS
    <2>1. PICK k \in T : \A j \in T : k <= j
        <3>1. T \in SUBSET Nat
            BY <1>1
        <3> HIDE DEF T
        <3> QED BY <3>1, LeastElement
    <2>2. k # 0
        <3>1. Holds([i \in 0..0 |-> [g |-> g, access |-> NoAccess]], 0)
            BY <1>2
        <3> QED BY <2>1, <3>1
    <2>3. k - 1 \in 0..n /\ k \in 1..n /\ k - 1 \notin T
        <3>1. k \in 0..n
            OBVIOUS
        <3> HIDE DEF T
        <3> QED BY <1>1, <2>1, <2>2, <3>1
    <2>4. PICK f : Holds(f, k - 1)
        BY <2>3
    <2> DEFINE h == [i \in 0..k |-> IF i = k THEN GroupStep(f[k - 1], ops[k]) ELSE f[i]]
    <2>5. Recursive(h, k)
        BY <1>1, <2>3, <2>4
    <2>6. GroupHolds(g, h[k], k)
        <3>1. ops[k] \in Accesses /\ k - 1 \in Nat /\ (k - 1) + 1 = k
            BY <1>1, <2>3
        <3>2. GroupHolds(g, f[k - 1], k - 1)
            BY <2>4
        <3>3. GroupHolds(g, GroupStep(f[k - 1], ops[k]), (k - 1) + 1)
            BY <3>1, <3>2, GroupStepHolds
        <3>4. h[k] = GroupStep(f[k - 1], ops[k])
            BY <2>3
        <3> QED BY <3>1, <3>3, <3>4
    <2>7. Holds(h, k)
        BY <2>5, <2>6
    <2> QED BY <2>1, <2>7
<1>4. PICK e : Holds(e, n)
    <2>1. n \notin T /\ n \in 0..n
        BY <1>1, <1>3
    <2> QED BY <2>1
<1>5. PICK f : f = (CHOOSE h : Recursive(h, n)) /\ Recursive(f, n)
    BY <1>4
<1>6. Group(g, ops) = f[n]
    BY <1>1, <1>5 DEF Group
<1>7. f[n] = e[n]
    <2> DEFINE D == {i \in 0..n : f[i] # e[i]}
    <2>1. D = {}
        <3> SUFFICES ASSUME D # {} PROVE FALSE
            OBVIOUS
        <3>1. PICK i \in D : \A j \in D : i <= j
            <4>1. D \in SUBSET Nat
                BY <1>1
            <4> HIDE DEF D
            <4> QED BY <4>1, LeastElement
        <3>2. i \in 0..n /\ f[i] # e[i]
            OBVIOUS
        <3>3. i # 0
            BY <1>4, <1>5, <3>2
        <3>4. i - 1 \in 0..n /\ i - 1 \notin D
            <4> HIDE DEF D
            <4> QED BY <1>1, <3>1, <3>2, <3>3
        <3>5. f[i - 1] = e[i - 1]
            BY <3>4
        <3> QED BY <1>4, <1>5, <3>2, <3>3, <3>5
    <2> QED BY <1>1, <2>1
<1> QED BY <1>1, <1>4, <1>6, <1>7

LEMMA StripeExplained ==
    ASSUME NEW g, Explained(g), NEW cmd, IsCommand(cmd), cmd.type = "STRIPE"
    PROVE  Explained(GenerateStripe(g, cmd))
<1>1. cmd.ops \in Seq(Accesses) /\ Len(cmd.ops) # 0
    BY DEF IsCommand
<1>2. PICK group : group = Group(g, cmd.ops) /\ GroupHolds(g, group, Len(cmd.ops))
    BY <1>1, GroupExplained
<1> QED BY <1>1, <1>2 DEF GroupHolds, GenerateStripe

\* A branch waits for all there is (GenerateCommandStream).
LEMMA BranchExplained ==
    ASSUME NEW g, Explained(g)
    PROVE  Explained(GenerateBranch(g))
<1>1. PICK h, first, second, emitted :
          /\ emitted = g.code /\ h = GenerateBranch(g)
          /\ first = [code |-> Append(emitted, Wait("npu", 0)), dma |-> g.dma, npu |-> <<>>]
          /\ second = [code |-> Append(first.code, Wait("dma", 0)), dma |-> <<>>, npu |-> <<>>]
    OBVIOUS
<1>2. /\ g \in Generators /\ emitted \in Seq(Instructions) /\ g.dma \in Seq(Accesses)
      /\ g.npu \in Seq(Accesses) /\ Len(g.dma) <= Limits["dma"] /\ <<>> \in Seq(Accesses)
      /\ Len(<<>>) <= Limits["npu"] /\ Len(<<>>) <= Limits["dma"]
    BY <1>1, NpuWaitsAssumption DEF Explained, Generators, Engines
<1>3. /\ Wait("npu", 0) \in Instructions /\ Wait("dma", 0) \in Instructions
      /\ [op |-> "branch"] \in Instructions
    BY DEF Instructions, Engines
<1>4. first \in Generators
    BY <1>1, <1>2, <1>3 DEF Generators
<1>5. second \in Generators
    BY <1>1, <1>2, <1>3, <1>4 DEF Generators
<1>6. h = [code |-> Append(second.code, [op |-> "branch"]), dma |-> <<>>, npu |-> <<>>]
    <2>1. emitted \o <<Wait("npu", 0), Wait("dma", 0), [op |-> "branch"]>>
          = Append(Append(Append(emitted, Wait("npu", 0)), Wait("dma", 0)), [op |-> "branch"])
        BY <1>2, <1>3
    <2>2. h = [g EXCEPT !.code = Append(second.code, [op |-> "branch"]), !.dma = <<>>, !.npu = <<>>]
        BY <1>1, <2>1 DEF GenerateBranch
    <2> QED BY <1>2, <2>2 DEF Generators
<1>7. h \in Generators
    BY <1>2, <1>3, <1>5, <1>6 DEF Generators
<1>8. ASSUME NEW l \in Lists, NEW e \in Engines, NEW after, after[e] = <<>>
      PROVE  AfterWait(l, e, 0, after)
    <2> SUFFICES ASSUME NEW run \in Seq(Accesses), Len(run) <= 0
                 PROVE  Covers(after[e], run)
        BY DEF AfterWait
    <2>1. DOMAIN run = {}
        OBVIOUS
    <2> QED BY <2>1 DEF Covers
<1>9. Explained(first)
    <2>1. ListsOf(g) \in Lists /\ ListsOf(first)["npu"] = <<>> /\ "npu" \in Engines
        BY <1>1, <1>2 DEF ListsOf, Lists, Engines
    <2>2. AfterWait(ListsOf(g), "npu", 0, ListsOf(first))
        BY <1>8, <2>1
    <2>3. OthersStay(ListsOf(g), "npu", ListsOf(first))
        BY <1>1 DEF OthersStay, ListsOf, Engines
    <2>4. Leads(ListsOf(g), Wait("npu", 0), ListsOf(first))
        BY <2>1, <2>2, <2>3 DEF Leads
    <2>5. first.code = Append(g.code, Wait("npu", 0))
        BY <1>1
    <2> QED BY <1>3, <1>4, <2>4, <2>5, EmitExplained
<1>10. Explained(second)
    <2>1. ListsOf(first) \in Lists /\ ListsOf(second)["dma"] = <<>> /\ "dma" \in Engines
        BY <1>1, <1>2 DEF ListsOf, Lists, Engines
    <2>2. AfterWait(ListsOf(first), "dma", 0, ListsOf(second))
        BY <1>8, <2>1
    <2>3. OthersStay(ListsOf(first), "dma", ListsOf(second))
        BY <1>1 DEF OthersStay, ListsOf, Engines
    <2>4. Leads(ListsOf(first), Wait("dma", 0), ListsOf(second))
        BY <2>1, <2>2, <2>3 DEF Leads
    <2>5. second.code = Append(first.code, Wait("dma", 0))
        BY <1>1
    <2> QED BY <1>3, <1>5, <1>9, <2>4, <2>5, EmitExplained
<1>11. Explained(h)
    <2>1. Leads(ListsOf(second), [op |-> "branch"], ListsOf(h))
        BY <1>1, <1>6 DEF Leads, ListsOf
    <2>2. h.code = Append(second.code, [op |-> "branch"])
        BY <1>6
    <2> QED BY <1>3, <1>7, <1>10, <2>1, <2>2, EmitExplained
<1> QED BY <1>1, <1>11

LEMMA TargetExplained ==
    ASSUME NEW g, Explained(g)
    PROVE  Explained(GenerateTarget(g))
<1>1. PICK h, instruction : h = GenerateTarget(g) /\ instruction = [op |-> "target"]
    OBVIOUS
<1>2. instruction \in Instructions /\ g \in Generators
    BY <1>1 DEF Instructions, Explained
<1>3. h = [g EXCEPT !.code = Append(g.code, instruction)]
    BY <1>1 DEF GenerateTarget, Emit
<1>4. h \in Generators /\ h.code = Append(g.code, instruction) /\ ListsOf(h) = ListsOf(g)
    <2>1. Append(g.code, instruction) \in Seq(Instructions)
        BY <1>2 DEF Generators
    <2> QED BY <1>2, <1>3, <2>1 DEF Generators, ListsOf
<1>5. Leads(ListsOf(g), instruction, ListsOf(h))
    BY <1>1, <1>4 DEF Leads
<1> QED BY <1>1, <1>2, <1>4, <1>5, EmitExplained

-----------------------------------------------------------------------------
(* The engines.                                                            *)

\* What may be running at the program counter.
Conforms(lists) ==
    pc > 0 => /\ pc \in 1..(Len(generator.code) + 1)
              /\ \A e \in Engines : Covers(lists[pc][e], running[e])

WaitsInv ==
    /\ generator \in Generators
    /\ commands \in 0..MaxCommands
    /\ pc \in Nat
    /\ running \in [Engines -> Seq(Accesses)]
    /\ \A e \in Engines : Len(running[e]) <= Limits[e]
    /\ pc = 0 => \A e \in Engines : running[e] = <<>>
    /\ \E lists : Explains(lists, generator) /\ Conforms(lists)
    /\ NoHazard

\* Nothing covers more than nothing.
LEMMA EmptyCovered == \A list : Covers(list, <<>>)
BY DEF Covers

LEMMA CommandExplained ==
    ASSUME NEW g, Explained(g), NEW cmd \in Commands, NEW h,
           h = CASE cmd.type = "STRIPE" -> GenerateStripe(g, cmd)
                 [] cmd.type = "DMA" -> GenerateDMA(g, cmd)
                 [] cmd.type = "BRANCH" -> GenerateBranch(g)
                 [] cmd.type = "BRANCH_TARGET" -> GenerateTarget(g)
    PROVE  Explained(h)
<1>1. IsCommand(cmd) /\ cmd.type \in {"STRIPE", "DMA", "BRANCH", "BRANCH_TARGET"}
    BY CommandsAssumption DEF IsCommand
<1>2. CASE cmd.type = "STRIPE"
    BY <1>1, <1>2, StripeExplained
<1>3. CASE cmd.type = "DMA"
    BY <1>1, <1>3, DMAExplained
<1>4. CASE cmd.type = "BRANCH"
    BY <1>4, BranchExplained
<1>5. CASE cmd.type = "BRANCH_TARGET"
    BY <1>5, TargetExplained
<1> QED BY <1>1, <1>2, <1>3, <1>4, <1>5

LEMMA WaitsBegin == Init => WaitsInv
<1> SUFFICES ASSUME Init PROVE WaitsInv
    OBVIOUS
<1>1. /\ generator = [code |-> <<>>, dma |-> <<>>, npu |-> <<>>]
      /\ commands = 0 /\ pc = 0 /\ running = [e \in Engines |-> <<>>]
    BY DEF Init
<1>2. Limits["dma"] \in Nat \ {0} /\ Limits["npu"] \in Nat \ {0} /\ MaxCommands \in Nat
      /\ \A e \in Engines : Limits[e] \in Nat
    BY NpuWaitsAssumption DEF Engines
<1>3. generator \in Generators
    BY <1>1, <1>2 DEF Generators
<1>4. Explains(<<ListsOf(generator)>>, generator)
    <2>1. ListsOf(generator) \in Lists
        BY <1>1 DEF ListsOf, Lists
    <2> QED BY <1>1, <2>1 DEF Explains
<1>5. NoHazard
    BY <1>1 DEF NoHazard, Engines
<1>6. running \in [Engines -> Seq(Accesses)] /\ \A e \in Engines : Len(running[e]) <= Limits[e]
    BY <1>1, <1>2
<1> QED BY <1>1, <1>2, <1>3, <1>4, <1>5, <1>6 DEF WaitsInv, Conforms

LEMMA GenerateKeepsWaits == WaitsInv /\ GenerateCommandStream => WaitsInv'
<1> SUFFICES ASSUME WaitsInv, GenerateCommandStream PROVE WaitsInv'
    OBVIOUS
<1>1. Explained(generator) /\ pc = 0 /\ pc' = pc /\ running' = running /\ commands' \in 0..MaxCommands
    BY NpuWaitsAssumption DEF WaitsInv, Explained, GenerateCommandStream
<1>2. PICK cmd \in Commands :
          generator' = CASE cmd.type = "STRIPE" -> GenerateStripe(generator, cmd)
                         [] cmd.type = "DMA" -> GenerateDMA(generator, cmd)
                         [] cmd.type = "BRANCH" -> GenerateBranch(generator)
                         [] cmd.type = "BRANCH_TARGET" -> GenerateTarget(generator)
    BY DEF GenerateCommandStream
<1>3. Explained(generator')
    BY <1>1, <1>2, CommandExplained
<1>4. NoHazard'
    BY <1>1 DEF WaitsInv, NoHazard
<1> QED BY <1>1, <1>3, <1>4 DEF WaitsInv, Explained, Conforms

LEMMA StartKeepsWaits == WaitsInv /\ Start => WaitsInv'
<1> SUFFICES ASSUME WaitsInv, Start PROVE WaitsInv'
    OBVIOUS
<1>1. /\ pc = 0 /\ pc' = 1 /\ generator' = generator /\ commands' = commands /\ running' = running
      /\ \A e \in Engines : running[e] = <<>>
    BY DEF WaitsInv, Start
<1>2. PICK lists : Explains(lists, generator)
    BY DEF WaitsInv
<1>3. 1 \in 1..(Len(generator.code) + 1)
    BY DEF WaitsInv, Generators
<1>4. Conforms(lists)'
    BY <1>1, <1>3, EmptyCovered DEF Conforms
<1>5. NoHazard'
    BY <1>1 DEF WaitsInv, NoHazard
<1> QED BY <1>1, <1>2, <1>4, <1>5 DEF WaitsInv

\* An instruction of the code and what it makes of the lists.
LEMMA InstructionLeads ==
    ASSUME NEW lists, Explains(lists, generator), Conforms(lists), generator \in Generators,
           pc \in DOMAIN generator.code, pc \in Nat
    PROVE  /\ pc \in 1..Len(generator.code) /\ pc + 1 \in 1..(Len(generator.code) + 1)
           /\ Leads(lists[pc], Instruction, lists[pc + 1])
           /\ \A e \in Engines : Covers(lists[pc][e], running[e])
<1>1. pc \in 1..Len(generator.code) /\ Len(generator.code) \in Nat
    BY DEF Generators
<1> QED BY <1>1 DEF Explains, Conforms, Instruction

LEMMA IssueKeepsWaits == WaitsInv /\ Issue => WaitsInv'
<1> SUFFICES ASSUME WaitsInv, Issue PROVE WaitsInv'
    OBVIOUS
<1>1. /\ generator \in Generators /\ pc \in DOMAIN generator.code /\ pc \in Nat /\ Instruction.op = "run"
      /\ pc' = pc + 1 /\ generator' = generator /\ commands' = commands
      /\ Len(running[Instruction.engine]) < Limits[Instruction.engine]
      /\ running' = [running EXCEPT ![Instruction.engine] = Append(@, Instruction.access)]
      /\ running \in [Engines -> Seq(Accesses)]
    BY DEF WaitsInv, Issue, IsAt, Instruction
<1>2. PICK lists : Explains(lists, generator) /\ Conforms(lists)
    BY DEF WaitsInv
<1>3. PICK l, after : l = lists[pc] /\ after = lists[pc + 1]
    OBVIOUS
<1>4. /\ Leads(l, Instruction, after) /\ \A e \in Engines : Covers(l[e], running[e])
      /\ pc + 1 \in 1..(Len(generator.code) + 1)
    BY <1>1, <1>2, <1>3, InstructionLeads
<1>5. PICK e \in Engines, a \in Accesses :
          /\ Instruction = Run(e, a)
          /\ RunsSafely(l, e, a) /\ AfterRun(l, e, a, after) /\ OthersStay(l, e, after)
    BY <1>1, <1>4 DEF Leads, Wait
<1>6. Instruction.engine = e /\ Instruction.access = a
    BY <1>5 DEF Run
<1>7. /\ running[e] \in Seq(Accesses) /\ Len(running[e]) < Limits[e]
      /\ running' = [running EXCEPT ![e] = Append(running[e], a)]
      /\ running'[e] = Append(running[e], a) /\ \A f \in Engines \ {e} : running'[f] = running[f]
    BY <1>1, <1>6
<1>8. \A f \in Engines : Covers(after[f], running'[f])
    BY <1>4, <1>5, <1>7 DEF AfterRun, OthersStay
<1>9. Conforms(lists)'
    BY <1>1, <1>3, <1>4, <1>8 DEF Conforms
<1>10. running' \in [Engines -> Seq(Accesses)] /\ \A f \in Engines : Len(running'[f]) <= Limits[f]
    <2>1. Limits[e] \in Nat
        BY NpuWaitsAssumption
    <2>2. Append(running[e], a) \in Seq(Accesses) /\ Len(Append(running[e], a)) <= Limits[e]
        BY <1>7, <2>1
    <2> QED BY <1>1, <1>7, <2>2 DEF WaitsInv
\* What is issued conflicts with nothing that an entry it may meet covers.
<1>11. /\ \A i \in DOMAIN running.dma : ~Conflicts(a, running.dma[i]) /\ ~Conflicts(running.dma[i], a)
       /\ e = "dma" => \A i \in DOMAIN running.npu :
                           ~Conflicts(a, running.npu[i]) /\ ~Conflicts(running.npu[i], a)
    <2>1. Covers(l.dma, running.dma) /\ Covers(l.npu, running.npu)
        <3>1. Covers(l["dma"], running["dma"]) /\ Covers(l["npu"], running["npu"])
            BY <1>4 DEF Engines
        <3> QED BY <3>1
    <2>2. ASSUME NEW i \in DOMAIN running.dma
          PROVE  ~Conflicts(a, running.dma[i]) /\ ~Conflicts(running.dma[i], a)
        <3>1. PICK j \in DOMAIN l.dma : Within(running.dma[i], l.dma[j])
            BY <2>1 DEF Covers
        <3>2. ~Conflicts(a, l.dma[j]) /\ Within(a, a)
            BY <1>5 DEF RunsSafely, Within
        <3> QED BY <3>1, <3>2, ConflictsGrow
    <2>3. ASSUME e = "dma", NEW i \in DOMAIN running.npu
          PROVE  ~Conflicts(a, running.npu[i]) /\ ~Conflicts(running.npu[i], a)
        <3>1. PICK j \in DOMAIN l.npu : Within(running.npu[i], l.npu[j])
            BY <2>1 DEF Covers
        <3>2. ~Conflicts(a, l.npu[j]) /\ Within(a, a)
            BY <1>5, <2>3 DEF RunsSafely, Within
        <3> QED BY <3>1, <3>2, ConflictsGrow
    <2> QED BY <2>2, <2>3
<1>12. NoHazard'
    <2>1. PICK d, k : d = running.dma /\ k = running.npu /\ d \in Seq(Accesses) /\ k \in Seq(Accesses)
        BY <1>1 DEF Engines
    <2>2. /\ \A i \in DOMAIN d, j \in DOMAIN k : ~Conflicts(d[i], k[j])
          /\ \A i, j \in DOMAIN d : i # j => ~Conflicts(d[i], d[j])
        BY <2>1 DEF WaitsInv, NoHazard
    <2>3. CASE e = "dma"
        <3>1. running'.npu = k /\ running'.dma = Append(d, a)
            <4>1. running'["npu"] = k /\ running'["dma"] = Append(d, a)
                BY <1>7, <2>1, <2>3 DEF Engines
            <4> QED BY <4>1
        <3>0. PICK longer : longer = Append(d, a)
            OBVIOUS
        <3>2. /\ longer = Append(d, a) /\ DOMAIN longer = 1..(Len(d) + 1)
              /\ longer[Len(d) + 1] = a /\ \A i \in DOMAIN d : longer[i] = d[i]
              /\ DOMAIN d = 1..Len(d) /\ Len(d) \in Nat
            BY <2>1, <3>0
        <3>3. \A i \in DOMAIN longer : i \in DOMAIN d \/ i = Len(d) + 1
            BY <3>2
        <3>4. \A i \in DOMAIN longer, j \in DOMAIN k : ~Conflicts(longer[i], k[j])
            BY <1>11, <2>1, <2>2, <2>3, <3>2, <3>3
        <3>5. \A i, j \in DOMAIN longer : i # j => ~Conflicts(longer[i], longer[j])
            BY <1>11, <2>1, <2>2, <3>2, <3>3
        <3> QED BY <3>1, <3>2, <3>4, <3>5 DEF NoHazard
    <2>4. CASE e = "npu"
        <3>1. running'.dma = d /\ running'.npu = Append(k, a)
            <4>1. running'["dma"] = d /\ running'["npu"] = Append(k, a)
                BY <1>7, <2>1, <2>4 DEF Engines
            <4> QED BY <4>1
        <3>0. PICK longer : longer = Append(k, a)
            OBVIOUS
        <3>2. /\ longer = Append(k, a) /\ DOMAIN longer = 1..(Len(k) + 1)
              /\ longer[Len(k) + 1] = a /\ \A i \in DOMAIN k : longer[i] = k[i]
              /\ DOMAIN k = 1..Len(k) /\ Len(k) \in Nat
            BY <2>1, <3>0
        <3>3. \A i \in DOMAIN longer : i \in DOMAIN k \/ i = Len(k) + 1
            BY <3>2
        <3>4. \A i \in DOMAIN d, j \in DOMAIN longer : ~Conflicts(d[i], longer[j])
            BY <1>11, <2>1, <2>2, <3>2, <3>3
        <3> QED BY <2>2, <3>1, <3>2, <3>4 DEF NoHazard
    <2> QED BY <2>3, <2>4 DEF Engines
<1>13. pc' # 0 /\ pc' \in Nat
    BY <1>1
<1> QED BY <1>1, <1>2, <1>9, <1>10, <1>12, <1>13 DEF WaitsInv

LEMMA PassWaitKeepsWaits == WaitsInv /\ PassWait => WaitsInv'
<1> SUFFICES ASSUME WaitsInv, PassWait PROVE WaitsInv'
    OBVIOUS
<1>1. /\ generator \in Generators /\ pc \in DOMAIN generator.code /\ pc \in Nat /\ Instruction.op = "wait"
      /\ pc' = pc + 1 /\ generator' = generator /\ commands' = commands /\ running' = running
      /\ Len(running[Instruction.engine]) <= Instruction.n
      /\ running \in [Engines -> Seq(Accesses)]
    BY DEF WaitsInv, PassWait, IsAt, Instruction
<1>2. PICK lists : Explains(lists, generator) /\ Conforms(lists)
    BY DEF WaitsInv
<1>3. PICK l, after : l = lists[pc] /\ after = lists[pc + 1]
    OBVIOUS
<1>4. /\ Leads(l, Instruction, after) /\ \A e \in Engines : Covers(l[e], running[e])
      /\ pc + 1 \in 1..(Len(generator.code) + 1)
    BY <1>1, <1>2, <1>3, InstructionLeads
<1>5. PICK e \in Engines, n \in Nat :
          Instruction = Wait(e, n) /\ AfterWait(l, e, n, after) /\ OthersStay(l, e, after)
    BY <1>1, <1>4 DEF Leads, Run
<1>6. Instruction.engine = e /\ Instruction.n = n
    BY <1>5 DEF Wait
<1>7. \A f \in Engines : Covers(after[f], running[f])
    BY <1>1, <1>4, <1>5, <1>6 DEF AfterWait, OthersStay
<1>8. Conforms(lists)'
    BY <1>1, <1>3, <1>4, <1>7 DEF Conforms
<1>9. NoHazard'
    BY <1>1 DEF WaitsInv, NoHazard
<1>10. pc' # 0 /\ pc' \in Nat
    BY <1>1
<1> QED BY <1>1, <1>2, <1>8, <1>9, <1>10 DEF WaitsInv

LEMMA PassTargetKeepsWaits == WaitsInv /\ PassTarget => WaitsInv'
<1> SUFFICES ASSUME WaitsInv, PassTarget PROVE WaitsInv'
    OBVIOUS
<1>1. /\ generator \in Generators /\ pc \in DOMAIN generator.code /\ pc \in Nat /\ Instruction.op = "target"
      /\ pc' = pc + 1 /\ generator' = generator /\ commands' = commands /\ running' = running
    BY DEF WaitsInv, PassTarget, IsAt, Instruction
<1>2. PICK lists : Explains(lists, generator) /\ Conforms(lists)
    BY DEF WaitsInv
<1>3. PICK l, after : l = lists[pc] /\ after = lists[pc + 1]
    OBVIOUS
<1>4. /\ Leads(l, Instruction, after) /\ \A e \in Engines : Covers(l[e], running[e])
      /\ pc + 1 \in 1..(Len(generator.code) + 1)
    BY <1>1, <1>2, <1>3, InstructionLeads
<1>5. after = l
    BY <1>1, <1>4 DEF Leads, Run, Wait
<1>6. Conforms(lists)'
    BY <1>1, <1>3, <1>4, <1>5 DEF Conforms
<1>7. NoHazard'
    BY <1>1 DEF WaitsInv, NoHazard
<1>8. pc' # 0 /\ pc' \in Nat
    BY <1>1
<1> QED BY <1>1, <1>2, <1>6, <1>7, <1>8 DEF WaitsInv

\* Wherever a branch goes, nothing is running there.
LEMMA JumpKeepsWaits == WaitsInv /\ Jump => WaitsInv'
<1> SUFFICES ASSUME WaitsInv, Jump PROVE WaitsInv'
    OBVIOUS
<1>1. /\ generator \in Generators /\ pc \in DOMAIN generator.code /\ pc \in Nat
      /\ Instruction.op = "branch" /\ pc' \in DOMAIN generator.code
      /\ generator' = generator /\ commands' = commands /\ running' = running
      /\ running \in [Engines -> Seq(Accesses)]
    BY DEF WaitsInv, Jump, IsAt, Instruction, Targets
<1>2. PICK lists : Explains(lists, generator) /\ Conforms(lists)
    BY DEF WaitsInv
<1>3. PICK l, after : l = lists[pc] /\ after = lists[pc + 1]
    OBVIOUS
<1>4. Leads(l, Instruction, after) /\ \A e \in Engines : Covers(l[e], running[e])
    BY <1>1, <1>2, <1>3, InstructionLeads
<1>5. l["dma"] = <<>> /\ l["npu"] = <<>>
    BY <1>1, <1>4 DEF Leads, Run, Wait
<1>6. ASSUME NEW e \in Engines PROVE running[e] = <<>>
    <2>1. Covers(<<>>, running[e]) /\ running[e] \in Seq(Accesses)
        BY <1>1, <1>4, <1>5 DEF Engines
    <2>2. PICK r \in Seq(Accesses) : r = running[e]
        BY <2>1
    <2>3. 1 \notin DOMAIN r
        BY <2>1, <2>2 DEF Covers
    <2>4. Len(r) \in Nat /\ ~(Len(r) >= 1)
        BY <2>3
    <2>5. r = <<>>
        BY <2>4
    <2> QED BY <2>2, <2>5
<1>7. pc' \in 1..(Len(generator.code) + 1) /\ pc' # 0 /\ pc' \in Nat
    BY <1>1 DEF Generators
<1>8. Conforms(lists)'
    BY <1>1, <1>6, <1>7, EmptyCovered DEF Conforms
<1>9. NoHazard'
    BY <1>1 DEF WaitsInv, NoHazard
<1> QED BY <1>1, <1>2, <1>7, <1>8, <1>9 DEF WaitsInv

\* An engine finishes its oldest operation first.
LEMMA FinishKeepsWaits == ASSUME NEW engine \in Engines PROVE WaitsInv /\ Finish(engine) => WaitsInv'
<1> SUFFICES ASSUME WaitsInv, Finish(engine) PROVE WaitsInv'
    OBVIOUS
<1>1. /\ generator' = generator /\ commands' = commands /\ pc' = pc
      /\ running[engine] # <<>> /\ running' = [running EXCEPT ![engine] = Tail(running[engine])]
      /\ running \in [Engines -> Seq(Accesses)]
    BY DEF WaitsInv, Finish
<1>2. PICK old, left : /\ old = running[engine] /\ left = Tail(old)
    OBVIOUS
<1>3. /\ old \in Seq(Accesses) /\ old # <<>> /\ left \in Seq(Accesses) /\ Len(left) = Len(old) - 1
      /\ Len(old) \in Nat
      /\ DOMAIN left = 1..Len(left) /\ DOMAIN old = 1..Len(old)
      /\ \A x \in DOMAIN left : x + 1 \in DOMAIN old /\ left[x] = old[x + 1]
    <2>1. old \in Seq(Accesses) /\ old # <<>>
        BY <1>1, <1>2
    <2>2. left \in Seq(Accesses) /\ Len(left) = Len(old) - 1 /\ Len(old) \in Nat
        BY <1>2, <2>1
    <2>3. \A x \in 1..Len(left) : left[x] = old[x + 1]
        BY <1>2, <2>1, <2>2
    <2> QED BY <2>1, <2>2, <2>3
<1>4. running'[engine] = left /\ \A f \in Engines \ {engine} : running'[f] = running[f]
    BY <1>1, <1>2
<1>5. PICK lists : Explains(lists, generator) /\ Conforms(lists)
    BY DEF WaitsInv
<1>6. ASSUME NEW list, Covers(list, old) PROVE Covers(list, left)
    <2> SUFFICES ASSUME NEW x \in DOMAIN left
                 PROVE  \E i \in DOMAIN list : Within(left[x], list[i]) /\ Len(list) - i <= Len(left) - x
        BY DEF Covers
    <2>1. x + 1 \in DOMAIN old /\ left[x] = old[x + 1]
        BY <1>3
    <2>2. PICK i \in DOMAIN list : Within(old[x + 1], list[i]) /\ Len(list) - i <= Len(old) - (x + 1)
        BY <1>6, <2>1 DEF Covers
    <2>3. Len(old) - (x + 1) = Len(left) - x
        BY <1>3
    <2> QED BY <2>1, <2>2, <2>3
<1>7. Conforms(lists)'
    <2> SUFFICES ASSUME pc > 0, NEW e \in Engines PROVE Covers(lists[pc][e], running'[e])
        BY <1>1, <1>5 DEF Conforms
    <2>1. Covers(lists[pc][e], running[e])
        BY <1>5 DEF Conforms
    <2> QED BY <1>2, <1>4, <1>6, <2>1
<1>8. NoHazard'
    <2>1. PICK d, k, e, m : d = running["dma"] /\ k = running["npu"] /\ e = running'["dma"] /\ m = running'["npu"]
        OBVIOUS
    <2>2. /\ \A i \in DOMAIN d, j \in DOMAIN k : ~Conflicts(d[i], k[j])
          /\ \A i, j \in DOMAIN d : i # j => ~Conflicts(d[i], d[j])
        BY <2>1 DEF WaitsInv, NoHazard
    <2>3. \A x, y \in DOMAIN left : x # y => x + 1 # y + 1
        BY <1>3
    <2>4. /\ \A i \in DOMAIN e, j \in DOMAIN m : ~Conflicts(e[i], m[j])
          /\ \A i, j \in DOMAIN e : i # j => ~Conflicts(e[i], e[j])
        <3>1. CASE engine = "dma"
            <4>1. d = old /\ e = left /\ m = k
                BY <1>2, <1>4, <2>1, <3>1 DEF Engines
            <4> QED BY <1>3, <2>2, <2>3, <4>1
        <3>2. CASE engine = "npu"
            <4>1. k = old /\ m = left /\ e = d
                BY <1>2, <1>4, <2>1, <3>2 DEF Engines
            <4> QED BY <1>3, <2>2, <2>3, <4>1
        <3> QED BY <3>1, <3>2 DEF Engines
    <2> QED BY <2>1, <2>4 DEF NoHazard
<1>9. /\ running' \in [Engines -> Seq(Accesses)] /\ \A e \in Engines : Len(running'[e]) <= Limits[e]
      /\ pc = 0 => \A e \in Engines : running'[e] = <<>>
    <2>1. Len(old) <= Limits[engine] /\ pc # 0
        BY <1>1, <1>2 DEF WaitsInv
    <2>2. Limits[engine] \in Nat
        BY NpuWaitsAssumption
    <2>3. Len(left) <= Limits[engine]
        BY <1>3, <2>1, <2>2
    <2> QED BY <1>1, <1>3, <1>4, <2>1, <2>3 DEF WaitsInv
<1> QED BY <1>1, <1>5, <1>7, <1>8, <1>9 DEF WaitsInv

\* In every reachable state what runs is covered by the lists at the program
\* counter, whatever the branches (GenerateWaits, UpdateMemoryAccesses).
THEOREM WaitsCorrect == Spec => []WaitsInv
<1>1. WaitsInv /\ UNCHANGED vars => WaitsInv'
    <2> SUFFICES ASSUME WaitsInv, UNCHANGED vars PROVE WaitsInv'
        OBVIOUS
    <2>1. UNCHANGED <<generator, commands, pc, running>>
        BY DEF vars
    <2>2. NoHazard' /\ \A lists : Conforms(lists)' <=> Conforms(lists)
        BY <2>1 DEF WaitsInv, NoHazard, Conforms
    <2> QED BY <2>1, <2>2 DEF WaitsInv
<1>2. WaitsInv /\ [Next]_vars => WaitsInv'
    BY <1>1, GenerateKeepsWaits, StartKeepsWaits, IssueKeepsWaits, PassWaitKeepsWaits,
       PassTargetKeepsWaits, JumpKeepsWaits, FinishKeepsWaits DEF Next
<1> QED BY <1>2, WaitsBegin, PTL DEF Spec

\* No transfer runs beside an operation it conflicts with: the waits of the
\* command stream are enough, on every path through it (CalcCommandWaits).
THEOREM NothingConflicts == Spec => []NoHazard
<1>1. WaitsInv => NoHazard
    BY DEF WaitsInv
<1> QED BY <1>1, WaitsCorrect, PTL

\* The generator remembers, and the engines hold, no more than the limits.
THEOREM WaitsTypeCorrect == Spec => []TypeOK
<1>1. WaitsInv => TypeOK
    <2> SUFFICES ASSUME WaitsInv PROVE TypeOK
        OBVIOUS
    <2>1. \A e \in Engines : Len(generator[e]) <= Limits[e] /\ Len(running[e]) <= Limits[e]
        BY DEF WaitsInv, Generators, Engines
    <2>2. pc \in 0..(Len(generator.code) + 1)
        <3>1. Len(generator.code) \in Nat /\ pc \in Nat
            BY DEF WaitsInv, Generators
        <3> QED BY <3>1 DEF WaitsInv, Conforms
    <2> QED BY <2>1, <2>2 DEF WaitsInv, TypeOK
<1> QED BY <1>1, WaitsCorrect, PTL

-----------------------------------------------------------------------------
(* Lookup tables (LutSlots).                                               *)

\* Sizes of tables divide one another and the memory.
TablesNest ==
    /\ TotalSlots \in Nat
    /\ \A op \in DOMAIN Table : Units[op] \in Nat \ {0} /\ Units[op] <= TotalSlots
    /\ \A op \in DOMAIN Table : TotalSlots % Units[op] = 0
    /\ \A a, b \in DOMAIN Table : Units[a] <= Units[b] => Units[b] % Units[a] = 0

OneTable == [type : {"stripe"}, ops : {<<>>} \cup {<<op>> : op \in DOMAIN Table}]

\* No branches, at most one table per group, and the stripes of an operation
\* without another table between them.
InRow(s) ==
    /\ s \in Seq(OneTable)
    /\ \A i, j \in 1..Len(s) : \A op \in DOMAIN Table :
          i < j /\ s[i].ops = <<op>> /\ s[j].ops = <<op>> =>
             \A k \in i..j : s[k].ops \in {<<>>, <<op>>}

-----------------------------------------------------------------------------
(* Multiples                                                               *)

\* The slots of a table begin at a multiple of their number (the assertion on
\* tableIndex): these four facts are about such multiples.
LEMMA MultipleOf ==
    ASSUME NEW a \in Nat, NEW d \in Nat \ {0}, a % d = 0
    PROVE  \E q \in Nat : a = q * d
<1>1. a \div d \in Int /\ a % d \in 0..(d - 1) /\ a = d * (a \div d) + (a % d)
    OBVIOUS
<1>2. a \div d >= 0
    BY <1>1
<1>3. PICK q : q = a \div d
    OBVIOUS
<1>4. q \in Nat /\ a = q * d
    BY <1>1, <1>2, <1>3
<1> QED BY <1>4

LEMMA ProductIsMultiple ==
    ASSUME NEW q \in Nat, NEW d \in Nat \ {0}
    PROVE  (q * d) % d = 0
<1>1. PICK a, r, p : a = q * d /\ r = a % d /\ p = a \div d
    OBVIOUS
<1>2. a \in Nat /\ r \in 0..(d - 1) /\ p \in Int /\ a = d * p + r
    BY <1>1
<1>3. d * (q - p) = r
    BY <1>1, <1>2
<1>4. CASE q - p >= 1
    <2>1. d * (q - p) >= d
        BY <1>2, <1>4
    <2> QED BY <1>2, <1>3, <2>1
<1>5. CASE q - p <= -1
    <2>1. d * (q - p) <= -d
        BY <1>2, <1>5
    <2> QED BY <1>2, <1>3, <2>1
<1>6. CASE q - p = 0
    BY <1>1, <1>2, <1>3, <1>6
<1> QED BY <1>2, <1>4, <1>5, <1>6

\* Two multiples of a size are a table apart.
LEMMA MultiplesApart ==
    ASSUME NEW a \in Nat, NEW b \in Nat, NEW d \in Nat \ {0}, a % d = 0, b % d = 0, a < b
    PROVE  a + d <= b
<1>1. PICK p \in Nat, q \in Nat : a = p * d /\ b = q * d
    <2>1. (\E p \in Nat : a = p * d) /\ (\E q \in Nat : b = q * d)
        BY MultipleOf
    <2> QED BY <2>1
<1>2. p < q
    <2> SUFFICES ASSUME q <= p PROVE FALSE
        BY <1>1
    <2>1. PICK e \in Nat : p = q + e
        <3>1. p - q \in Nat /\ p = q + (p - q)
            OBVIOUS
        <3> QED BY <3>1
    <2>2. e * d \in Nat /\ p * d = q * d + e * d
        BY <2>1
    <2> QED BY <1>1, <2>2
<1>3. PICK e \in Nat : q = p + 1 + e
    <2>1. q - p - 1 \in Nat /\ q = p + 1 + (q - p - 1)
        BY <1>2
    <2> QED BY <2>1
<1>4. e * d \in Nat /\ q * d = p * d + d + e * d
    BY <1>3
<1> QED BY <1>1, <1>4

LEMMA MultipleOfPart ==
    ASSUME NEW a \in Nat, NEW d \in Nat \ {0}, NEW c \in Nat \ {0}, a % d = 0, d % c = 0
    PROVE  a % c = 0 /\ (a + d) % c = 0
<1>1. PICK p \in Nat, q \in Nat : a = p * d /\ d = q * c
    <2>1. (\E p \in Nat : a = p * d) /\ (\E q \in Nat : d = q * c)
        BY MultipleOf
    <2> QED BY <2>1
<1>2. PICK m \in Nat : m = p * q
    OBVIOUS
<1>3. a = m * c /\ a + d = (m + q) * c /\ m + q \in Nat
    BY <1>1, <1>2
<1> QED BY <1>3, ProductIsMultiple

\* A table does not reach over the next multiple of its size.
LEMMA WithinMultiple ==
    ASSUME NEW b \in Nat, NEW d \in Nat \ {0}, b % d = 0, NEW i \in b..(b + d - 1)
    PROVE  i % d = i - b
<1>1. PICK p \in Nat : b = p * d
    BY MultipleOf
<1>2. PICK k, r, q : k = i - b /\ r = i % d /\ q = i \div d
    OBVIOUS
<1>3. k \in 0..(d - 1) /\ r \in 0..(d - 1) /\ q \in Int /\ i = d * q + r
    BY <1>2
<1>4. d * (q - p) = k - r
    <2>1. d * (q - p) = d * q - p * d
        BY <1>3
    <2>2. PICK x \in Int, y \in Int : x = d * q /\ y = p * d
        BY <1>3
    <2>3. b = y /\ i = x + r /\ k = i - b /\ k \in Int /\ r \in Int
        BY <1>1, <1>2, <1>3, <2>2
    <2> QED BY <2>1, <2>2, <2>3
<1>5. k - r <= d - 1 /\ k - r >= -(d - 1)
    BY <1>3
<1>6. CASE q - p >= 1
    <2>1. d * (q - p) >= d
        BY <1>3, <1>6
    <2> QED BY <1>3, <1>4, <1>5, <2>1
<1>7. CASE q - p <= -1
    <2>1. d * (q - p) <= -d
        BY <1>3, <1>7
    <2> QED BY <1>3, <1>4, <1>5, <2>1
<1>8. CASE q - p = 0
    BY <1>2, <1>3, <1>4, <1>8
<1> QED BY <1>3, <1>6, <1>7, <1>8

-----------------------------------------------------------------------------
(* The groups.                                                             *)

\* A group has the table of one operation, or none.
LEMMA FoldsOne ==
    ASSUME NEW start, NEW op
    PROVE  /\ FoldLeft(WithTable, start, <<>>) = start
           /\ FoldLeft(WithTable, start, <<op>>) = WithTable(start, op)
<1>1. FoldLeft(WithTable, start, <<>>) = start
    <2> DEFINE Is(f) == f = [s \in SUBSET {} |->
                  IF s = {} THEN start
                  ELSE WithTable(f[s \ {Max(s)}], <<>>[Max(s)])]
    <2>1. FoldLeft(WithTable, start, <<>>) = (CHOOSE f : Is(f))[{}]
        BY DEF FoldLeft, MapThenFoldSet
    <2>2. Is([s \in SUBSET {} |-> start])
        OBVIOUS
    <2>3. Is(CHOOSE f : Is(f))
        <3> HIDE DEF Is
        <3> QED BY <2>2
    <2>4. (CHOOSE f : Is(f))[{}] = start
        <3>1. PICK g : g = (CHOOSE f : Is(f)) /\ Is(g)
            BY <2>3
        <3> QED BY <3>1
    <2> HIDE DEF Is
    <2> QED BY <2>1, <2>4
<1>2. FoldLeft(WithTable, start, <<op>>) = WithTable(start, op)
    <2> DEFINE Is(f) == f = [s \in SUBSET {1} |->
                  IF s = {} THEN start
                  ELSE WithTable(f[s \ {Max(s)}], <<op>>[Max(s)])]
               g == [s \in SUBSET {1} |-> IF s = {} THEN start ELSE WithTable(start, op)]
    <2>1. FoldLeft(WithTable, start, <<op>>) = (CHOOSE f : Is(f))[{1}]
        <3>1. DOMAIN <<op>> = {1}
            OBVIOUS
        <3> QED BY <3>1 DEF FoldLeft, MapThenFoldSet
    <2>2. Max({1}) = 1
        BY DEF Max
    <2>3. \A s \in SUBSET {1} : s = {} \/ s = {1}
        OBVIOUS
    <2>4. Is(g)
        <3> DEFINE h == [s \in SUBSET {1} |->
                  IF s = {} THEN start
                  ELSE WithTable(g[s \ {Max(s)}], <<op>>[Max(s)])]
        <3>1. \A s \in SUBSET {1} : h[s] = g[s]
            <4> SUFFICES ASSUME NEW s \in SUBSET {1} PROVE h[s] = g[s]
                OBVIOUS
            <4>1. CASE s = {}
                BY <4>1
            <4>2. CASE s = {1}
                <5>1. {1} \ {1} = {} /\ {} \in SUBSET {1} /\ {1} \in SUBSET {1} /\ {1} # {} /\ <<op>>[1] = op
                    OBVIOUS
                <5>2. g[{}] = start
                    BY <5>1
                <5> QED BY <2>2, <4>2, <5>1, <5>2
            <4> QED BY <2>3, <4>1, <4>2
        <3> QED BY <3>1
    <2>5. Is(CHOOSE f : Is(f))
        <3> HIDE DEF Is
        <3> QED BY <2>4
    <2>6. (CHOOSE f : Is(f))[{1}] = WithTable(start, op)
        <3>1. PICK f : f = (CHOOSE h : Is(h)) /\ Is(f)
            BY <2>5
        <3>2. f[{}] = start
            BY <3>1
        <3>3. {1} \ {1} = {} /\ {1} # {} /\ <<op>>[1] = op /\ {1} \in SUBSET {1}
            OBVIOUS
        <3>4. f[{1}] = WithTable(f[{1} \ {Max({1})}], <<op>>[Max({1})])
            BY <3>1, <3>3
        <3>5. {1} \ {Max({1})} = {} /\ <<op>>[Max({1})] = op
            BY <2>2, <3>3
        <3> HIDE DEF Is
        <3> QED BY <3>1, <3>2, <3>4, <3>5
    <2> HIDE DEF Is
    <2> QED BY <2>1, <2>6
<1> QED BY <1>1, <1>2

-----------------------------------------------------------------------------
(* The slots a table is given (AllocateLutSlot).                           *)

\* Every slot in use says which table it has a part of.
IsSlotTable(ss) ==
    \A i \in Slots :
        /\ ss[i].units \in Nat /\ ss[i].lastUsed \in Nat
        /\ ss[i].units # 0 => \E op \in DOMAIN Table : ss[i].table = Table[op] /\ ss[i].units = Units[op]

\* A table whose first slot is there is there as a whole.
IsWhole(ss) ==
    \A i \in Slots :
        ss[i].units # 0 /\ i % ss[i].units = 0 =>
            \A j \in i..(i + ss[i].units - 1) : j \in Slots /\ ss[j] = ss[i]

IsResident(ss, op, slot) ==
    /\ slot \in Residents(ss, op)
    /\ \A i \in Residents(ss, op) : slot <= i

\* The first of the slots unused the longest.
IsOldest(ss, op, slot) ==
    \A i \in Heads(op) :
        /\ ss[slot].lastUsed <= ss[i].lastUsed
        /\ ss[i].lastUsed = ss[slot].lastUsed => slot <= i

\* The slot is in the memory and a multiple of the units; it has the table, or
\* is the first of those unused the longest (AllocateLutSlot).
LEMMA SlotChosen ==
    ASSUME TablesNest, NEW op \in DOMAIN Table, NEW ss, IsSlotTable(ss),
           NEW slot, slot = AllocatedSlot(ss, op)
    PROVE  /\ slot \in Heads(op)
           /\ slot \in Nat /\ slot % Units[op] = 0 /\ slot + Units[op] <= TotalSlots
           /\ IF IsFound(ss, op) THEN IsResident(ss, op, slot) ELSE IsOldest(ss, op, slot)
<1>1. PICK u \in Nat \ {0}, n \in Nat : u = Units[op] /\ n = TotalSlots /\ u <= n /\ n % u = 0
    BY DEF TablesNest
<1>2. PICK heads : heads = Heads(op)
    OBVIOUS
<1>3. heads \in SUBSET Nat /\ \A i \in Nat : i \in heads <=> i < n /\ i % u = 0
    BY <1>1, <1>2 DEF Heads, Slots
<1>4. slot \in heads /\ IF IsFound(ss, op) THEN IsResident(ss, op, slot) ELSE IsOldest(ss, op, slot)
    <2>1. CASE IsFound(ss, op)
        <3>1. PICK R : R = Residents(ss, op) /\ R # {} /\ R \in SUBSET heads
            BY <1>2, <2>1 DEF IsFound, Residents
        <3>2. slot = Min(R)
            BY <2>1, <3>1 DEF AllocatedSlot, Min
        <3>3. slot \in R /\ \A i \in R : slot <= i
            BY <1>3, <3>1, <3>2, LeastNatural
        <3> QED BY <2>1, <3>1, <3>3 DEF IsResident
    <2>2. CASE ~IsFound(ss, op)
        <3>1. \A i \in heads : ss[i].lastUsed \in Nat
            BY <1>2 DEF IsSlotTable, Heads
        <3>2. PICK first \in heads : \A j \in heads : ss[first].lastUsed <= ss[j].lastUsed
            <4> DEFINE T == {ss[i].lastUsed : i \in heads}
            <4>1. 0 \in heads
                <5>1. 0 % u = 0
                    BY ProductIsMultiple, 0 * u = 0
                <5> QED BY <1>1, <1>3, <5>1
            <4>2. T \in SUBSET Nat /\ T # {}
                BY <3>1, <4>1
            <4>3. PICK x \in T : \A y \in T : x <= y
                <5> HIDE DEF T
                <5> QED BY <4>2, LeastElement
            <4> QED BY <4>3
        <3>3. PICK T : T = {i \in heads : \A j \in heads : ss[i].lastUsed <= ss[j].lastUsed}
            OBVIOUS
        <3>4. T \in SUBSET Nat /\ first \in T
            BY <1>3, <3>2, <3>3
        <3>5. slot = Min(T)
            BY <1>2, <2>2, <3>3 DEF AllocatedSlot, LeastRecent, Min
        <3>6. slot \in T /\ \A i \in T : slot <= i
            BY <3>4, <3>5, LeastNatural
        <3>7. ASSUME NEW i \in heads
              PROVE  /\ ss[slot].lastUsed <= ss[i].lastUsed
                     /\ ss[i].lastUsed = ss[slot].lastUsed => slot <= i
            BY <3>3, <3>6
        <3> QED BY <1>2, <2>2, <3>3, <3>6, <3>7 DEF IsOldest
    <2> QED BY <2>1, <2>2
<1>5. slot \in Nat /\ slot < n /\ slot % u = 0
    BY <1>3, <1>4
<1>6. slot + u <= n
    BY <1>1, <1>5, MultiplesApart
<1> QED BY <1>1, <1>2, <1>4, <1>5, <1>6

\* Slots taken with lastUsed time, as AllocateLutSlot leaves them.
Taken(ss, op, slot, time) ==
    [i \in Slots |-> IF i \in slot..(slot + Units[op] - 1)
                         THEN [table |-> Table[op], units |-> Units[op], lastUsed |-> time]
                         ELSE ss[i]]

\* What is taken are whole tables, or the first slots of one: the slots of a
\* table are equally old, and the first of them is taken first.
LEMMA TakenIsWhole ==
    ASSUME TablesNest, NEW op \in DOMAIN Table, NEW ss, IsSlotTable(ss), IsWhole(ss),
           NEW slot, slot = AllocatedSlot(ss, op), NEW time \in Nat
    PROVE  /\ IsSlotTable(Taken(ss, op, slot, time))
           /\ IsWhole(Taken(ss, op, slot, time))
<1>1. PICK u \in Nat \ {0}, n \in Nat : u = Units[op] /\ n = TotalSlots /\ Slots = 0..(n - 1)
    BY DEF TablesNest, Slots
<1>2. /\ slot \in Nat /\ slot % u = 0 /\ slot + u <= n /\ slot \in Slots
      /\ IF IsFound(ss, op) THEN IsResident(ss, op, slot) ELSE IsOldest(ss, op, slot)
    BY <1>1, SlotChosen
<1>3. PICK new : new = [table |-> Table[op], units |-> u, lastUsed |-> time]
    OBVIOUS
<1>4. PICK r : r = Taken(ss, op, slot, time)
    OBVIOUS
<1>5. \A i \in Slots : r[i] = IF i \in slot..(slot + u - 1) THEN new ELSE ss[i]
    BY <1>1, <1>3, <1>4 DEF Taken
<1>6. IsSlotTable(r)
    <2> SUFFICES ASSUME NEW i \in Slots
                 PROVE  /\ r[i].units \in Nat /\ r[i].lastUsed \in Nat
                        /\ r[i].units # 0 =>
                              \E o \in DOMAIN Table : r[i].table = Table[o] /\ r[i].units = Units[o]
        BY DEF IsSlotTable
    <2>1. CASE i \in slot..(slot + u - 1)
        BY <1>1, <1>3, <1>5, <2>1
    <2>2. CASE i \notin slot..(slot + u - 1)
        BY <1>5, <2>2 DEF IsSlotTable
    <2> QED BY <2>1, <2>2
<1>7. ASSUME NEW i \in Slots, i \notin slot..(slot + u - 1), ss[i].units # 0, i % ss[i].units = 0,
             NEW j \in i..(i + ss[i].units - 1)
      PROVE  j \notin slot..(slot + u - 1)
    <2> SUFFICES ASSUME j \in slot..(slot + u - 1) PROVE FALSE
        OBVIOUS
    <2>1. PICK d \in Nat \ {0} : d = ss[i].units
        BY <1>7 DEF IsSlotTable
    <2>2. PICK o \in DOMAIN Table : d = Units[o]
        BY <1>7, <2>1 DEF IsSlotTable
    <2>3. i \in Nat /\ i % d = 0 /\ j \in Nat /\ i <= j /\ j < i + d /\ slot <= j /\ j < slot + u
        <3>1. i \in 0..(n - 1)
            BY <1>1
        <3>2. j \in i..(i + d - 1) /\ i % d = 0
            BY <1>7, <2>1
        <3> QED BY <1>1, <1>2, <3>1, <3>2
    <2>4. i < slot \/ slot + u <= i
        BY <1>1, <1>2, <1>7, <2>3
    <2>5. i < slot
        BY <1>1, <1>2, <2>3, <2>4
    <2>6. CASE d <= u
        <3>1. u % d = 0
            BY <1>1, <2>2, <2>6 DEF TablesNest
        <3>2. slot % d = 0
            BY <1>2, <3>1, MultipleOfPart
        <3>3. i + d <= slot
            BY <1>2, <2>3, <2>5, <3>2, MultiplesApart
        <3> QED BY <1>2, <2>3, <3>3
    <2>7. CASE u < d
        <3>1. d % u = 0
            BY <1>1, <2>2, <2>7 DEF TablesNest
        <3>2. i % u = 0
            BY <2>3, <3>1, MultipleOfPart
        <3>3. slot \in i..(i + d - 1)
            BY <1>2, <2>3, <2>5
        <3>4. ss[slot] = ss[i]
            BY <1>7, <2>1, <3>3 DEF IsWhole
        <3>5. CASE IsFound(ss, op)
            <4>1. ss[slot].units = u
                BY <1>1, <1>2, <3>5 DEF IsResident, Residents
            <4> QED BY <2>1, <2>7, <3>4, <4>1
        <3>6. CASE ~IsFound(ss, op)
            <4>1. i \in Heads(op)
                BY <1>1, <1>7, <3>2 DEF Heads
            <4>2. slot <= i
                BY <1>2, <3>4, <3>6, <4>1 DEF IsOldest
            <4> QED BY <1>2, <2>3, <2>5, <4>2
        <3> QED BY <3>5, <3>6
    <2> QED BY <1>1, <2>1, <2>6, <2>7
<1>8. IsWhole(r)
    <2> SUFFICES ASSUME NEW i \in Slots, r[i].units # 0, i % r[i].units = 0,
                        NEW j \in i..(i + r[i].units - 1)
                 PROVE  j \in Slots /\ r[j] = r[i]
        BY DEF IsWhole
    <2>1. CASE i \in slot..(slot + u - 1)
        <3>1. r[i] = new /\ r[i].units = u
            BY <1>3, <1>5, <2>1
        <3>2. i - slot = i % u
            BY <1>2, <2>1, WithinMultiple
        <3>3. i = slot
            BY <1>1, <1>2, <3>1, <3>2
        <3>4. j \in slot..(slot + u - 1) /\ j \in Slots
            BY <1>1, <1>2, <3>1, <3>3
        <3> QED BY <1>5, <3>1, <3>4
    <2>2. CASE i \notin slot..(slot + u - 1)
        <3>1. r[i] = ss[i]
            BY <1>5, <2>2
        <3>2. j \in Slots /\ ss[j] = ss[i]
            BY <3>1 DEF IsWhole
        <3>3. j \notin slot..(slot + u - 1)
            BY <1>7, <2>2, <3>1
        <3> QED BY <1>5, <3>1, <3>2, <3>3
    <2> QED BY <2>1, <2>2
<1> QED BY <1>4, <1>6, <1>8

-----------------------------------------------------------------------------
(* What the transfers of a list of commands leave in the slots.            *)

Loads == [type : {"load"}, op : DOMAIN Table, slot : Nat]

LutCode == OneTable \cup Loads

Fills(c, i) == c.type = "load" /\ i \in c.slot..(c.slot + Units[c.op] - 1)

\* Behind the first p - 1 commands slot i has part v.
Shows(list, p, i, v) ==
    \E j \in 1..(p - 1) :
        /\ Fills(list[j], i)
        /\ v = <<Table[list[j].op], i - list[j].slot>>
        /\ \A k \in (j + 1)..(p - 1) : ~Fills(list[k], i)

\* The commands before do not matter to those appended, nor the other way.
LEMMA AppendShows ==
    ASSUME NEW list \in Seq(LutCode), NEW c \in LutCode, NEW r, r = Append(list, c)
    PROVE  /\ r \in Seq(LutCode) /\ Len(r) = Len(list) + 1
           /\ \A p \in 1..(Len(list) + 1) : \A i, v : Shows(list, p, i, v) => Shows(r, p, i, v)
           /\ \A i, v : Shows(list, Len(list) + 1, i, v) /\ ~Fills(c, i) => Shows(r, Len(r) + 1, i, v)
           /\ \A i : Fills(c, i) => Shows(r, Len(r) + 1, i, <<Table[c.op], i - c.slot>>)
<1>1. PICK n \in Nat : n = Len(list)
    OBVIOUS
<1>2. r \in Seq(LutCode) /\ Len(r) = n + 1 /\ r[n + 1] = c /\ \A k \in 1..n : r[k] = list[k]
    BY <1>1
<1>3. ASSUME NEW p \in 1..(n + 1), NEW i, NEW v, Shows(list, p, i, v) PROVE Shows(r, p, i, v)
    <2>1. PICK j \in 1..(p - 1) : /\ Fills(list[j], i)
                                  /\ v = <<Table[list[j].op], i - list[j].slot>>
                                  /\ \A k \in (j + 1)..(p - 1) : ~Fills(list[k], i)
        BY <1>3 DEF Shows
    <2>2. r[j] = list[j] /\ \A k \in (j + 1)..(p - 1) : r[k] = list[k]
        BY <1>2
    <2> QED BY <2>1, <2>2 DEF Shows
<1>4. ASSUME NEW i, NEW v, Shows(list, n + 1, i, v), ~Fills(c, i) PROVE Shows(r, n + 2, i, v)
    <2>1. PICK j \in 1..n : /\ Fills(list[j], i)
                            /\ v = <<Table[list[j].op], i - list[j].slot>>
                            /\ \A k \in (j + 1)..n : ~Fills(list[k], i)
        BY <1>4 DEF Shows
    <2>2. r[j] = list[j] /\ j \in 1..(n + 1)
        BY <1>2
    <2>3. ASSUME NEW k \in (j + 1)..(n + 1) PROVE ~Fills(r[k], i)
        <3>1. CASE k = n + 1
            BY <1>2, <1>4, <3>1
        <3>2. CASE k # n + 1
            BY <1>2, <2>1, <3>2
        <3> QED BY <3>1, <3>2
    <2>4. PICK p \in Nat : p = n + 2 /\ p - 1 = n + 1
        OBVIOUS
    <2>5. v = <<Table[r[j].op], i - r[j].slot>> /\ Fills(r[j], i)
        BY <2>1, <2>2
    <2>6. j \in 1..(p - 1) /\ \A k \in (j + 1)..(p - 1) : ~Fills(r[k], i)
        BY <2>2, <2>3, <2>4
    <2>7. Shows(r, p, i, v)
        BY <2>5, <2>6 DEF Shows
    <2> QED BY <2>4, <2>7
<1>5. ASSUME NEW i, Fills(c, i) PROVE Shows(r, n + 2, i, <<Table[c.op], i - c.slot>>)
    <2>1. n + 1 \in 1..(n + 1) /\ \A k \in (n + 2)..(n + 1) : FALSE
        OBVIOUS
    <2> QED BY <1>2, <1>5, <2>1 DEF Shows
<1> QED BY <1>1, <1>2, <1>3, <1>4, <1>5

\* A stripe transfers no table.
LEMMA StripesFillNothing == ASSUME NEW c \in OneTable, NEW i PROVE ~Fills(c, i) /\ c \in LutCode
BY DEF OneTable, Fills, LutCode

-----------------------------------------------------------------------------
(* What the generator knows.                                               *)

\* What the slots are said to have, they have behind the commands so far.
IsKnown(ss, list) ==
    \A i \in Slots :
        ss[i].units # 0 => Shows(list, Len(list) + 1, i, <<ss[i].table, i % ss[i].units>>)

IsStripeOf(c, op) == c.type = "stripe" /\ c.ops = <<op>>

\* Each stripe finds its table in the slot its operation ends up with.
StripesFind(list, os) ==
    \A p \in 1..Len(list) : \A op \in DOMAIN Table :
        IsStripeOf(list[p], op) =>
            \A k \in 0..(Units[op] - 1) :
                os[op] + k \in Slots /\ Shows(list, p, os[op] + k, <<Table[op], k>>)

\* The stripes so far are those of the stream.
StripesCome(list, s, n) ==
    \A p \in 1..Len(list) : \A op \in DOMAIN Table :
        IsStripeOf(list[p], op) => \E j \in 1..n : s[j].ops = <<op>>

\* The operation at work would be given its slot again.
KeepsSlot(s, n, ss, os) ==
    \A j \in 1..n : \A op \in DOMAIN Table :
        s[j].ops = <<op>> /\ (\A k \in j..n : s[k].ops \in {<<>>, <<op>>}) =>
            IsResident(ss, op, os[op])

SlotsInv ==
    /\ stream \in LutStreams
    /\ next \in 1..(Len(stream) + 1)
    /\ code \in Seq(LutCode)
    /\ opSlot \in [DOMAIN Table -> Nat]
    /\ IsSlotTable(slots) /\ IsWhole(slots) /\ IsKnown(slots, code)
    /\ StripesFind(code, opSlot) /\ StripesCome(code, stream, next - 1)
    /\ KeepsSlot(stream, next - 1, slots, opSlot)

\* The slots of a table and what the commands show after a transfer, or none.
LEMMA TakenIsKnown ==
    ASSUME TablesNest, NEW op \in DOMAIN Table, NEW ss, IsSlotTable(ss), IsWhole(ss),
           NEW slot, slot = AllocatedSlot(ss, op), NEW time \in Nat,
           NEW list \in Seq(LutCode), IsKnown(ss, list),
           NEW r, r = IF IsFound(ss, op) THEN list
                      ELSE Append(list, [type |-> "load", op |-> op, slot |-> slot])
    PROVE  /\ r \in Seq(LutCode)
           /\ IsKnown(Taken(ss, op, slot, time), r)
           /\ \A k \in 0..(Units[op] - 1) :
                 slot + k \in Slots /\ Shows(r, Len(r) + 1, slot + k, <<Table[op], k>>)
<1>1. PICK u \in Nat \ {0}, n \in Nat : u = Units[op] /\ n = TotalSlots /\ Slots = 0..(n - 1)
    BY DEF TablesNest, Slots
<1>2. /\ slot \in Nat /\ slot % u = 0 /\ slot + u <= n /\ slot \in Slots
      /\ IsFound(ss, op) => IsResident(ss, op, slot)
    BY <1>1, SlotChosen
<1>3. PICK ts : ts = Taken(ss, op, slot, time)
    OBVIOUS
<1>4. \A i \in Slots : IF i \in slot..(slot + u - 1)
                           THEN ts[i].table = Table[op] /\ ts[i].units = u
                           ELSE ts[i] = ss[i]
    BY <1>1, <1>3 DEF Taken
<1>5. ASSUME NEW i \in slot..(slot + u - 1) PROVE i \in Slots /\ i % u = i - slot
    <2>1. i \in Slots
        BY <1>1, <1>2
    <2>2. i % u = i - slot
        BY <1>2, WithinMultiple
    <2> QED BY <2>1, <2>2
<1>6. CASE IsFound(ss, op)
    <2>1. ss[slot].table = Table[op] /\ ss[slot].units = u
        BY <1>1, <1>2, <1>6 DEF IsResident, Residents
    <2>2. \A i \in slot..(slot + u - 1) : ss[i] = ss[slot]
        BY <1>2, <2>1 DEF IsWhole
    <2>3. r = list
        BY <1>6
    <2>4. \A i \in Slots : ts[i].table = ss[i].table /\ ts[i].units = ss[i].units
        BY <1>4, <2>1, <2>2
    <2>5. IsKnown(ts, r)
        BY <2>3, <2>4 DEF IsKnown
    <2>6. ASSUME NEW k \in 0..(u - 1)
          PROVE  slot + k \in Slots /\ Shows(r, Len(r) + 1, slot + k, <<Table[op], k>>)
        <3>1. PICK i \in slot..(slot + u - 1) : i = slot + k
            BY <1>2
        <3>2. i \in Slots /\ i % u = k
            BY <1>2, <1>5, <3>1
        <3>3. Shows(list, Len(list) + 1, i, <<Table[op], k>>)
            BY <2>1, <2>2, <3>2 DEF IsKnown
        <3> QED BY <2>3, <3>1, <3>2, <3>3
    <2> QED BY <1>1, <1>3, <2>3, <2>5, <2>6
<1>7. CASE ~IsFound(ss, op)
    <2>1. PICK c : c = [type |-> "load", op |-> op, slot |-> slot]
        OBVIOUS
    <2>2. c \in LutCode /\ c.op = op /\ c.slot = slot /\ r = Append(list, c)
        BY <1>2, <1>7, <2>1 DEF LutCode, Loads
    <2>3. \A i : Fills(c, i) <=> i \in slot..(slot + u - 1)
        BY <1>1, <2>1 DEF Fills
    <2>4. r \in Seq(LutCode)
        BY <2>2, AppendShows
    <2>5. ASSUME NEW i \in slot..(slot + u - 1) PROVE Shows(r, Len(r) + 1, i, <<Table[op], i - slot>>)
        <3>1. \A x : Fills(c, x) => Shows(r, Len(r) + 1, x, <<Table[c.op], x - c.slot>>)
            BY <2>2, AppendShows
        <3> QED BY <2>2, <2>3, <3>1
    <2>6. ASSUME NEW i \in Slots, i \notin slot..(slot + u - 1), ss[i].units # 0
          PROVE  Shows(r, Len(r) + 1, i, <<ss[i].table, i % ss[i].units>>)
        <3>1. \A x, v : Shows(list, Len(list) + 1, x, v) /\ ~Fills(c, x) => Shows(r, Len(r) + 1, x, v)
            BY <2>2, AppendShows
        <3> QED BY <2>3, <2>6, <3>1 DEF IsKnown
    <2>7. IsKnown(ts, r)
        <3> SUFFICES ASSUME NEW i \in Slots, ts[i].units # 0
                     PROVE  Shows(r, Len(r) + 1, i, <<ts[i].table, i % ts[i].units>>)
            BY DEF IsKnown
        <3>1. CASE i \in slot..(slot + u - 1)
            <4>1. ts[i].table = Table[op] /\ i % ts[i].units = i - slot
                BY <1>4, <1>5, <3>1
            <4> QED BY <2>5, <3>1, <4>1
        <3>2. CASE i \notin slot..(slot + u - 1)
            BY <1>4, <2>6, <3>2
        <3> QED BY <3>1, <3>2
    <2>8. ASSUME NEW k \in 0..(u - 1)
          PROVE  slot + k \in Slots /\ Shows(r, Len(r) + 1, slot + k, <<Table[op], k>>)
        <3>1. PICK i : i = slot + k
            OBVIOUS
        <3>3. i \in slot..(slot + u - 1) /\ i - slot = k
            BY <1>2, <3>1
        <3>4. i \in Slots /\ Shows(r, Len(r) + 1, i, <<Table[op], i - slot>>)
            BY <1>5, <2>5, <3>3
        <3> QED BY <3>1, <3>3, <3>4
    <2> QED BY <1>1, <1>3, <2>4, <2>7, <2>8
<1> QED BY <1>6, <1>7

\* The commands before a stripe or a transfer find what they found.
LEMMA AppendFinds ==
    ASSUME NEW list \in Seq(LutCode), NEW c \in LutCode, NEW r, r = Append(list, c), NEW os,
           StripesFind(list, os),
           \A op \in DOMAIN Table :
              IsStripeOf(c, op) =>
                 \A k \in 0..(Units[op] - 1) :
                    os[op] + k \in Slots /\ Shows(list, Len(list) + 1, os[op] + k, <<Table[op], k>>)
    PROVE  StripesFind(r, os)
<1>1. PICK n \in Nat : n = Len(list)
    OBVIOUS
<1>2. /\ Len(r) = n + 1 /\ r[n + 1] = c /\ \A k \in 1..n : r[k] = list[k]
      /\ \A p \in 1..(n + 1) : \A i, v : Shows(list, p, i, v) => Shows(r, p, i, v)
    <2>1. \A p \in 1..(Len(list) + 1) : \A i, v : Shows(list, p, i, v) => Shows(r, p, i, v)
        BY AppendShows
    <2> QED BY <1>1, <2>1
<1>3. ASSUME NEW p \in 1..(n + 1), NEW op \in DOMAIN Table, IsStripeOf(r[p], op),
             NEW k \in 0..(Units[op] - 1)
      PROVE  os[op] + k \in Slots /\ Shows(list, p, os[op] + k, <<Table[op], k>>)
    <2>1. CASE p = n + 1
        BY <1>1, <1>2, <1>3, <2>1
    <2>2. CASE p # n + 1
        <3>1. p \in 1..n /\ r[p] = list[p]
            BY <1>2, <2>2
        <3> QED BY <1>1, <1>3, <3>1 DEF StripesFind
    <2> QED BY <2>1, <2>2
<1> QED BY <1>2, <1>3 DEF StripesFind

\* Before a table is given a slot that its operation already has, the slot is
\* the same; another one has no stripe yet.
LEMMA SlotStays ==
    ASSUME TablesNest, NEW s, InRow(s), NEW n \in 1..Len(s), NEW op \in DOMAIN Table, s[n].ops = <<op>>,
           NEW ss, IsSlotTable(ss), NEW os, KeepsSlot(s, n - 1, ss, os),
           NEW slot, slot = AllocatedSlot(ss, op), NEW j \in 1..(n - 1), s[j].ops = <<op>>
    PROVE  slot = os[op]
<1>1. \A k \in j..(n - 1) : s[k].ops \in {<<>>, <<op>>}
    <2>1. j \in 1..Len(s) /\ j < n /\ Len(s) \in Nat
        BY DEF InRow
    <2>2. \A k \in j..n : s[k].ops \in {<<>>, <<op>>}
        BY <2>1 DEF InRow
    <2> QED BY <2>2
<1>2. IsResident(ss, op, os[op])
    BY <1>1 DEF KeepsSlot
<1>3. IsFound(ss, op)
    BY <1>2 DEF IsResident, IsFound
<1>4. IsResident(ss, op, slot)
    BY <1>3, SlotChosen
<1>5. \A i \in Residents(ss, op) : i \in Nat
    BY DEF Residents, Heads, Slots, TablesNest
<1>6. slot \in Nat /\ os[op] \in Nat /\ slot <= os[op] /\ os[op] <= slot
    BY <1>2, <1>4, <1>5 DEF IsResident
<1> QED BY <1>6

\* The table is where it was put, and nowhere before.
LEMMA TakenIsResident ==
    ASSUME TablesNest, NEW op \in DOMAIN Table, NEW ss, IsSlotTable(ss),
           NEW slot, slot = AllocatedSlot(ss, op), NEW time \in Nat
    PROVE  IsResident(Taken(ss, op, slot, time), op, slot)
<1>1. PICK u \in Nat \ {0}, n \in Nat : u = Units[op] /\ n = TotalSlots /\ Slots = 0..(n - 1)
    BY DEF TablesNest, Slots
<1>2. /\ slot \in Heads(op) /\ slot \in Nat /\ slot % u = 0 /\ slot + u <= n
      /\ IsFound(ss, op) => IsResident(ss, op, slot)
    BY <1>1, SlotChosen
<1>3. PICK ts : ts = Taken(ss, op, slot, time)
    OBVIOUS
<1>4. \A i \in Slots : IF i \in slot..(slot + u - 1)
                           THEN ts[i].table = Table[op] /\ ts[i].units = u
                           ELSE ts[i] = ss[i]
    BY <1>1, <1>3 DEF Taken
<1>5. slot \in Residents(ts, op)
    <2>1. slot \in Slots /\ slot \in slot..(slot + u - 1)
        BY <1>1, <1>2
    <2> QED BY <1>1, <1>2, <1>4, <2>1 DEF Residents
<1>6. ASSUME NEW i \in Residents(ts, op) PROVE slot <= i
    <2>1. i \in Heads(op) /\ i \in Slots /\ ts[i].table = Table[op] /\ ts[i].units = u
        BY <1>1 DEF Residents, Heads
    <2>2. CASE i \in slot..(slot + u - 1)
        BY <1>2, <2>2
    <2>3. CASE i \notin slot..(slot + u - 1)
        <3>1. ts[i] = ss[i]
            BY <1>4, <2>1, <2>3
        <3>2. i \in Residents(ss, op)
            BY <1>1, <2>1, <3>1 DEF Residents
        <3>3. IsFound(ss, op)
            BY <3>2 DEF IsFound
        <3> QED BY <1>2, <3>2, <3>3 DEF IsResident
    <2> QED BY <2>2, <2>3
<1> QED BY <1>3, <1>5, <1>6 DEF IsResident

\* A command with the transfer it needs keeps what the slots say, and every
\* stripe so far finds its table (InsertLUTDMACommands).
LEMMA InsertKeepsSlots ==
    ASSUME TablesNest, \A s \in LutStreams : InRow(s), SlotsInv, InsertLUTDMACommands
    PROVE  SlotsInv'
<1>1. PICK s, n, ss, os, list : s = stream /\ n = next /\ ss = slots /\ os = opSlot /\ list = code
    OBVIOUS
<1>2. /\ s \in LutStreams /\ InRow(s) /\ n \in 1..Len(s) /\ Len(s) \in Nat /\ s[n] \in OneTable
      /\ list \in Seq(LutCode) /\ os \in [DOMAIN Table -> Nat]
    <2>1. stream \in LutStreams /\ InRow(stream) /\ code \in Seq(LutCode) /\ opSlot \in [DOMAIN Table -> Nat]
        BY DEF SlotsInv
    <2>2. stream \in Seq(OneTable) /\ Len(stream) \in Nat
        BY <2>1 DEF InRow
    <2>3. next \in 1..Len(stream)
        BY <2>2 DEF SlotsInv, InsertLUTDMACommands
    <2>4. stream[next] \in OneTable
        BY <2>2, <2>3
    <2> QED BY <1>1, <2>1, <2>2, <2>3, <2>4
<1>3. /\ IsSlotTable(ss) /\ IsWhole(ss) /\ IsKnown(ss, list)
      /\ StripesFind(list, os) /\ StripesCome(list, s, n - 1) /\ KeepsSlot(s, n - 1, ss, os)
    BY <1>1 DEF SlotsInv
<1>4. PICK cmd : cmd = s[n] /\ cmd \in OneTable /\ cmd \in LutCode /\ cmd.type = "stripe"
    BY <1>2 DEF OneTable, LutCode
<1>5. PICK start, done : /\ start = [slots |-> ss, opSlot |-> os, code |-> list]
                         /\ done = FoldLeft(WithTable, start, cmd.ops)
    OBVIOUS
<1>6. /\ slots' = done.slots /\ opSlot' = done.opSlot /\ code' = Append(done.code, cmd)
      /\ next' = n + 1 /\ stream' = s
    BY <1>1, <1>4, <1>5 DEF InsertLUTDMACommands
<1>7. PICK ts, qs, mid, r : ts = slots' /\ qs = opSlot' /\ mid = done.code /\ r = code' /\ r = Append(mid, cmd)
    BY <1>6
<1>8. SUFFICES /\ mid \in Seq(LutCode) /\ qs \in [DOMAIN Table -> Nat]
               /\ IsSlotTable(ts) /\ IsWhole(ts) /\ IsKnown(ts, mid)
               /\ StripesFind(r, qs) /\ StripesCome(r, s, n)
               /\ KeepsSlot(s, n, ts, qs)
    <2>1. ASSUME mid \in Seq(LutCode), IsKnown(ts, mid) PROVE r \in Seq(LutCode) /\ IsKnown(ts, r)
        <3>1. \A i : ~Fills(cmd, i)
            BY <1>4, StripesFillNothing
        <3>2. /\ r \in Seq(LutCode)
              /\ \A i, v : Shows(mid, Len(mid) + 1, i, v) /\ ~Fills(cmd, i) => Shows(r, Len(r) + 1, i, v)
            BY <1>4, <1>7, <2>1, AppendShows
        <3> QED BY <2>1, <3>1, <3>2 DEF IsKnown
    <2>2. n + 1 \in 1..(Len(s) + 1) /\ n + 1 - 1 = n
        BY <1>2
    <2> QED BY <1>2, <1>6, <1>7, <2>1, <2>2 DEF SlotsInv
<1>9. CASE cmd.ops = <<>>
    <2>1. done = start
        BY <1>5, <1>9, FoldsOne
    <2>2. ts = ss /\ qs = os /\ mid = list
        BY <1>5, <1>6, <1>7, <2>1
    <2>3. \A op : ~IsStripeOf(cmd, op)
        BY <1>9 DEF IsStripeOf
    <2>4. StripesFind(r, os)
        BY <1>2, <1>3, <1>4, <1>7, <2>2, <2>3, AppendFinds
    <2>5. StripesCome(r, s, n)
        <3> SUFFICES ASSUME NEW p \in 1..Len(r), NEW op \in DOMAIN Table, IsStripeOf(r[p], op)
                     PROVE  \E j \in 1..n : s[j].ops = <<op>>
            BY DEF StripesCome
        <3>1. p \in 1..Len(list) /\ r[p] = list[p]
            BY <1>2, <1>4, <1>7, <2>2, <2>3
        <3>2. PICK j \in 1..(n - 1) : s[j].ops = <<op>>
            BY <1>3, <3>1 DEF StripesCome
        <3> QED BY <1>2, <3>2
    <2>6. KeepsSlot(s, n, ss, os)
        <3> SUFFICES ASSUME NEW j \in 1..n, NEW op \in DOMAIN Table, s[j].ops = <<op>>,
                            \A k \in j..n : s[k].ops \in {<<>>, <<op>>}
                     PROVE  IsResident(ss, op, os[op])
            BY DEF KeepsSlot
        <3>1. j # n /\ j \in 1..(n - 1)
            <4>1. <<op>> # <<>>
                OBVIOUS
            <4>2. j # n
                BY <1>4, <1>9, <4>1
            <4> QED BY <1>2, <4>2
        <3>2. \A k \in j..(n - 1) : s[k].ops \in {<<>>, <<op>>}
            BY <1>2
        <3> QED BY <1>3, <3>1, <3>2 DEF KeepsSlot
    <2> QED BY <1>2, <1>3, <2>2, <2>4, <2>5, <2>6
<1>10. CASE cmd.ops # <<>>
    <2>1. PICK op \in DOMAIN Table : cmd.ops = <<op>>
        BY <1>4, <1>10 DEF OneTable
    <2>2. PICK slot : slot = AllocatedSlot(ss, op)
        OBVIOUS
    <2>3. done = WithTable(start, op)
        BY <1>5, <2>1, FoldsOne
    <2>4. /\ ts = Claimed(ss, op, slot)
          /\ qs = [os EXCEPT ![op] = slot]
          /\ mid = IF IsFound(ss, op) THEN list
                   ELSE Append(list, [type |-> "load", op |-> op, slot |-> slot])
        <3>1. start.slots = ss /\ start.opSlot = os /\ start.code = list
            BY <1>5
        <3>2. done = [slots |-> Claimed(ss, op, slot), opSlot |-> [os EXCEPT ![op] = slot],
                      code |-> IF IsFound(ss, op) THEN list
                               ELSE Append(list, [type |-> "load", op |-> op, slot |-> slot])]
            BY <2>2, <2>3, <3>1 DEF WithTable
        <3> QED BY <1>6, <1>7, <3>2
    <2>5. ts = Taken(ss, op, slot, n) /\ n \in Nat
        BY <1>1, <1>2, <2>4 DEF Taken, Claimed
    <2>6. IsSlotTable(ts) /\ IsWhole(ts)
        BY <1>3, <2>2, <2>5, TakenIsWhole
    <2>7. /\ mid \in Seq(LutCode) /\ IsKnown(ts, mid)
          /\ \A k \in 0..(Units[op] - 1) :
                slot + k \in Slots /\ Shows(mid, Len(mid) + 1, slot + k, <<Table[op], k>>)
        BY <1>2, <1>3, <2>2, <2>4, <2>5, TakenIsKnown
    <2>8. slot \in Nat
        BY <1>3, <2>2, SlotChosen
    <2>9. qs \in [DOMAIN Table -> Nat] /\ qs[op] = slot /\ \A o \in DOMAIN Table : o # op => qs[o] = os[o]
        BY <1>2, <2>4, <2>8
    <2>10. StripesFind(list, qs)
        <3> SUFFICES ASSUME NEW p \in 1..Len(list), NEW o \in DOMAIN Table, IsStripeOf(list[p], o)
                     PROVE  \A k \in 0..(Units[o] - 1) :
                               qs[o] + k \in Slots /\ Shows(list, p, qs[o] + k, <<Table[o], k>>)
            BY DEF StripesFind
        <3>1. qs[o] = os[o]
            <4>1. CASE o = op
                <5>1. PICK j \in 1..(n - 1) : s[j].ops = <<op>>
                    BY <1>3, <4>1 DEF StripesCome
                <5>2. s[n].ops = <<op>>
                    BY <1>4, <2>1
                <5>3. slot = os[op]
                    BY <1>2, <1>3, <2>2, <5>1, <5>2, SlotStays
                <5> QED BY <2>9, <4>1, <5>3
            <4>2. CASE o # op
                BY <2>9, <4>2
            <4> QED BY <4>1, <4>2
        <3> QED BY <1>3, <3>1 DEF StripesFind
    <2>11. /\ StripesFind(mid, qs)
           /\ \A p \in 1..Len(mid) : \A o : IsStripeOf(mid[p], o) => p \in 1..Len(list) /\ mid[p] = list[p]
        <3>1. CASE IsFound(ss, op)
            BY <2>4, <2>10, <3>1
        <3>2. CASE ~IsFound(ss, op)
            <4>1. PICK c : c = [type |-> "load", op |-> op, slot |-> slot]
                OBVIOUS
            <4>2. c \in LutCode /\ mid = Append(list, c) /\ \A o : ~IsStripeOf(c, o)
                BY <2>4, <2>8, <3>2, <4>1 DEF LutCode, Loads, IsStripeOf
            <4>3. StripesFind(mid, qs)
                BY <1>2, <2>10, <4>2, AppendFinds
            <4> QED BY <1>2, <4>2, <4>3
        <3> QED BY <3>1, <3>2
    <2>12. \A o : IsStripeOf(cmd, o) <=> o = op
        BY <1>4, <2>1 DEF IsStripeOf
    <2>13. StripesFind(r, qs)
        <3>1. \A o \in DOMAIN Table : IsStripeOf(cmd, o) =>
                 \A k \in 0..(Units[o] - 1) :
                    qs[o] + k \in Slots /\ Shows(mid, Len(mid) + 1, qs[o] + k, <<Table[o], k>>)
            BY <2>7, <2>9, <2>12
        <3> QED BY <1>4, <1>7, <2>7, <2>11, <3>1, AppendFinds
    <2>14. StripesCome(r, s, n)
        <3> SUFFICES ASSUME NEW p \in 1..Len(r), NEW o \in DOMAIN Table, IsStripeOf(r[p], o)
                     PROVE  \E j \in 1..n : s[j].ops = <<o>>
            BY DEF StripesCome
        <3>1. CASE p = Len(r)
            <4>1. r[p] = cmd
                BY <1>7, <2>7, <3>1
            <4>2. s[n].ops = <<o>> /\ n \in 1..n
                BY <1>2, <1>4, <2>1, <2>12, <4>1
            <4> QED BY <4>2
        <3>2. CASE p # Len(r)
            <4>1. p \in 1..Len(mid) /\ r[p] = mid[p]
                BY <1>7, <2>7, <3>2
            <4>2. p \in 1..Len(list) /\ IsStripeOf(list[p], o)
                BY <2>11, <4>1
            <4>3. PICK j \in 1..(n - 1) : s[j].ops = <<o>>
                BY <1>3, <4>2 DEF StripesCome
            <4> QED BY <1>2, <4>3
        <3> QED BY <3>1, <3>2
    <2>15. KeepsSlot(s, n, ts, qs)
        <3> SUFFICES ASSUME NEW j \in 1..n, NEW o \in DOMAIN Table, s[j].ops = <<o>>,
                            \A k \in j..n : s[k].ops \in {<<>>, <<o>>}
                     PROVE  IsResident(ts, o, qs[o])
            BY DEF KeepsSlot
        <3>1. n \in j..n /\ s[n].ops = <<op>>
            BY <1>2, <1>4, <2>1
        <3>2. o = op
            BY <3>1
        <3> QED BY <1>3, <2>2, <2>5, <2>9, <3>2, TakenIsResident
    <2> QED BY <2>6, <2>7, <2>9, <2>13, <2>14, <2>15
<1> QED BY <1>9, <1>10

-----------------------------------------------------------------------------
(* The commands as they run.                                               *)

\* A command that fills a slot shows what it puts there; behind any other the
\* slot shows what it did.
LEMMA ShowsLast ==
    ASSUME NEW list, NEW p \in Nat \ {0}, NEW i, NEW v, Shows(list, p + 1, i, v)
    PROVE  IF Fills(list[p], i) THEN v = <<Table[list[p].op], i - list[p].slot>> ELSE Shows(list, p, i, v)
<1>1. PICK m \in Nat : m = p + 1 /\ m - 1 = p
    OBVIOUS
<1>2. PICK j \in 1..p : /\ Fills(list[j], i)
                        /\ v = <<Table[list[j].op], i - list[j].slot>>
                        /\ \A k \in (j + 1)..p : ~Fills(list[k], i)
    <2>1. Shows(list, m, i, v)
        BY <1>1
    <2>2. \E j \in 1..(m - 1) : /\ Fills(list[j], i)
                                /\ v = <<Table[list[j].op], i - list[j].slot>>
                                /\ \A k \in (j + 1)..(m - 1) : ~Fills(list[k], i)
        BY <2>1 DEF Shows
    <2> QED BY <1>1, <2>2
<1>3. CASE j = p
    BY <1>2, <1>3
<1>4. CASE j # p
    <2>1. p \in (j + 1)..p /\ j \in 1..(p - 1)
        BY <1>4
    <2>2. \A k \in (j + 1)..(p - 1) : ~Fills(list[k], i)
        BY <1>2
    <2>3. ~Fills(list[p], i)
        BY <1>2, <2>1
    <2>4. Shows(list, p, i, v)
        BY <1>2, <2>1, <2>2 DEF Shows
    <2> QED BY <2>3, <2>4
<1> QED BY <1>3, <1>4

MemoryShows ==
    /\ lutPc \in Nat
    /\ lutPc > 0 => \A i \in Slots : \A v : Shows(code, lutPc, i, v) => memory[i] = v

LutInv == SlotsInv /\ MemoryShows

\* Once the commands run, they stay as they are.
LEMMA RunKeepsSlots ==
    ASSUME SlotsInv, UNCHANGED <<stream, next, slots, opSlot, code>>
    PROVE  SlotsInv'
BY DEF SlotsInv

\* A transfer puts into the memory what the commands show from there on.
LEMMA LoadKeepsMemory ==
    ASSUME SlotsInv, MemoryShows, Load
    PROVE  MemoryShows'
<1>1. PICK list, p, c : list = code /\ p = lutPc /\ c = list[p]
    OBVIOUS
<1>2. /\ p \in Nat \ {0} /\ c.type = "load" /\ lutPc' = p + 1 /\ code' = list
      /\ memory' = [i \in Slots |-> IF i \in c.slot..(c.slot + Units[c.op] - 1)
                                        THEN <<Table[c.op], i - c.slot>> ELSE memory[i]]
    <2>1. /\ p \in DOMAIN list /\ c.type = "load" /\ lutPc' = p + 1 /\ code' = list
          /\ memory' = [i \in Slots |-> IF i \in c.slot..(c.slot + Units[c.op] - 1)
                                            THEN <<Table[c.op], i - c.slot>> ELSE memory[i]]
        BY <1>1 DEF Load, IsLutAt
    <2>2. list \in Seq(LutCode)
        BY <1>1 DEF SlotsInv
    <2> QED BY <2>1, <2>2
<1>3. \A i \in Slots : memory'[i] = IF Fills(c, i) THEN <<Table[c.op], i - c.slot>> ELSE memory[i]
    BY <1>2 DEF Fills
<1>4. ASSUME NEW i \in Slots, NEW v, Shows(list, p + 1, i, v) PROVE memory'[i] = v
    <2>1. IF Fills(c, i) THEN v = <<Table[c.op], i - c.slot>> ELSE Shows(list, p, i, v)
        BY <1>1, <1>2, <1>4, ShowsLast
    <2>2. Shows(list, p, i, v) => memory[i] = v
        BY <1>1, <1>2 DEF MemoryShows
    <2> QED BY <1>3, <2>1, <2>2
<1> QED BY <1>2, <1>4 DEF MemoryShows

\* A stripe leaves the memory as it is.
LEMMA StripeKeepsMemory ==
    ASSUME SlotsInv, MemoryShows, RunStripe
    PROVE  MemoryShows'
<1>1. PICK list, p, c : list = code /\ p = lutPc /\ c = list[p]
    OBVIOUS
<1>2. /\ p \in Nat \ {0} /\ c.type # "load" /\ lutPc' = p + 1 /\ code' = list
      /\ memory' = memory
    <2>1. /\ p \in DOMAIN list /\ c.type \in {"stripe", "target"} /\ lutPc' = p + 1 /\ code' = list
          /\ memory' = memory
        BY <1>1 DEF RunStripe, IsLutAt
    <2>2. list \in Seq(LutCode)
        BY <1>1 DEF SlotsInv
    <2> QED BY <2>1, <2>2
<1>3. ASSUME NEW i \in Slots, NEW v, Shows(list, p + 1, i, v) PROVE memory'[i] = v
    <2>1. ~Fills(c, i)
        BY <1>2 DEF Fills
    <2>2. Shows(list, p, i, v)
        BY <1>1, <1>2, <1>3, <2>1, ShowsLast
    <2> QED BY <1>1, <1>2, <2>2 DEF MemoryShows
<1> QED BY <1>2, <1>3 DEF MemoryShows

\* Without branches, what the generator takes to be in a slot is there when a
\* stripe runs.
THEOREM TablesCorrect ==
    ASSUME TablesNest, \A s \in LutStreams : InRow(s)
    PROVE  LutSpec => []LutInv
<1>1. LutInit => LutInv
    <2> SUFFICES ASSUME LutInit PROVE LutInv
        OBVIOUS
    <2>1. stream \in LutStreams /\ next = 1 /\ code = <<>> /\ lutPc = 0
        BY DEF LutInit
    <2>2. next \in 1..(Len(stream) + 1)
        BY <2>1 DEF InRow
    <2>3. code \in Seq(LutCode) /\ Len(code) = 0
        BY <2>1
    <2>4. opSlot \in [DOMAIN Table -> Nat]
        BY DEF LutInit
    <2>5. \A i \in Slots : slots[i].units = 0 /\ slots[i].lastUsed = 0
        BY DEF LutInit
    <2>6. IsSlotTable(slots) /\ IsWhole(slots) /\ IsKnown(slots, code)
        BY <2>5 DEF IsSlotTable, IsWhole, IsKnown
    <2>7. StripesFind(code, opSlot) /\ StripesCome(code, stream, next - 1)
        BY <2>3 DEF StripesFind, StripesCome
    <2>8. KeepsSlot(stream, next - 1, slots, opSlot)
        BY <2>1 DEF KeepsSlot
    <2> QED BY <2>1, <2>2, <2>3, <2>4, <2>6, <2>7, <2>8 DEF LutInv, SlotsInv, MemoryShows
<1>2. LutInv /\ [LutNext]_lutVars => LutInv'
    <2> SUFFICES ASSUME LutInv, [LutNext]_lutVars PROVE LutInv'
        OBVIOUS
    <2>1. SlotsInv /\ MemoryShows
        BY DEF LutInv
    <2>2. CASE InsertLUTDMACommands
        <3>1. SlotsInv'
            BY <2>1, <2>2, InsertKeepsSlots
        <3>2. lutPc = 0 /\ lutPc' = 0
            BY <2>2 DEF InsertLUTDMACommands
        <3> QED BY <3>1, <3>2 DEF LutInv, MemoryShows
    <2>3. CASE LutStart
        <3>1. SlotsInv'
            BY <2>1, <2>3, RunKeepsSlots DEF LutStart
        <3>2. lutPc' = 1
            BY <2>3 DEF LutStart
        <3>3. \A i, v : ~Shows(code', 1, i, v)
            BY DEF Shows
        <3> QED BY <3>1, <3>2, <3>3 DEF LutInv, MemoryShows
    <2>4. CASE Load
        <3>1. SlotsInv'
            BY <2>1, <2>4, RunKeepsSlots DEF Load
        <3> QED BY <2>1, <2>4, <3>1, LoadKeepsMemory DEF LutInv
    <2>5. CASE RunStripe
        <3>1. SlotsInv'
            BY <2>1, <2>5, RunKeepsSlots DEF RunStripe
        <3> QED BY <2>1, <2>5, <3>1, StripeKeepsMemory DEF LutInv
    <2>6. CASE Branch
        <3>1. lutPc \in DOMAIN code /\ code[lutPc].type = "branch"
            BY <2>6 DEF Branch, IsLutAt
        <3>2. code[lutPc] \in LutCode
            BY <2>1, <3>1 DEF SlotsInv
        <3> QED BY <3>1, <3>2 DEF LutCode, OneTable, Loads
    <2>7. CASE UNCHANGED lutVars
        <3>1. SlotsInv'
            BY <2>1, <2>7, RunKeepsSlots DEF lutVars
        <3>2. MemoryShows'
            BY <2>1, <2>7 DEF MemoryShows, lutVars
        <3> QED BY <3>1, <3>2 DEF LutInv
    <2> QED BY <2>2, <2>3, <2>4, <2>5, <2>6, <2>7 DEF LutNext
<1> QED BY <1>1, <1>2, PTL DEF LutSpec

\* In a stream without branches, whose groups use a table at most and whose
\* operations run their stripes without another table between them, every
\* operation finds its table in its slot when a stripe of it runs
\* (AllocateLutSlot, InsertLUTDMACommands).
THEOREM TablesAreLoaded ==
    ASSUME TablesNest, \A s \in LutStreams : InRow(s)
    PROVE  LutSpec => []TableIsLoaded
<1>1. LutInv => TableIsLoaded
    <2> SUFFICES ASSUME LutInv, IsLutAt("stripe"),
                        NEW x \in DOMAIN code[lutPc].ops
                 PROVE  HoldsTable(code[lutPc].ops[x], opSlot[code[lutPc].ops[x]])
        BY DEF TableIsLoaded
    <2>1. PICK list, p, os : list = code /\ p = lutPc /\ os = opSlot
        OBVIOUS
    <2>2. /\ list \in Seq(LutCode) /\ p \in 1..Len(list) /\ list[p].type = "stripe"
          /\ StripesFind(list, os)
        BY <2>1 DEF LutInv, SlotsInv, IsLutAt
    <2>3. list[p] \in OneTable
        BY <2>2 DEF LutCode, Loads
    <2>4. PICK op \in DOMAIN Table : list[p].ops = <<op>> /\ list[p].ops[x] = op
        <3>1. list[p].ops \in {<<>>} \cup {<<op>> : op \in DOMAIN Table}
            BY <2>3 DEF OneTable
        <3>2. x \in DOMAIN list[p].ops
            BY <2>1
        <3>3. list[p].ops # <<>>
            BY <3>2
        <3>4. PICK op \in DOMAIN Table : list[p].ops = <<op>>
            BY <3>1, <3>3
        <3>5. x = 1
            BY <3>2, <3>4
        <3> QED BY <3>4, <3>5
    <2>5. ASSUME NEW k \in 0..(Units[op] - 1) PROVE memory[os[op] + k] = <<Table[op], k>>
        <3>1. os[op] + k \in Slots /\ Shows(list, p, os[op] + k, <<Table[op], k>>)
            BY <2>2, <2>4 DEF StripesFind, IsStripeOf
        <3>2. p > 0 /\ Len(list) \in Nat
            BY <2>2
        <3> QED BY <2>1, <3>1, <3>2 DEF LutInv, MemoryShows
    <2> QED BY <2>1, <2>4, <2>5 DEF HoldsTable
<1> QED BY <1>1, TablesCorrect, PTL

=============================================================================
