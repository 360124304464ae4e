------------------------ MODULE ElementwiseSanitizer ------------------------
(***************************************************************************)
(* FastStorageAllocator::ElementwiseSanitizer: after ranges were kept or   *)
(* evicted (FastStorage), the operations are visited once, and one with an *)
(* input in slow memory has its other inputs evicted too.  A range stands  *)
(* for the one tensor in it; all of them were moved to fast storage.       *)
(***************************************************************************)
EXTENDS FastStorage

\* Per workload, the sequences of operations that read its ranges:
\* [reads, slowInput, elementwise, npu, inCascade].
CONSTANT GraphsOf(_)

IsGraph(w, graph) ==
    graph \in Seq([reads : SUBSET DOMAIN w.lrs, slowInput : BOOLEAN, elementwise : BOOLEAN,
                   npu : BOOLEAN, inCascade : BOOLEAN])

ASSUME GraphsAssumption == \A w \in Workloads : \A graph \in GraphsOf(w) : IsGraph(w, graph)

VARIABLES
    ops,
    pos

sanitizerVars == <<ops, pos>>

Consumers(i) == {k \in DOMAIN ops : i \in ops[k].reads}

StartSanitizer ==
    /\ mode = "done" /\ pos = 0
    /\ ops' \in GraphsOf(load)
    /\ pos' = 1
    /\ UNCHANGED vars

IsVisited(k) == ops[k].npu /\ ~ops[k].inCascade

MayBeEvicted(i) == \A k \in Consumers(i) : ops[k].elementwise

\* mutated: only inputs that were moved and moved back count as slow
SomeInputSlow(k) == \E i \in ops[k].reads : place[i] = "evicted"

HasSlowInput(k) == ops[k].slowInput \/ \E i \in ops[k].reads : place[i] # "kept"

\* Evict puts a tensor back where it was before it was moved.
Evicted(k) == {i \in ops[k].reads \cap Placed("kept") : MayBeEvicted(i)}

Visit ==
    /\ mode = "done" /\ pos \in DOMAIN ops
    /\ LET gone == IF IsVisited(pos) /\ HasSlowInput(pos) THEN Evicted(pos) ELSE {}
       IN  /\ place' = [i \in Lrs |-> IF i \in gone THEN "evicted" ELSE place[i]]
           /\ peak' = Remaining(peak, gone)
    /\ pos' = pos + 1
    /\ mode' = IF pos = Len(ops) THEN "end" ELSE mode
    /\ UNCHANGED <<load, base, component, waiting, path, best, ops>>

SanitizerInit == Init /\ ops = <<>> /\ pos = 0

SanitizerNext == (Next /\ UNCHANGED sanitizerVars) \/ StartSanitizer \/ Visit

SanitizerSpec == SanitizerInit /\ [][SanitizerNext]_<<vars, sanitizerVars>>

-----------------------------------------------------------------------------
(* Properties                                                              *)

\* The inputs that the code allows itself to evict are where the others are.
OperandsTogether(k) ==
    (ops[k].slowInput \/ ~(ops[k].reads \subseteq Placed("kept"))) =>
        \A i \in ops[k].reads : MayBeEvicted(i) => place[i] # "kept"

\* "Enforce that all IFMs are in the same memory for opgroups that contains
\* elementwise operators" (faststorage_allocator.cpp:397), whatever was kept
\* and evicted before, for an operation whose inputs no later one reads: the
\* visit of a later one may evict an input they share.
SameMemoryUnlessShared ==
    mode = "end" =>
        \A k \in DOMAIN ops :
            IsVisited(k) /\ (\A i \in ops[k].reads : \A j \in Consumers(i) : j <= k)
            => OperandsTogether(k)

=============================================================================
