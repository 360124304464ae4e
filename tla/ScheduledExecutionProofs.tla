---------------------- MODULE ScheduledExecutionProofs ---------------------
(***************************************************************************)
(* The scheduler and the execution of what it emits, for every stream,     *)
(* every queue depth, every number of banks and every saturation limit.    *)
(*                                                                         *)
(* First the safety properties of GlobalScheduler; none of them depends on *)
(* how it estimates time or chooses among the commands it may emit.  Then  *)
(* what its invariant says of the records it emitted, which is all that is *)
(* left of it when the machine starts, and what the machine makes of a     *)
(* stream with that order, however its engines interleave: no data race,   *)
(* and a refinement of the blocking stream it was made from.               *)
(***************************************************************************)
EXTENDS ScheduledExecution, CommandIRProofs

-----------------------------------------------------------------------------
(* Type correctness.                                                       *)

Times == 0..InfiniteCycles

\* Saturated sums stay below the limit (SaturatingAdd).
LEMMA SaturatingAddTyped ==
    ASSUME NEW x \in Times, NEW y \in Nat
    PROVE  SaturatingAdd(x, y) \in Times
BY InfiniteCyclesAssumption DEF Times, SaturatingAdd

\* What the decoder guarantees of the command at each index
\* (DecodeSemanticCommandStream).
LEMMA CommandFacts ==
    ASSUME program \in Seq(DecodedCommand), NEW i \in Indices
    PROVE  /\ Len(program) \in Nat
           /\ program[i] \in SemanticCommand
           /\ Cycles(i) \in Nat
           /\ program[i].queueCapacity \in {0, 1, DMAQueueDepth}
           /\ program[i].type = "RQLoad" => Quantization \in program[i].writes
           /\ program[i].asyncCapable /\ IsSystolic(i) => Quantization \in program[i].reads
<1>1. program[i] \in DecodedCommand /\ Len(program) \in Nat
    BY DEF Indices
<1>2. program[i] \in SemanticCommand
    BY <1>1 DEF DecodedCommand
<1>3. program[i].cycles \in Nat /\ program[i].queueCapacity \in {0, 1, DMAQueueDepth}
    BY <1>2 DEF SemanticCommand
<1>4. Cycles(i) \in Nat
    BY <1>3 DEF Cycles, Larger
<1> QED BY <1>1, <1>2, <1>3, <1>4 DEF DecodedCommand, IsSystolic, Uses

\* A command belongs to one of the three queues or to none (AsyncQueue).
LEMMA AsyncQueueTyped ==
    ASSUME NEW i \in Indices
    PROVE  AsyncQueue(i) \in Queues \cup {NoQueue}
BY DEF AsyncQueue, Queues, ExternalToLocal, LocalToExternal, SystolicQueue

\* Only a ready command is emitted.
LEMMA UrgentIsUnblocked ==
    ASSUME NEW i \in Indices, Emit(i)
    PROVE  /\ i \in ready /\ QueuesBlocking(i) = {}
           /\ Emitting(i) /\ (Submit(i) \/ Run(i))
           /\ phase = "schedule" /\ UNCHANGED <<program, deps, criticalPath>>
BY DEF Emit, MostUrgent, Candidates, Unblocked, Submit, Run

\* The initial state is typed.
LEMMA InitTyped == Init => TypeOK
<1> SUFFICES ASSUME Init PROVE TypeOK
    OBVIOUS
<1>1. program \in Seq(DecodedCommand) /\ Len(program) \in Nat
    BY ProgramsAssumption DEF Init
<1>2. deps \in SUBSET (Indices \X Indices)
    BY <1>1 DEF Init, DependencyEdges, Indices
<1>3. ASSUME NEW i \in Indices PROVE Cardinality(Predecessors(i)) \in Nat
    <2>1. Predecessors(i) \in SUBSET Indices
        BY <1>2 DEF Predecessors
    <2>2. IsFiniteSet(Indices)
        BY <1>1, FS_Interval DEF Indices
    <2> QED BY <2>1, <2>2, FS_Subset, FS_CardinalityType
<1>4. indegree \in [Indices -> Nat]
    BY <1>3 DEF Init
<1>5. 0 \in 0..InfiniteCycles
    BY InfiniteCyclesAssumption
<1>6. ready \in SUBSET Indices /\ emitted \in SUBSET Indices
      /\ phase \in {"schedule", "done", "failed"}
    BY DEF Init
<1>7. pending \in [Queues -> Seq(Indices)]
    BY DEF Init
<1>8. stream \in Seq([op : {"run", "submit", "wait"}, index : Nat, queue : Queues \cup {NoQueue}])
    BY DEF Init
<1>9. /\ currentTime \in 0..InfiniteCycles /\ queueTail \in [Queues -> 0..InfiniteCycles]
      /\ startTime \in [Indices -> 0..InfiniteCycles]
      /\ completionTime \in [Indices -> 0..InfiniteCycles]
    BY <1>5 DEF Init
<1> QED BY <1>1, <1>2, <1>4, <1>6, <1>7, <1>8, <1>9 DEF TypeOK

-----------------------------------------------------------------------------
(* The inductive invariant.                                                *)

\* The counters count what they are named for.
CountersExact ==
    /\ \A i \in Indices : indegree[i] = Cardinality(Predecessors(i) \ emitted)
    /\ ready = {i \in Indices \ emitted : Predecessors(i) \subseteq emitted}

\* A queue holds emitted asynchronous commands of its engine, each once.
QueuesHoldSubmitted ==
    \A q \in Queues :
        /\ \A i \in PendingIn(q) :
              i \in emitted /\ program[i].asyncCapable /\ AsyncQueue(i) = q
        /\ \A m, n \in DOMAIN pending[q] : pending[q][m] = pending[q][n] => m = n

\* The hazards the graph draws as edges are kept.
EdgesKept ==
    \A e \in deps : e[2] \in emitted => e[1] \in Completed \/ InFifoOrder(e[1], e[2])

LoopInv ==
    /\ TypeOK
    /\ deps = DependencyEdges(program)
    /\ CountersExact
    /\ QueuesHoldSubmitted
    /\ EdgesKept

\* An edge joins two commands of the stream, the first before the second.
LEMMA EdgesForward ==
    ASSUME LoopInv, NEW e \in deps
    PROVE  e[1] \in Indices /\ e[2] \in Indices /\ e[1] < e[2] /\ e = <<e[1], e[2]>>
BY DEF LoopInv, DependencyEdges, Indices

\* Predecessors and successors are the two ends of an edge.
LEMMA Neighbours ==
    ASSUME LoopInv, NEW p, NEW s
    PROVE  /\ p \in Predecessors(s) <=> <<p, s>> \in deps
           /\ s \in Successors(p) <=> <<p, s>> \in deps
<1>1. \A e \in deps : e = <<e[1], e[2]>>
    BY EdgesForward
<1>2. \A a, b : <<a, b>>[1] = a /\ <<a, b>>[2] = b
    OBVIOUS
<1> QED BY <1>1, <1>2 DEF Predecessors, Successors

\* The commands a command follows are a finite set.
LEMMA PredecessorsFinite ==
    ASSUME LoopInv, NEW s
    PROVE  Predecessors(s) \in SUBSET Indices /\ IsFiniteSet(Predecessors(s))
<1>1. Predecessors(s) \in SUBSET Indices
    BY EdgesForward DEF Predecessors
<1>2. IsFiniteSet(Indices)
    <2>1. Len(program) \in Nat
        BY DEF LoopInv, TypeOK
    <2> QED BY <2>1, FS_Interval DEF Indices
<1> QED BY <1>1, <1>2, FS_Subset

\* An emitted command has only emitted predecessors.
LEMMA EmittedClosed ==
    ASSUME LoopInv, NEW s \in emitted
    PROVE  Predecessors(s) \subseteq emitted
<1> SUFFICES ASSUME NEW p \in Predecessors(s) PROVE p \in emitted
    OBVIOUS
<1>1. <<p, s>> \in deps
    BY Neighbours
<1>2. p \in Completed \/ InFifoOrder(p, s)
    <2>1. <<p, s>>[1] = p /\ <<p, s>>[2] = s
        OBVIOUS
    <2> QED BY <1>1, <2>1 DEF LoopInv, EdgesKept
<1>3. CASE p \in Completed
    BY <1>3 DEF Completed
<1>4. CASE InFifoOrder(p, s)
    <2>1. PICK q \in Queues : p \in PendingIn(q)
        BY <1>4 DEF InFifoOrder, PendingIn, Queues, ExternalToLocal, LocalToExternal
    <2> QED BY <2>1 DEF LoopInv, QueuesHoldSubmitted
<1> QED BY <1>2, <1>3, <1>4

-----------------------------------------------------------------------------
(* The counters.                                                           *)

\* Emitting a command unlocks exactly the commands that waited for nothing
\* else (the loop over the successors at the end of the scheduler's loop).
LEMMA EmitKeepsCounters ==
    ASSUME LoopInv, NEW i \in Indices, Emit(i)
    PROVE  CountersExact' /\ indegree' \in [Indices -> Nat]
<1>1. /\ i \in Indices \ emitted /\ Predecessors(i) \subseteq emitted
      /\ ready = {j \in Indices \ emitted : Predecessors(j) \subseteq emitted}
    BY UrgentIsUnblocked DEF LoopInv, CountersExact
<1>2. /\ indegree' = [s \in Indices |->
            IF s \in Successors(i) THEN indegree[s] - 1 ELSE indegree[s]]
      /\ ready' = (ready \ {i}) \cup {s \in Successors(i) : indegree'[s] = 0}
      /\ emitted' = emitted \cup {i}
      /\ program' = program /\ deps' = deps
    BY UrgentIsUnblocked DEF Emitting
<1>3. Indices' = Indices /\ \A s : Predecessors(s)' = Predecessors(s)
    BY <1>2 DEF Indices, Predecessors
<1>4. ASSUME NEW s \in Indices
      PROVE  /\ indegree'[s] = Cardinality(Predecessors(s) \ emitted')
             /\ indegree'[s] \in Nat
             /\ IsFiniteSet(Predecessors(s) \ emitted')
    <2> DEFINE Left == Predecessors(s) \ emitted
    <2>1. IsFiniteSet(Left) /\ Cardinality(Left) \in Nat
        BY PredecessorsFinite, FS_Subset, FS_CardinalityType
    <2>2. indegree[s] = Cardinality(Left)
        BY DEF LoopInv, CountersExact
    <2>3. s \in Successors(i) <=> i \in Left
        BY <1>1, Neighbours
    <2>4. Predecessors(s) \ emitted' = Left \ {i}
        BY <1>2
    <2> HIDE DEF Left
    <2>5. CASE i \in Left
        <3>1. IsFiniteSet(Left \ {i}) /\ Cardinality(Left \ {i}) = Cardinality(Left) - 1
            BY <2>1, <2>5, FS_RemoveElement
        <3>2. Cardinality(Left \ {i}) \in Nat
            BY <3>1, FS_CardinalityType
        <3> QED BY <1>2, <2>2, <2>3, <2>4, <2>5, <3>1, <3>2
    <2>6. CASE i \notin Left
        <3>1. Left \ {i} = Left
            BY <2>6
        <3> QED BY <1>2, <2>1, <2>2, <2>3, <2>4, <2>6, <3>1
    <2> QED BY <2>5, <2>6
<1>5. indegree' \in [Indices -> Nat]
    BY <1>2, <1>4
<1>6. ASSUME NEW s \in Indices
      PROVE  indegree'[s] = 0 <=> Predecessors(s) \subseteq emitted'
    BY <1>4, FS_EmptySet
<1>7. ASSUME NEW s
      PROVE  s \in ready' <=> s \in Indices \ emitted' /\ Predecessors(s) \subseteq emitted'
    <2>1. CASE s \in Successors(i)
        <3>1. <<i, s>> \in deps /\ i \in Predecessors(s)
            BY <2>1, Neighbours
        <3>2. s \in Indices /\ s # i
            <4>1. <<i, s>>[1] = i /\ <<i, s>>[2] = s
                OBVIOUS
            <4>2. s \in Indices /\ i < s
                BY <3>1, <4>1, EdgesForward
            <4>3. i \in Nat
                BY <1>1 DEF Indices
            <4> QED BY <4>2, <4>3
        <3>3. s \notin emitted
            BY <1>1, <3>1, EmittedClosed
        <3>4. s \notin ready
            BY <1>1, <3>1
        <3> QED BY <1>2, <1>6, <2>1, <3>2, <3>3, <3>4
    <2>2. CASE s \notin Successors(i)
        <3>1. i \notin Predecessors(s)
            BY <2>2, Neighbours
        <3> QED BY <1>1, <1>2, <2>2, <3>1
    <2> QED BY <2>1, <2>2
<1>8. ready' = {s \in Indices \ emitted' : Predecessors(s) \subseteq emitted'}
    BY <1>7
<1> QED BY <1>3, <1>4, <1>5, <1>8 DEF CountersExact

-----------------------------------------------------------------------------
(* The queues.                                                             *)

\* A submit appends the command to the queue of its engine and leaves the
\* other queues alone (pending[queue].push_back).
LEMMA SubmitAppends ==
    ASSUME LoopInv, NEW i \in Indices, Submit(i)
    PROVE  /\ AsyncQueue(i) \in Queues
           /\ pending' \in [Queues -> Seq(Indices)]
           /\ pending' = [pending EXCEPT ![AsyncQueue(i)] = Append(@, i)]
           /\ \A q \in Queues :
                PendingIn(q)' = IF q = AsyncQueue(i) THEN PendingIn(q) \cup {i} ELSE PendingIn(q)
           /\ Pending' = Pending \cup {i}
<1> DEFINE own == AsyncQueue(i)
<1>1. own \in Queues /\ program[i].asyncCapable
    BY AsyncQueueTyped DEF Submit, Submits
<1>2. pending \in [Queues -> Seq(Indices)]
    BY DEF LoopInv, TypeOK
<1>3. pending' = [pending EXCEPT ![own] = Append(@, i)]
    BY DEF Submit
<1> HIDE DEF own
<1>4. pending' \in [Queues -> Seq(Indices)]
    BY <1>1, <1>2, <1>3
<1>5. ASSUME NEW q \in Queues
      PROVE  PendingIn(q)' = IF q = own THEN PendingIn(q) \cup {i} ELSE PendingIn(q)
    <2>1. CASE q = own
        <3>1. pending[q] \in Seq(Indices) /\ pending'[q] = Append(pending[q], i)
            BY <1>1, <1>2, <1>3, <2>1
        <3>2. /\ DOMAIN pending[q] = 1..Len(pending[q]) /\ Len(pending[q]) \in Nat
              /\ DOMAIN pending'[q] = 1..(Len(pending[q]) + 1)
              /\ pending'[q][Len(pending[q]) + 1] = i
              /\ \A k \in 1..Len(pending[q]) : pending'[q][k] = pending[q][k]
            BY <3>1
        <3>3. \A k \in 1..(Len(pending[q]) + 1) :
                k \in 1..Len(pending[q]) \/ k = Len(pending[q]) + 1
            BY <3>2
        <3>4. \A x : x \in PendingIn(q)' <=> x \in PendingIn(q) \cup {i}
            BY <3>2, <3>3, SMTT(30) DEF PendingIn
        <3> QED BY <2>1, <3>4
    <2>2. CASE q # own
        <3>1. pending'[q] = pending[q]
            BY <1>2, <1>3, <2>2
        <3> QED BY <2>2, <3>1 DEF PendingIn
    <2> QED BY <2>1, <2>2
<1>6. Pending' = Pending \cup {i}
    BY <1>1, <1>5 DEF Pending
<1> QED BY <1>1, <1>3, <1>4, <1>5, <1>6 DEF own

\* A wait empties its queue and leaves the other queues alone (emitWait).
LEMMA WaitEmpties ==
    ASSUME LoopInv, NEW q \in Queues, Wait(q)
    PROVE  /\ pending' \in [Queues -> Seq(Indices)]
           /\ pending'[q] = <<>> /\ PendingIn(q)' = {}
           /\ \A r \in Queues \ {q} : pending'[r] = pending[r] /\ PendingIn(r)' = PendingIn(r)
           /\ Pending' \subseteq Pending /\ Completed \subseteq Completed'
           /\ UNCHANGED <<program, deps, indegree, ready, emitted>>
<1>1. pending \in [Queues -> Seq(Indices)]
    BY DEF LoopInv, TypeOK
<1>2. pending' = [pending EXCEPT ![q] = <<>>] /\ emitted' = emitted
      /\ UNCHANGED <<program, deps, indegree, ready, emitted>>
    BY DEF Wait
<1>3. pending' \in [Queues -> Seq(Indices)]
    BY <1>1, <1>2
<1>4. pending'[q] = <<>> /\ PendingIn(q)' = {}
    BY <1>1, <1>2 DEF PendingIn
<1>5. \A r \in Queues \ {q} : pending'[r] = pending[r] /\ PendingIn(r)' = PendingIn(r)
    BY <1>1, <1>2 DEF PendingIn
<1>6. Pending' \subseteq Pending
    BY <1>4, <1>5 DEF Pending
<1>7. Completed \subseteq Completed'
    BY <1>2, <1>6 DEF Completed
<1> QED BY <1>2, <1>3, <1>4, <1>5, <1>6, <1>7

\* Neither kind of step mixes up the queues.
LEMMA EmitKeepsQueues ==
    ASSUME LoopInv, NEW i \in Indices, Emit(i)
    PROVE  QueuesHoldSubmitted'
<1>1. i \notin emitted /\ emitted' = emitted \cup {i} /\ program' = program
    BY UrgentIsUnblocked DEF LoopInv, CountersExact, Emitting
<1>2. \A j : AsyncQueue(j)' = AsyncQueue(j)
    BY <1>1 DEF AsyncQueue, IsDMA, IsSystolic, Uses
<1>3. CASE Run(i)
    <2>1. pending' = pending
        BY <1>3 DEF Run
    <2> QED BY <1>1, <1>2, <2>1 DEF LoopInv, QueuesHoldSubmitted, PendingIn
<1>4. CASE Submit(i)
    <2>1. /\ AsyncQueue(i) \in Queues
          /\ pending' = [pending EXCEPT ![AsyncQueue(i)] = Append(@, i)]
          /\ \A q \in Queues :
                PendingIn(q)' = IF q = AsyncQueue(i) THEN PendingIn(q) \cup {i} ELSE PendingIn(q)
        BY <1>4, SubmitAppends
    <2>2. program[i].asyncCapable
        BY <1>4 DEF Submit, Submits
    <2>3. pending \in [Queues -> Seq(Indices)]
        BY DEF LoopInv, TypeOK
    <2>4. ASSUME NEW q \in Queues
          PROVE  \A j \in PendingIn(q)' :
                    j \in emitted' /\ program[j].asyncCapable /\ AsyncQueue(j) = q
        BY <1>1, <2>1, <2>2 DEF LoopInv, QueuesHoldSubmitted
    <2>5. ASSUME NEW q \in Queues, NEW m \in DOMAIN pending'[q], NEW n \in DOMAIN pending'[q],
                 pending'[q][m] = pending'[q][n]
          PROVE  m = n
        <3>1. CASE q # AsyncQueue(i)
            <4>1. pending'[q] = pending[q]
                BY <2>1, <2>3, <3>1
            <4> QED BY <2>5, <4>1 DEF LoopInv, QueuesHoldSubmitted
        <3>2. CASE q = AsyncQueue(i)
            <4>1. pending[q] \in Seq(Indices) /\ pending'[q] = Append(pending[q], i)
                BY <2>1, <2>3, <3>2
            <4>2. /\ DOMAIN pending[q] = 1..Len(pending[q]) /\ Len(pending[q]) \in Nat
                  /\ DOMAIN pending'[q] = 1..(Len(pending[q]) + 1)
                  /\ pending'[q][Len(pending[q]) + 1] = i
                  /\ \A k \in 1..Len(pending[q]) : pending'[q][k] = pending[q][k]
                BY <4>1
            <4>3. \A k \in DOMAIN pending[q] : pending[q][k] # i
                BY <1>1 DEF LoopInv, QueuesHoldSubmitted, PendingIn
            <4>4. \A k, l \in DOMAIN pending[q] : pending[q][k] = pending[q][l] => k = l
                BY DEF LoopInv, QueuesHoldSubmitted
            <4>5. m \in 1..Len(pending[q]) \/ m = Len(pending[q]) + 1
                BY <4>2
            <4>6. n \in 1..Len(pending[q]) \/ n = Len(pending[q]) + 1
                BY <4>2
            <4> HIDE <3>2
            <4> QED BY <2>5, <4>2, <4>3, <4>4, <4>5, <4>6
        <3> QED BY <3>1, <3>2
    <2> QED BY <1>1, <1>2, <2>4, <2>5 DEF QueuesHoldSubmitted
<1> QED BY <1>3, <1>4, UrgentIsUnblocked

\* A wait leaves every other queue as it is.
LEMMA WaitKeepsQueues ==
    ASSUME LoopInv, NEW w \in Queues, Wait(w)
    PROVE  QueuesHoldSubmitted'
<1>1. /\ pending'[w] = <<>> /\ PendingIn(w)' = {}
      /\ \A r \in Queues \ {w} : pending'[r] = pending[r] /\ PendingIn(r)' = PendingIn(r)
      /\ program' = program /\ emitted' = emitted
    BY WaitEmpties
<1>2. \A j : AsyncQueue(j)' = AsyncQueue(j)
    BY <1>1 DEF AsyncQueue, IsDMA, IsSystolic, Uses
<1>3. ASSUME NEW q \in Queues
      PROVE  /\ \A i \in PendingIn(q)' :
                    i \in emitted' /\ program[i].asyncCapable /\ AsyncQueue(i) = q
             /\ \A m, n \in DOMAIN pending'[q] : pending'[q][m] = pending'[q][n] => m = n
    <2>1. CASE q = w
        <3>1. DOMAIN pending'[q] = {}
            BY <1>1, <2>1
        <3> QED BY <1>1, <2>1, <3>1
    <2>2. CASE q # w
        BY <1>1, <2>2 DEF LoopInv, QueuesHoldSubmitted
    <2> QED BY <2>1, <2>2
<1> QED BY <1>1, <1>2, <1>3 DEF QueuesHoldSubmitted

-----------------------------------------------------------------------------
(* The edges.                                                              *)

\* A pending command sits in the queue of its own engine and nowhere else.
LEMMA PendingWhere ==
    ASSUME LoopInv, NEW p \in Pending
    PROVE  /\ AsyncQueue(p) \in Queues /\ p \in PendingIn(AsyncQueue(p))
           /\ p \in emitted /\ program[p].asyncCapable
BY DEF LoopInv, QueuesHoldSubmitted, Pending

\* When no queue blocks a command, each of its predecessors has completed or
\* is ahead of it in a DMA queue it is itself submitted to (queuesBlocking and
\* IssueOrders).
LEMMA EmitKeepsNewEdges ==
    ASSUME LoopInv, NEW i \in Indices, Emit(i), NEW p, <<p, i>> \in deps
    PROVE  p \in Completed' \/ InFifoOrder(p, i)'
<1>1. /\ p \in emitted /\ i \notin emitted
      /\ QueuesBlocking(i) = {}
      /\ emitted' = emitted \cup {i} /\ (Submit(i) \/ Run(i))
    BY UrgentIsUnblocked, Neighbours DEF LoopInv, CountersExact, Emitting
<1>2. p \in Indices /\ p # i
    BY <1>1 DEF LoopInv, TypeOK
<1>3. CASE p \notin Pending
    <2>1. p \notin Pending'
        <3>1. CASE Submit(i)
            BY <1>2, <1>3, <3>1, SubmitAppends
        <3>2. CASE Run(i)
            BY <1>3, <3>2 DEF Run, Pending, PendingIn
        <3> QED BY <1>1, <3>1, <3>2
    <2> QED BY <1>1, <2>1 DEF Completed
<1>4. CASE p \in Pending
    <2> DEFINE own == AsyncQueue(p)
    <2>1. own \in Queues /\ p \in PendingIn(own)
        BY <1>4, PendingWhere
    <2>2. IssueOrders(p, i)
        <3>1. SUFFICES ASSUME ~IssueOrders(p, i) PROVE FALSE
            OBVIOUS
        <3>2. p \in CompletionPredecessors(i)
            BY <3>1, Neighbours DEF CompletionPredecessors
        <3>3. own \in QueuesBlocking(i)
            BY <2>1, <3>2 DEF QueuesBlocking
        <3> QED BY <1>1, <3>3
    <2>3. own \in {ExternalToLocal, LocalToExternal} /\ AsyncQueue(i) = own
        <3>1. IsDMA(p) /\ IsDMA(i) /\ program[p].queueId = program[i].queueId
            BY <2>2 DEF IssueOrders
        <3>2. own \in {ExternalToLocal, LocalToExternal} /\ own = program[p].queueId
            BY <2>1, <3>1 DEF AsyncQueue, Queues, ExternalToLocal, LocalToExternal, NoQueue
        <3> QED BY <3>1, <3>2 DEF AsyncQueue
    <2>4. Submits(i)
        <3>1. AsyncQueue(i) # NoQueue
            BY <2>1, <2>3 DEF Queues, NoQueue
        <3> QED BY <1>4, <2>2, <3>1 DEF Submits, IssueOrders
    <2>5. Submit(i)
        BY <1>1, <2>4 DEF Run
    <2>6. pending' = [pending EXCEPT ![own] = Append(@, i)]
        BY <2>3, <2>5, SubmitAppends
    <2> HIDE DEF own
    <2>7. pending[own] \in Seq(Indices) /\ pending'[own] = Append(pending[own], i)
        BY <2>1, <2>6 DEF LoopInv, TypeOK
    <2>8. PICK m \in DOMAIN pending[own] : pending[own][m] = p
        BY <2>1 DEF PendingIn
    <2>9. /\ m \in 1..Len(pending[own]) /\ Len(pending[own]) \in Nat
          /\ DOMAIN pending'[own] = 1..(Len(pending[own]) + 1)
          /\ pending'[own][Len(pending[own]) + 1] = i
          /\ pending'[own][m] = p
        BY <2>7, <2>8
    <2>10. InFifoOrder(p, i)'
        BY <2>3, <2>9 DEF InFifoOrder, own
    <2> QED BY <2>10
<1> QED BY <1>3, <1>4

\* Emitting a command undoes no order between commands emitted before.
LEMMA EmitKeepsOrder ==
    ASSUME LoopInv, NEW i \in Indices, Emit(i), NEW p, NEW s,
           p \in Completed \/ InFifoOrder(p, s)
    PROVE  p \in Completed' \/ InFifoOrder(p, s)'
<1>1. i \notin emitted /\ emitted' = emitted \cup {i} /\ (Submit(i) \/ Run(i))
    BY UrgentIsUnblocked DEF LoopInv, CountersExact, Emitting
<1>2. CASE Run(i)
    <2>1. pending' = pending
        BY <1>2 DEF Run
    <2> QED BY <1>1, <2>1 DEF Completed, Pending, PendingIn, InFifoOrder
<1>3. CASE Submit(i)
    <2>1. /\ AsyncQueue(i) \in Queues
          /\ pending' = [pending EXCEPT ![AsyncQueue(i)] = Append(@, i)]
          /\ Pending' = Pending \cup {i}
        BY <1>3, SubmitAppends
    <2>2. CASE p \in Completed
        BY <1>1, <2>1, <2>2 DEF Completed
    <2>3. CASE InFifoOrder(p, s)
        <3>1. PICK q \in {ExternalToLocal, LocalToExternal} :
                \E m, n \in DOMAIN pending[q] : m < n /\ pending[q][m] = p /\ pending[q][n] = s
            BY <2>3 DEF InFifoOrder
        <3>2. PICK m \in DOMAIN pending[q], n \in DOMAIN pending[q] :
                m < n /\ pending[q][m] = p /\ pending[q][n] = s
            BY <3>1
        <3>3. q \in Queues /\ pending \in [Queues -> Seq(Indices)]
            BY DEF Queues, ExternalToLocal, LocalToExternal, LoopInv, TypeOK
        <3>4. /\ m \in DOMAIN pending'[q] /\ pending'[q][m] = pending[q][m]
              /\ n \in DOMAIN pending'[q] /\ pending'[q][n] = pending[q][n]
            <4>1. CASE q = AsyncQueue(i)
                <5>1. pending[q] \in Seq(Indices) /\ pending'[q] = Append(pending[q], i)
                    BY <2>1, <3>3, <4>1
                <5> QED BY <5>1
            <4>2. CASE q # AsyncQueue(i)
                BY <2>1, <3>3, <4>2
            <4> QED BY <4>1, <4>2
        <3> QED BY <3>2, <3>4 DEF InFifoOrder
    <2> QED BY <2>2, <2>3
<1> QED BY <1>1, <1>2, <1>3

\* A wait undoes no order: what was pending in its queue has completed.
LEMMA WaitKeepsOrder ==
    ASSUME LoopInv, NEW w \in Queues, Wait(w), NEW p, NEW s,
           p \in Completed \/ InFifoOrder(p, s)
    PROVE  p \in Completed' \/ InFifoOrder(p, s)'
<1>1. /\ PendingIn(w)' = {} /\ Completed \subseteq Completed' /\ emitted' = emitted
      /\ \A r \in Queues \ {w} : pending'[r] = pending[r] /\ PendingIn(r)' = PendingIn(r)
    BY WaitEmpties
<1>2. CASE p \in Completed
    BY <1>1, <1>2
<1>3. CASE InFifoOrder(p, s)
    <2>1. PICK q \in {ExternalToLocal, LocalToExternal} :
            \E m, n \in DOMAIN pending[q] : m < n /\ pending[q][m] = p /\ pending[q][n] = s
        BY <1>3 DEF InFifoOrder
    <2>2. q \in Queues /\ p \in PendingIn(q)
        BY <2>1 DEF Queues, ExternalToLocal, LocalToExternal, PendingIn
    <2>3. CASE q # w
        BY <1>1, <2>1, <2>2, <2>3 DEF InFifoOrder
    <2>4. CASE q = w
        <3>1. p \in emitted /\ \A r \in Queues : p \in PendingIn(r) => r = q
            BY <2>2 DEF LoopInv, QueuesHoldSubmitted
        <3>2. \A r \in Queues : p \notin PendingIn(r)'
            BY <1>1, <2>4, <3>1
        <3> QED BY <1>1, <3>1, <3>2 DEF Completed, Pending
    <2> QED BY <2>3, <2>4
<1> QED BY <1>2, <1>3

-----------------------------------------------------------------------------
(* The steps.                                                              *)

\* Emitting a command keeps the types and the clock below its limit.
LEMMA EmitTyped ==
    ASSUME LoopInv, NEW i \in Indices, Emit(i)
    PROVE  TypeOK'
<1>1. /\ emitted' = emitted \cup {i} /\ (Submit(i) \/ Run(i))
      /\ ready' = (ready \ {i}) \cup {s \in Successors(i) : indegree'[s] = 0}
      /\ program' = program /\ deps' = deps /\ phase' = phase
    BY UrgentIsUnblocked DEF Emitting, Submit, Run
<1>2. Indices' = Indices
    BY <1>1 DEF Indices
<1>3. TypeOK /\ i \in Nat
    BY DEF LoopInv, Indices
<1>4. Successors(i) \in SUBSET Indices
    BY EdgesForward DEF Successors
<1>5. indegree' \in [Indices -> Nat] /\ ready' \in SUBSET Indices /\ emitted' \in SUBSET Indices
    BY <1>1, <1>3, <1>4, EmitKeepsCounters DEF TypeOK
<1>6. Cycles(i) \in Nat
    BY <1>3, CommandFacts DEF TypeOK
<1>7. CASE Submit(i)
    <2> DEFINE q == AsyncQueue(i)
               start == Larger(currentTime, queueTail[q])
               end == SaturatingAdd(start, Cycles(i))
    <2>1. q \in Queues /\ pending' \in [Queues -> Seq(Indices)]
        BY <1>7, SubmitAppends
    <2>2. /\ stream' = Append(stream, Entry("submit", i, q))
          /\ startTime' = [startTime EXCEPT ![i] = start]
          /\ completionTime' = [completionTime EXCEPT ![i] = end]
          /\ queueTail' = [queueTail EXCEPT ![q] = end]
          /\ currentTime' = SaturatingAdd(currentTime, 1)
        BY <1>7 DEF Submit
    <2> HIDE DEF q
    <2>3. start \in Times
        BY <1>3, <2>1 DEF TypeOK, Larger, Times
    <2>4. end \in Times /\ currentTime' \in Times
        <3> HIDE DEF start
        <3>1. end \in Times
            BY <1>6, <2>3, SaturatingAddTyped
        <3>2. currentTime' \in Times
            BY <1>3, <2>2, SaturatingAddTyped DEF TypeOK, Times
        <3> QED BY <3>1, <3>2
    <2> HIDE DEF start, end
    <2>5. Entry("submit", i, q) \in [op : {"run", "submit", "wait"}, index : Nat,
                                      queue : Queues \cup {NoQueue}]
        BY <1>3, <2>1 DEF Entry
    <2>6. stream' \in Seq([op : {"run", "submit", "wait"}, index : Nat,
                            queue : Queues \cup {NoQueue}])
        BY <1>3, <2>2, <2>5 DEF TypeOK
    <2>7. /\ startTime' \in [Indices -> 0..InfiniteCycles]
          /\ completionTime' \in [Indices -> 0..InfiniteCycles]
          /\ queueTail' \in [Queues -> 0..InfiniteCycles]
          /\ currentTime' \in 0..InfiniteCycles
        BY <1>3, <2>1, <2>2, <2>3, <2>4 DEF TypeOK, Times
    <2> QED BY <1>1, <1>2, <1>3, <1>5, <2>1, <2>6, <2>7 DEF TypeOK
<1>8. CASE Run(i)
    <2>1. /\ stream' = Append(stream, Entry("run", i, NoQueue))
          /\ currentTime' = SaturatingAdd(currentTime, Cycles(i))
          /\ UNCHANGED <<pending, queueTail, startTime, completionTime>>
        BY <1>8 DEF Run
    <2>2. currentTime' \in 0..InfiniteCycles
        BY <1>3, <1>6, <2>1, SaturatingAddTyped DEF TypeOK, Times
    <2>3. Entry("run", i, NoQueue) \in [op : {"run", "submit", "wait"}, index : Nat,
                                         queue : Queues \cup {NoQueue}]
        BY <1>3 DEF Entry
    <2>4. stream' \in Seq([op : {"run", "submit", "wait"}, index : Nat,
                            queue : Queues \cup {NoQueue}])
        BY <1>3, <2>1, <2>3 DEF TypeOK
    <2> QED BY <1>1, <1>2, <1>3, <1>5, <2>1, <2>2, <2>4 DEF TypeOK
<1> QED BY <1>1, <1>7, <1>8

\* So does a wait.
LEMMA WaitTyped ==
    ASSUME LoopInv, NEW w \in Queues, Wait(w)
    PROVE  TypeOK'
<1> DEFINE tail == Larger(currentTime, queueTail[w])
<1>1. /\ stream' = Append(stream, Entry("wait", 0, w))
      /\ currentTime' = SaturatingAdd(currentTime, Larger(1, tail - currentTime))
      /\ queueTail' = [queueTail EXCEPT ![w] = currentTime']
      /\ UNCHANGED <<program, deps, phase, indegree, ready, emitted, startTime, completionTime>>
    BY DEF Wait
<1>2. TypeOK
    BY DEF LoopInv
<1>3. tail - currentTime \in Nat
    BY <1>2 DEF TypeOK, Larger
<1> HIDE DEF tail
<1>4. Larger(1, tail - currentTime) \in Nat
    BY <1>3 DEF Larger
<1>5. currentTime' \in 0..InfiniteCycles
    BY <1>1, <1>2, <1>4, SaturatingAddTyped DEF TypeOK, Times
<1>6. queueTail' \in [Queues -> 0..InfiniteCycles]
    BY <1>1, <1>2, <1>5 DEF TypeOK
<1>7. Entry("wait", 0, w) \in [op : {"run", "submit", "wait"}, index : Nat,
                                queue : Queues \cup {NoQueue}]
    BY DEF Entry
<1>8. stream' \in Seq([op : {"run", "submit", "wait"}, index : Nat,
                        queue : Queues \cup {NoQueue}])
    BY <1>1, <1>2, <1>7 DEF TypeOK
<1>9. pending' \in [Queues -> Seq(Indices)] /\ Indices' = Indices
    BY <1>1, WaitEmpties DEF Indices
<1> QED BY <1>1, <1>2, <1>5, <1>6, <1>8, <1>9 DEF TypeOK

\* The initial state satisfies the invariant.
LEMMA InitLoop == Init => LoopInv
<1> SUFFICES ASSUME Init PROVE LoopInv
    OBVIOUS
<1>1. TypeOK /\ deps = DependencyEdges(program)
    BY InitTyped DEF Init
<1>2. QueuesHoldSubmitted
    BY DEF Init, QueuesHoldSubmitted, PendingIn
<1>3. EdgesKept
    BY DEF Init, EdgesKept
<1>4. CountersExact
    <2>1. emitted = {} /\ \A i \in Indices : indegree[i] = Cardinality(Predecessors(i))
        BY DEF Init
    <2>2. \A i : Predecessors(i) \ emitted = Predecessors(i)
        BY <2>1
    <2>3. IsFiniteSet(Indices) /\ \A i : Predecessors(i) \in SUBSET Indices
        <3>1. Len(program) \in Nat
            BY <1>1 DEF TypeOK
        <3>2. IsFiniteSet(Indices)
            BY <3>1, FS_Interval DEF Indices
        <3> QED BY <1>1, <3>2 DEF TypeOK, Predecessors
    <2>4. \A i \in Indices : indegree[i] = 0 <=> Predecessors(i) = {}
        BY <2>1, <2>3, FS_Subset, FS_EmptySet
    <2>5. ready = {i \in Indices : indegree[i] = 0}
        BY DEF Init
    <2>6. ready = {i \in Indices \ emitted : Predecessors(i) \subseteq emitted}
        BY <2>1, <2>4, <2>5
    <2> QED BY <2>1, <2>2, <2>6 DEF CountersExact
<1> QED BY <1>1, <1>2, <1>3, <1>4 DEF LoopInv

\* Emitting a command keeps the invariant.
LEMMA EmitKeepsLoop ==
    ASSUME LoopInv, NEW i \in Indices, Emit(i)
    PROVE  LoopInv'
<1>1. program' = program /\ deps' = deps /\ emitted' = emitted \cup {i}
    BY UrgentIsUnblocked DEF Emitting
<1>2. EdgesKept'
    <2> SUFFICES ASSUME NEW e \in deps, e[2] \in emitted \cup {i}
                 PROVE  e[1] \in Completed' \/ InFifoOrder(e[1], e[2])'
        BY <1>1 DEF EdgesKept
    <2>1. CASE e[2] \in emitted
        <3>1. e[1] \in Completed \/ InFifoOrder(e[1], e[2])
            BY <2>1 DEF LoopInv, EdgesKept
        <3> QED BY <3>1, EmitKeepsOrder
    <2>2. CASE e[2] = i
        <3>1. <<e[1], i>> \in deps
            BY <2>2, EdgesForward
        <3> QED BY <2>2, <3>1, EmitKeepsNewEdges
    <2> QED BY <2>1, <2>2
<1>3. deps' = DependencyEdges(program')
    BY <1>1 DEF LoopInv
<1> QED BY <1>2, <1>3, EmitTyped, EmitKeepsCounters, EmitKeepsQueues DEF LoopInv

\* A wait keeps the invariant.
LEMMA WaitKeepsLoop ==
    ASSUME LoopInv, NEW w \in Queues, Wait(w)
    PROVE  LoopInv'
<1>1. UNCHANGED <<program, deps, indegree, ready, emitted>>
    BY WaitEmpties
<1>2. EdgesKept'
    <2> SUFFICES ASSUME NEW e \in deps, e[2] \in emitted
                 PROVE  e[1] \in Completed' \/ InFifoOrder(e[1], e[2])'
        BY <1>1 DEF EdgesKept
    <2>1. e[1] \in Completed \/ InFifoOrder(e[1], e[2])
        BY DEF LoopInv, EdgesKept
    <2> QED BY <2>1, WaitKeepsOrder
<1>3. CountersExact'
    BY <1>1 DEF LoopInv, CountersExact, Indices, Predecessors
<1>4. deps' = DependencyEdges(program')
    BY <1>1 DEF LoopInv
<1> QED BY <1>2, <1>3, <1>4, WaitTyped, WaitKeepsQueues DEF LoopInv

\* Every step of the scheduler keeps the invariant.
LEMMA LoopStep == LoopInv /\ [Next]_vars => LoopInv'
<1> SUFFICES ASSUME LoopInv, [Next]_vars PROVE LoopInv'
    OBVIOUS
<1>1. ASSUME NEW i \in Indices, Emit(i) PROVE LoopInv'
    BY <1>1, EmitKeepsLoop
<1>2. ASSUME NEW q \in Queues, InsertWait(q) \/ Drain(q) PROVE LoopInv'
    <2>1. Wait(q)
        BY <1>2 DEF InsertWait, Drain
    <2> QED BY <2>1, WaitKeepsLoop
<1>3. CASE Finish \/ UNCHANGED vars
    <2>1. /\ UNCHANGED <<program, deps, indegree, ready, emitted, pending, stream,
                         currentTime, queueTail, startTime, completionTime>>
          /\ phase' \in {"schedule", "done", "failed"}
        BY <1>3 DEF Finish, vars, clock, LoopInv, TypeOK
    <2>2. TypeOK'
        BY <2>1 DEF LoopInv, TypeOK, Indices
    <2>3. CountersExact' /\ QueuesHoldSubmitted' /\ EdgesKept'
        BY <2>1 DEF LoopInv, CountersExact, QueuesHoldSubmitted, EdgesKept, Indices,
            Predecessors, PendingIn, Pending, Completed, InFifoOrder, AsyncQueue,
            IsDMA, IsSystolic, Uses
    <2>4. deps' = DependencyEdges(program')
        BY <2>1 DEF LoopInv
    <2> QED BY <2>2, <2>3, <2>4 DEF LoopInv
<1> QED BY <1>1, <1>2, <1>3 DEF Next

\* The invariant holds of every reachable state, whatever the stream.
THEOREM LoopCorrect == Spec => []LoopInv
BY InitLoop, LoopStep, PTL DEF Spec

-----------------------------------------------------------------------------
(* The properties.                                                         *)

\* Type correctness of the scheduler's variables.
THEOREM TypeCorrect == Spec => []TypeOK
<1>1. LoopInv => TypeOK
    BY DEF LoopInv
<1> QED BY <1>1, LoopCorrect, PTL

\* FIFO order is transitive: a command is in one place of one queue.
LEMMA FifoTransitive ==
    ASSUME LoopInv, NEW i, NEW j, NEW k, InFifoOrder(i, j), InFifoOrder(j, k)
    PROVE  InFifoOrder(i, k)
<1>1. PICK q \in {ExternalToLocal, LocalToExternal} :
        \E m, n \in DOMAIN pending[q] : m < n /\ pending[q][m] = i /\ pending[q][n] = j
    BY DEF InFifoOrder
<1>2. PICK m \in DOMAIN pending[q], n \in DOMAIN pending[q] :
        m < n /\ pending[q][m] = i /\ pending[q][n] = j
    BY <1>1
<1>3. PICK r \in {ExternalToLocal, LocalToExternal} :
        \E x, y \in DOMAIN pending[r] : x < y /\ pending[r][x] = j /\ pending[r][y] = k
    BY DEF InFifoOrder
<1>4. PICK x \in DOMAIN pending[r], y \in DOMAIN pending[r] :
        x < y /\ pending[r][x] = j /\ pending[r][y] = k
    BY <1>3
<1>5. q \in Queues /\ r \in Queues
    BY DEF Queues, ExternalToLocal, LocalToExternal
<1>6. q = r
    BY <1>2, <1>4, <1>5 DEF LoopInv, QueuesHoldSubmitted, PendingIn
<1>7. n = x
    BY <1>2, <1>4, <1>5, <1>6 DEF LoopInv, QueuesHoldSubmitted
<1>8. pending[q] \in Seq(Indices)
    BY <1>5 DEF LoopInv, TypeOK
<1>9. m \in Nat /\ n \in Nat /\ y \in Nat
    BY <1>6, <1>8
<1>10. m < y
    BY <1>2, <1>4, <1>7, <1>9
<1> QED BY <1>2, <1>4, <1>6, <1>10 DEF InFifoOrder

\* What is pending is emitted, and so not completed.
LEMMA FifoIsPending ==
    ASSUME LoopInv, NEW i, NEW j, InFifoOrder(i, j)
    PROVE  i \in Pending /\ j \in Pending /\ i \in emitted /\ j \in emitted
<1>1. PICK q \in {ExternalToLocal, LocalToExternal} : i \in PendingIn(q) /\ j \in PendingIn(q)
    BY DEF InFifoOrder, PendingIn
<1>2. q \in Queues
    BY DEF Queues, ExternalToLocal, LocalToExternal
<1> QED BY <1>1, <1>2 DEF Pending, LoopInv, QueuesHoldSubmitted

\* The commands that have completed or are ahead of j in its queue are closed
\* under the edges, so they include every command j has a hazard with.
LEMMA LoopKeepsHazards == LoopInv => RespectsHazards
<1> SUFFICES ASSUME LoopInv, NEW i \in Indices, NEW j \in Indices, i < j, j \in emitted,
                    Hazard(program[i], program[j])
             PROVE  i \in Completed \/ InFifoOrder(i, j)
    BY DEF RespectsHazards
<1> DEFINE S == {k \in 1..j : k \in Completed \/ k = j \/ InFifoOrder(k, j)}
<1>1. Len(program) \in Nat /\ j \in 1..Len(program) /\ i \in 1..(j - 1)
    BY DEF LoopInv, TypeOK, Indices
<1>2. ClosedUpTo(program, j, S)
    <2> SUFFICES ASSUME NEW e \in DependencyEdges(program), e[2] <= j, e[2] \in S
                 PROVE  e[1] \in S
        BY DEF ClosedUpTo
    <2>1. e \in deps
        BY DEF LoopInv
    <2>2. e[1] \in 1..j
        <3>1. e[1] \in Indices /\ e[2] \in Indices /\ e[1] < e[2]
            BY <2>1, EdgesForward
        <3> QED BY <1>1, <3>1 DEF Indices
    <2>3. ASSUME e[2] \in emitted
          PROVE  e[1] \in Completed \/ InFifoOrder(e[1], e[2])
        BY <2>1, <2>3 DEF LoopInv, EdgesKept
    <2>4. CASE e[2] \in Completed
        BY <2>2, <2>3, <2>4, FifoIsPending DEF Completed
    <2>5. CASE e[2] = j
        BY <2>2, <2>3, <2>5
    <2>6. CASE InFifoOrder(e[2], j)
        <3>1. e[1] \in Completed \/ InFifoOrder(e[1], e[2])
            BY <2>3, <2>6, FifoIsPending
        <3> QED BY <2>2, <2>6, <3>1, FifoTransitive
    <2> QED BY <2>4, <2>5, <2>6
<1>3. j \in S /\ j \in 1..j /\ j \in 1..Len(program)
    BY <1>1
<1> HIDE DEF S
<1>4. i \in S
    BY <1>1, <1>2, <1>3, EdgesReachEveryHazard
<1> QED BY <1>1, <1>4 DEF S

\* Every emitted command follows what it has a hazard with.
THEOREM HazardsRespected == Spec => []RespectsHazards
BY LoopKeepsHazards, LoopCorrect, PTL

\* The ready set never drifts from what is unlocked.
THEOREM ReadyCorrect == Spec => []ReadyWhenUnlocked
<1>1. LoopInv => ReadyWhenUnlocked
    BY DEF LoopInv, CountersExact, ReadyWhenUnlocked
<1> QED BY <1>1, LoopCorrect, PTL

\* No queue is ever given more jobs than its engine holds: a full queue blocks
\* the command (queuesBlocking, the last test).
THEOREM QueuesFit == Spec => []QueuesWithinCapacity
<1> DEFINE Capacity(q) == IF q = SystolicQueue THEN 1 ELSE DMAQueueDepth
<1> DEFINE Fits == \A q \in Queues : Len(pending[q]) <= Capacity(q)
<1>1. Init => Fits
    BY CommandIRAssumption DEF Init
<1>2. LoopInv /\ Fits /\ [Next]_vars => Fits'
    <2> SUFFICES ASSUME LoopInv, Fits, [Next]_vars, NEW q \in Queues
                 PROVE  Len(pending'[q]) <= Capacity(q)
        OBVIOUS
    <2>1. /\ DMAQueueDepth \in Nat \ {0} /\ Capacity(q) \in Nat \ {0}
          /\ pending \in [Queues -> Seq(Indices)] /\ Len(pending[q]) \in Nat
        BY CommandIRAssumption DEF LoopInv, TypeOK
    <2>2. ASSUME NEW i \in Indices, Emit(i), Submit(i), q = AsyncQueue(i)
          PROVE  Len(pending'[q]) <= Capacity(q)
        <3>1. Len(pending'[q]) = Len(pending[q]) + 1
            BY <2>1, <2>2, SubmitAppends
        <3>2. q \notin QueuesBlocking(i)
            BY <2>2, UrgentIsUnblocked
        <3>3. CASE q = SystolicQueue
            <4>1. IsSystolic(i)
                BY <2>2, <3>3 DEF AsyncQueue, SystolicQueue, ExternalToLocal, LocalToExternal, NoQueue
            <4>2. pending[q] = <<>>
                BY <3>2, <3>3, <4>1 DEF QueuesBlocking
            <4> QED BY <2>1, <3>1, <3>3, <4>2
        <3>4. CASE q # SystolicQueue
            <4>1. ~(Len(pending[q]) >= program[i].queueCapacity)
                BY <2>2, <3>2 DEF QueuesBlocking
            <4>2. program[i].queueCapacity \in {0, 1, DMAQueueDepth}
                BY CommandFacts DEF LoopInv, TypeOK
            <4> QED BY <2>1, <3>1, <3>4, <4>1, <4>2
        <3> QED BY <3>3, <3>4
    <2>3. ASSUME NEW i \in Indices, Emit(i), Submit(i), q # AsyncQueue(i)
          PROVE  pending'[q] = pending[q]
        BY <2>1, <2>3, SubmitAppends
    <2>4. ASSUME NEW i \in Indices, Emit(i), Run(i) PROVE pending'[q] = pending[q]
        BY <2>4 DEF Run
    <2>5. ASSUME NEW w \in Queues, InsertWait(w) \/ Drain(w)
          PROVE  pending'[q] = pending[q] \/ pending'[q] = <<>>
        <3>1. Wait(w)
            BY <2>5 DEF InsertWait, Drain
        <3> QED BY <3>1, WaitEmpties
    <2>6. CASE Finish \/ UNCHANGED vars
        <3>1. pending' = pending
            BY <2>6 DEF Finish, vars
        <3> QED BY <3>1
    <2>7. Len(pending[q]) <= Capacity(q) /\ Len(<<>>) <= Capacity(q)
        BY <2>1
    <2> QED BY <2>2, <2>3, <2>4, <2>5, <2>6, <2>7, UrgentIsUnblocked DEF Next
<1>3. LoopInv /\ Fits => QueuesWithinCapacity
    BY DEF LoopInv, QueuesHoldSubmitted, QueuesWithinCapacity
<1> HIDE DEF Fits
<1> QED BY <1>1, <1>2, <1>3, LoopCorrect, PTL DEF Spec

\* The parameters are not reloaded under a pending linebuffer job: the job
\* reads them, so the reload has a hazard with it in either order.
THEOREM NoPreload == Spec => NoQParamPreload
<1>1. LoopInv /\ [Next]_vars =>
        [\A i \in emitted' \ emitted :
            program[i].type = "RQLoad" => pending[SystolicQueue] = <<>>]_vars
    <2> SUFFICES ASSUME LoopInv, [Next]_vars, NEW i \in emitted' \ emitted,
                        program[i].type = "RQLoad", pending[SystolicQueue] # <<>>
                 PROVE  FALSE
        OBVIOUS
    <2>1. i \in Indices /\ Emit(i)
        <3>1. ASSUME NEW j \in Indices, Emit(j) PROVE emitted' = emitted \cup {j}
            BY <3>1, UrgentIsUnblocked DEF Emitting
        <3>2. ASSUME NEW q \in Queues, InsertWait(q) \/ Drain(q) PROVE emitted' = emitted
            BY <3>2 DEF InsertWait, Drain, Wait
        <3>3. CASE Finish \/ UNCHANGED vars
            BY <3>3 DEF Finish, vars
        <3> QED BY <3>1, <3>2, <3>3 DEF Next
    <2>2. program' = program /\ (Submit(i) \/ Run(i))
        BY <2>1, UrgentIsUnblocked
    <2>3. PICK a : a \in PendingIn(SystolicQueue)
        <3>1. pending[SystolicQueue] \in Seq(Indices)
            BY DEF LoopInv, TypeOK, Queues, SystolicQueue
        <3>2. 1 \in DOMAIN pending[SystolicQueue]
            BY <3>1
        <3> QED BY <3>2 DEF PendingIn
    <2>4. a \in emitted /\ program[a].asyncCapable /\ AsyncQueue(a) = SystolicQueue
        BY <2>3 DEF LoopInv, QueuesHoldSubmitted, Queues, SystolicQueue
    <2>5. a \in Indices /\ a # i /\ IsSystolic(a)
        BY <2>4 DEF LoopInv, TypeOK, AsyncQueue, SystolicQueue, ExternalToLocal,
                    LocalToExternal, NoQueue
    <2>6. Quantization \in program[i].writes /\ Quantization \in program[a].reads
        BY <2>1, <2>4, <2>5, CommandFacts DEF LoopInv, TypeOK
    <2>7. Hazard(program[a], program[i]) /\ Hazard(program[i], program[a])
        <3>1. Quantization \in StateKeys
            BY DEF Quantization, StateKeys
        <3> QED BY <2>6, <3>1 DEF Hazard, StateConflict, Touches
    <2>8. a \in Nat /\ i \in Nat
        BY <2>1, <2>5 DEF Indices
    <2>9. CASE a < i
        <3>1. LoopInv' /\ i \in emitted' /\ a \in Indices' /\ i \in Indices'
            BY <2>1, <2>2, <2>5, EmitKeepsLoop DEF Indices
        <3>2. RespectsHazards'
            BY <3>1, LoopKeepsHazards, PTL
        <3>3. a \in Completed' \/ InFifoOrder(a, i)'
            BY <2>2, <2>7, <2>9, <3>1, <3>2 DEF RespectsHazards
        <3>4. a \in PendingIn(SystolicQueue)'
            <4>1. CASE Run(i)
                BY <2>3, <4>1 DEF Run, PendingIn
            <4>2. CASE Submit(i)
                <5>1. SystolicQueue \in Queues
                    BY DEF Queues, SystolicQueue
                <5> QED BY <2>1, <2>3, <4>2, <5>1, SubmitAppends
            <4> QED BY <2>2, <4>1, <4>2
        <3>5. a \notin Completed'
            BY <3>4 DEF Completed, Pending, Queues, SystolicQueue
        <3>6. ~InFifoOrder(a, i)'
            <4>1. \A q \in Queues : a \in PendingIn(q)' => q = SystolicQueue
                BY <3>1, <3>4 DEF LoopInv, QueuesHoldSubmitted, Queues, SystolicQueue
            <4>2. \A q \in {ExternalToLocal, LocalToExternal} :
                    q \in Queues /\ q # SystolicQueue
                BY DEF Queues, SystolicQueue, ExternalToLocal, LocalToExternal
            <4> QED BY <4>1, <4>2 DEF InFifoOrder, PendingIn
        <3> QED BY <3>3, <3>5, <3>6
    <2>10. CASE i < a
        <3>1. i \in Completed \/ InFifoOrder(i, a)
            BY <2>1, <2>4, <2>5, <2>7, <2>10, LoopKeepsHazards DEF RespectsHazards
        <3> QED BY <3>1, FifoIsPending DEF Completed
    <2> QED BY <2>5, <2>8, <2>9, <2>10
<1> QED BY <1>1, LoopCorrect, PTL DEF Spec, NoQParamPreload

\* Appended records are told apart by what is appended.
LEMMA AppendedLast ==
    ASSUME NEW S, NEW s \in Seq(S), NEW a \in S, NEW b \in S, Append(s, a) = Append(s, b)
    PROVE  a = b
<1>1. Append(s, a)[Len(s) + 1] = a /\ Append(s, b)[Len(s) + 1] = b
    OBVIOUS
<1> QED BY <1>1

\* A wait is emitted only for a queue that holds a job, so emitWait finds an
\* owner at its front.
THEOREM WaitsCorrect == Spec => WaitsHaveAJob
<1> DEFINE Records == [op : {"run", "submit", "wait"}, index : Nat, queue : Queues \cup {NoQueue}]
<1>1. LoopInv /\ [Next]_vars =>
        [\A q \in Queues :
            stream' = Append(stream, Entry("wait", 0, q)) => pending[q] # <<>>]_vars
    <2> SUFFICES ASSUME LoopInv, Next, NEW q \in Queues,
                        stream' = Append(stream, Entry("wait", 0, q))
                 PROVE  pending[q] # <<>>
        BY DEF vars
    <2>1. stream \in Seq(Records) /\ Entry("wait", 0, q) \in Records
        BY DEF LoopInv, TypeOK, Entry
    <2>2. stream' # stream
        BY <2>1
    <2>3. ASSUME NEW i \in Indices, Emit(i) PROVE FALSE
        <3>1. CASE Submit(i)
            <4>1. /\ stream' = Append(stream, Entry("submit", i, AsyncQueue(i)))
                  /\ Entry("submit", i, AsyncQueue(i)) \in Records
                BY <3>1, SubmitAppends DEF Submit, Entry, Indices
            <4>2. Entry("submit", i, AsyncQueue(i)) = Entry("wait", 0, q)
                BY <2>1, <4>1, AppendedLast
            <4> QED BY <4>2 DEF Entry
        <3>2. CASE Run(i)
            <4>1. /\ stream' = Append(stream, Entry("run", i, NoQueue))
                  /\ Entry("run", i, NoQueue) \in Records
                BY <3>2 DEF Run, Entry, Indices
            <4>2. Entry("run", i, NoQueue) = Entry("wait", 0, q)
                BY <2>1, <4>1, AppendedLast
            <4> QED BY <4>2 DEF Entry
        <3> QED BY <2>3, <3>1, <3>2, UrgentIsUnblocked
    <2>4. ASSUME NEW w \in Queues, InsertWait(w) \/ Drain(w) PROVE w = q /\ w \in BusyQueues
        <3>1. stream' = Append(stream, Entry("wait", 0, w))
            BY <2>4 DEF InsertWait, Drain, Wait
        <3>2. Entry("wait", 0, w) = Entry("wait", 0, q)
            <4>1. Entry("wait", 0, w) \in Records
                BY DEF Entry
            <4> QED BY <2>1, <3>1, <4>1, AppendedLast
        <3>3. w = q
            BY <3>2 DEF Entry
        <3>4. CASE Drain(w)
            BY <3>3, <3>4 DEF Drain
        <3>5. CASE InsertWait(w)
            <4>1. WaitsFor(w)
                BY <3>5 DEF InsertWait
            <4>2. CASE w \in BusyQueues
                BY <3>3, <4>2
            <4>3. CASE \E i \in ready : /\ QueuesBlocking(i) \cap BusyQueues # {}
                                        /\ w = Min(QueuesBlocking(i) \cap BusyQueues)
                <5>1. PICK i \in ready : /\ QueuesBlocking(i) \cap BusyQueues # {}
                                         /\ w = Min(QueuesBlocking(i) \cap BusyQueues)
                    BY <4>3
                <5> DEFINE T == QueuesBlocking(i) \cap BusyQueues
                <5>2. T \in SUBSET Nat
                    BY DEF BusyQueues, Queues
                <5>3. \E x \in T : \A y \in T : x <= y
                    <6> HIDE DEF T
                    <6> QED BY <5>1, <5>2, LeastElement DEF T
                <5>4. Min(T) \in T
                    <6> HIDE DEF T
                    <6> QED BY <5>3 DEF Min
                <5> QED BY <3>3, <5>1, <5>4
            <4> QED BY <4>1, <4>2, <4>3 DEF WaitsFor, MostUrgent
        <3> QED BY <2>4, <3>3, <3>4, <3>5
    <2>5. CASE Finish
        BY <2>2, <2>5 DEF Finish
    <2> QED BY <2>3, <2>4, <2>5 DEF Next, BusyQueues
<1> QED BY <1>1, LoopCorrect, PTL DEF Spec, WaitsHaveAJob

-----------------------------------------------------------------------------
(* The emitted stream.                                                     *)

RecordsOf(i) == {k \in DOMAIN stream : stream[k].op # "wait" /\ stream[k].index = i}

\* The records emitted so far are one of each emitted command; a finished
\* stream is whole and leaves no job pending.
StreamInv ==
    /\ \A i \in Indices :
          IF i \in emitted THEN \E k : RecordsOf(i) = {k} ELSE RecordsOf(i) = {}
    /\ phase = "done" => emitted = Indices /\ Pending = {}

\* A record appended to the stream is one more record of its command, if it
\* is not a wait (scheduledBytes.insert).
LEMMA RecordsAppended ==
    ASSUME LoopInv, NEW op \in {"run", "submit", "wait"}, NEW i \in Nat,
           NEW q \in Queues \cup {NoQueue}, stream' = Append(stream, Entry(op, i, q))
    PROVE  \A j : RecordsOf(j)' = RecordsOf(j) \cup
                    (IF op # "wait" /\ i = j THEN {Len(stream) + 1} ELSE {})
<1> DEFINE Records == [op : {"run", "submit", "wait"}, index : Nat, queue : Queues \cup {NoQueue}]
           e == Entry(op, i, q)
<1>1. stream \in Seq(Records)
    BY DEF LoopInv, TypeOK
<1>2. e \in Records /\ e.op = op /\ e.index = i
    BY DEF Entry
<1> HIDE DEF Records, e
<1>3. /\ DOMAIN stream = 1..Len(stream) /\ Len(stream) \in Nat
      /\ DOMAIN stream' = 1..(Len(stream) + 1)
      /\ stream'[Len(stream) + 1] = e
      /\ \A k \in 1..Len(stream) : stream'[k] = stream[k]
    BY <1>1, <1>2 DEF e
<1> SUFFICES ASSUME NEW j
             PROVE  RecordsOf(j)' = RecordsOf(j) \cup
                        (IF op # "wait" /\ i = j THEN {Len(stream) + 1} ELSE {})
    OBVIOUS
<1>4. ASSUME NEW k
      PROVE  k \in RecordsOf(j)' <=>
                k \in RecordsOf(j) \/ (op # "wait" /\ i = j /\ k = Len(stream) + 1)
    <2>1. k \in 1..(Len(stream) + 1) <=> k \in 1..Len(stream) \/ k = Len(stream) + 1
        BY <1>3
    <2>2. Len(stream) + 1 \notin 1..Len(stream)
        BY <1>3
    <2> QED BY <1>2, <1>3, <2>1, <2>2 DEF RecordsOf
<1> QED BY <1>4

\* Emitting a command adds its one record.
LEMMA EmitKeepsStream ==
    ASSUME LoopInv, StreamInv, NEW i \in Indices, Emit(i)
    PROVE  StreamInv'
<1>1. /\ i \notin emitted /\ emitted' = emitted \cup {i} /\ program' = program
      /\ phase' = "schedule" /\ (Submit(i) \/ Run(i))
    BY UrgentIsUnblocked DEF LoopInv, CountersExact, Emitting, Submit, Run
<1>2. Indices' = Indices /\ i \in Nat
    BY <1>1 DEF Indices
<1>3. PICK op \in {"run", "submit"}, q \in Queues \cup {NoQueue} :
        stream' = Append(stream, Entry(op, i, q))
    <2>1. CASE Submit(i)
        BY <2>1, AsyncQueueTyped DEF Submit
    <2>2. CASE Run(i)
        BY <2>2 DEF Run
    <2> QED BY <1>1, <2>1, <2>2
<1>4. \A j : RecordsOf(j)' = RecordsOf(j) \cup (IF i = j THEN {Len(stream) + 1} ELSE {})
    BY <1>2, <1>3, RecordsAppended
<1>5. ASSUME NEW j \in Indices
      PROVE  IF j \in emitted' THEN \E k : RecordsOf(j)' = {k} ELSE RecordsOf(j)' = {}
    <2>1. CASE j = i
        <3>1. RecordsOf(j)' = {Len(stream) + 1}
            BY <1>1, <1>4, <2>1 DEF StreamInv
        <3> QED BY <1>1, <2>1, <3>1
    <2>2. CASE j # i
        BY <1>1, <1>4, <2>2 DEF StreamInv
    <2> QED BY <2>1, <2>2
<1> QED BY <1>1, <1>2, <1>5 DEF StreamInv

\* A wait adds no record of a command.
LEMMA WaitKeepsStream ==
    ASSUME LoopInv, StreamInv, phase = "schedule", NEW w \in Queues, Wait(w)
    PROVE  StreamInv'
<1>1. /\ stream' = Append(stream, Entry("wait", 0, w))
      /\ UNCHANGED <<program, phase, emitted>>
    BY DEF Wait
<1>2. \A j : RecordsOf(j)' = RecordsOf(j)
    BY <1>1, RecordsAppended
<1> QED BY <1>1, <1>2 DEF StreamInv, Indices

\* Every step of the loop keeps the records exact.
LEMMA StreamStep == LoopInv /\ StreamInv /\ [Next]_vars => StreamInv'
<1> SUFFICES ASSUME LoopInv, StreamInv, [Next]_vars PROVE StreamInv'
    OBVIOUS
<1>1. ASSUME NEW i \in Indices, Emit(i) PROVE StreamInv'
    BY <1>1, EmitKeepsStream
<1>2. ASSUME NEW q \in Queues, InsertWait(q) \/ Drain(q) PROVE StreamInv'
    BY <1>2, WaitKeepsStream DEF InsertWait, Drain
<1>3. CASE Finish
    <2>1. /\ UNCHANGED <<program, emitted, pending, stream>>
          /\ phase' = "done" => emitted = Indices
          /\ \A q \in Queues : pending[q] = <<>>
        BY <1>3 DEF Finish, BusyQueues
    <2>2. Pending = {} /\ Pending' = Pending
        BY <2>1 DEF Pending, PendingIn
    <2>3. \A j : RecordsOf(j)' = RecordsOf(j)
        BY <2>1 DEF RecordsOf
    <2>4. Indices' = Indices
        BY <2>1 DEF Indices
    <2> QED BY <2>1, <2>2, <2>3, <2>4 DEF StreamInv
<1>4. CASE UNCHANGED vars
    <2>1. UNCHANGED <<program, emitted, pending, stream, phase>>
        BY <1>4 DEF vars
    <2>2. Pending' = Pending
        BY <2>1 DEF Pending, PendingIn
    <2>3. \A j : RecordsOf(j)' = RecordsOf(j)
        BY <2>1 DEF RecordsOf
    <2>4. Indices' = Indices
        BY <2>1 DEF Indices
    <2> QED BY <2>1, <2>2, <2>3, <2>4 DEF StreamInv
<1> QED BY <1>1, <1>2, <1>3, <1>4 DEF Next

\* Every emitted command is in the output exactly once and a finished output
\* is complete, with every job waited for.
THEOREM EmittedOnce == Spec => []EmitsEachCommandOnce
<1>1. Init => StreamInv
    BY DEF Init, StreamInv, RecordsOf
<1>2. LoopInv /\ StreamInv /\ [Next]_vars => StreamInv'
    BY StreamStep
<1>3. StreamInv => EmitsEachCommandOnce
    <2> SUFFICES ASSUME StreamInv, NEW i \in Indices
                 PROVE  Cardinality(RecordsOf(i)) = IF i \in emitted THEN 1 ELSE 0
        BY DEF EmitsEachCommandOnce, RecordsOf, StreamInv
    <2> QED BY FS_Singleton, FS_EmptySet DEF StreamInv
<1> QED BY <1>1, <1>2, <1>3, LoopCorrect, PTL DEF Spec

-----------------------------------------------------------------------------
(* The scheduler always finds a command or a queue to wait for.            *)

\* A command left when no job is outstanding has a candidate before it: the
\* first command not emitted follows emitted commands only, nothing can block
\* it and no bank penalty is predicted.
LEMMA CandidateExists ==
    ASSUME LoopInv, BusyQueues = {}, emitted # Indices
    PROVE  Candidates # {}
<1>1. /\ program \in Seq(DecodedCommand) /\ Len(program) \in Nat
      /\ emitted \in SUBSET Indices /\ Indices \in SUBSET Nat
    BY DEF LoopInv, TypeOK, Indices
<1>2. PICK i \in Indices \ emitted : \A j \in Indices \ emitted : i <= j
    <2>1. Indices \ emitted \in SUBSET Nat /\ Indices \ emitted # {}
        BY <1>1
    <2> QED BY <2>1, LeastElement
<1>3. Predecessors(i) \subseteq emitted
    <2> SUFFICES ASSUME NEW p \in Predecessors(i) PROVE p \in emitted
        OBVIOUS
    <2>1. <<p, i>> \in deps /\ <<p, i>>[1] = p /\ <<p, i>>[2] = i
        BY Neighbours
    <2>2. p \in Indices /\ p < i
        BY <2>1, EdgesForward
    <2>3. i \in Nat /\ p \in Nat
        BY <1>1, <1>2, <2>2
    <2> QED BY <1>2, <2>2, <2>3
<1>4. i \in ready
    BY <1>2, <1>3 DEF LoopInv, CountersExact
<1>5. /\ \A q \in Queues : pending[q] = <<>> /\ PendingIn(q) = {}
      /\ Pending = {}
    BY DEF BusyQueues, Pending, PendingIn
<1>6. QueuesBlocking(i) = {}
    <2> SUFFICES ASSUME NEW q \in Queues, q \in QueuesBlocking(i) PROVE FALSE
        BY DEF QueuesBlocking
    <2>1. q = AsyncQueue(i) /\ Len(pending[q]) = 0 /\ 0 >= program[i].queueCapacity
        BY <1>5 DEF QueuesBlocking
    <2>2. program[i] \in DecodedCommand
        BY <1>1, <1>2 DEF Indices
    <2>3. program[i].queueId >= 0 /\ program[i].resources \cap Queued # {}
        BY <2>1 DEF AsyncQueue, Queues, NoQueue, ExternalToLocal, LocalToExternal, Queued, IsDMA,
               IsSystolic, Uses
    <2>4. program[i].queueCapacity \in Nat
        BY <1>1, <1>2, CommandFacts, CommandIRAssumption
    <2> QED BY <2>1, <2>2, <2>3, <2>4 DEF DecodedCommand
<1>7. ~BankPenaltyRejects(i)
    BY <1>5 DEF BankPenaltyRejects
<1> QED BY <1>4, <1>6, <1>7 DEF Candidates, Unblocked

\* The scheduler fails for no blocking stream: while a command is left there
\* is one to emit or a queue to wait for ("Global scheduler found no ready
\* command").
NeverStuck == phase = "failed" => ~IsBlockingStream(program)

\* The error of neural_ai_command_scheduler.cpp:520-524 is unreachable: some
\* command left has all its predecessors emitted, and while it is blocked
\* its queue holds a job.
THEOREM NeverFails == Spec => []NeverStuck
<1>1. Init => NeverStuck
    BY DEF Init, NeverStuck
<1>2. LoopInv /\ NeverStuck /\ [Next]_vars => NeverStuck'
    <2> SUFFICES ASSUME LoopInv, NeverStuck, [Next]_vars PROVE NeverStuck'
        OBVIOUS
    <2>1. ASSUME NEW i \in Indices, Emit(i) PROVE NeverStuck'
        BY <2>1, UrgentIsUnblocked DEF NeverStuck, IsBlockingStream, Submit, Run
    <2>2. ASSUME NEW q \in Queues, InsertWait(q) \/ Drain(q) PROVE NeverStuck'
        BY <2>2 DEF InsertWait, Drain, Wait, NeverStuck, IsBlockingStream
    <2>3. CASE Finish
        BY <2>3, CandidateExists DEF Finish, NeverStuck
    <2>4. CASE UNCHANGED vars
        BY <2>4 DEF vars, NeverStuck, IsBlockingStream
    <2> QED BY <2>1, <2>2, <2>3, <2>4 DEF Next
<1> QED BY <1>1, <1>2, LoopCorrect, PTL DEF Spec

-----------------------------------------------------------------------------
(* Every execution that keeps the hazards computes what the blocking stream *)
(* does: commands see the values that the strictly sequential execution    *)
(* shows them, and leave the memory that it leaves.                        *)

\* The blocking stream speaks of the same cells and hazards.
LEMMA BlockingOperators ==
    /\ \A c : Blocking!CellsRead(c) = CellsRead(c)
    /\ \A c : Blocking!CellsWritten(c) = CellsWritten(c)
    /\ \A c, d : Blocking!Hazard(c, d) <=> Hazard(c, d)
    /\ Blocking!Indices = Indices
    /\ \A p : Blocking!AllCells(p) = AllCells(p)
BY DEF Blocking!CellsRead, Blocking!CellsWritten, Blocking!MemoryCells, CellsRead, CellsWritten,
       MemoryCells, Blocking!Hazard, Hazard, Blocking!AccessesConflict, AccessesConflict,
       Blocking!StateConflict, StateConflict, Blocking!StateKeys, StateKeys, Blocking!Touches,
       Touches, Blocking!Overlaps, Overlaps, Blocking!ExternalToLocal, ExternalToLocal,
       Blocking!LocalToExternal, LocalToExternal, Blocking!Indices, Indices,
       Blocking!AllCells, AllCells

\* The executed commands are closed under the hazards: nothing that had to run
\* before an executed command is left.
KeepsOrder ==
    \A i, j \in Indices :
        j \in finished /\ i < j /\ Hazard(program[i], program[j]) => i \in finished

\* Each cell names the last of its writers that have run, in the order of the
\* stream and not of the execution.
HoldsLastWriter ==
    \A c \in DOMAIN mem :
        /\ mem[c] # 0 => mem[c] \in finished /\ c \in CellsWritten(program[mem[c]])
        /\ \A w \in finished : c \in CellsWritten(program[w]) => w <= mem[c]

\* What has run, by whom a cell was written, and what has been seen, is of the
\* stream.
BlockingTyped ==
    /\ finished \in SUBSET Indices
    /\ mem \in [AllCells(program) -> {0} \cup finished]
    /\ \A i \in Indices \ finished : seen[i] = <<>>

WriterBefore(i, c) ==
    CHOOSE w \in 0..(i - 1) :
        /\ w > 0 => c \in CellsWritten(program[w])
        /\ \A x \in (w + 1)..(i - 1) : c \notin CellsWritten(program[x])

SeesWriters ==
    \A i \in finished : \A c \in CellsRead(program[i]) : seen[i][c] = WriterBefore(i, c)

BlockingInv ==
    /\ program \in Seq(SemanticCommand)
    /\ BlockingTyped
    /\ DOMAIN seen = Indices
    /\ KeepsOrder
    /\ HoldsLastWriter
    /\ SeesWriters

\* A cell that a command touches is a cell of the stream.
LEMMA TouchedCells ==
    ASSUME program \in Seq(SemanticCommand), NEW i \in Indices
    PROVE  /\ CellsRead(program[i]) \subseteq AllCells(program)
           /\ CellsWritten(program[i]) \subseteq AllCells(program)
<1>1. i \in DOMAIN program
    BY DEF Indices
<1> QED BY <1>1 DEF AllCells

\* The last writer before i is the one writer that no other follows.
LEMMA WriterIsUnique ==
    ASSUME NEW i \in Nat \ {0}, NEW c, NEW w \in 0..(i - 1),
           w > 0 => c \in CellsWritten(program[w]),
           \A x \in (w + 1)..(i - 1) : c \notin CellsWritten(program[x])
    PROVE  WriterBefore(i, c) = w
<1> DEFINE Last(v) == /\ v > 0 => c \in CellsWritten(program[v])
                      /\ \A x \in (v + 1)..(i - 1) : c \notin CellsWritten(program[x])
<1>1. \A v \in 0..(i - 1) : Last(v) => v = w
    <2> SUFFICES ASSUME NEW v \in 0..(i - 1), Last(v) PROVE v = w
        OBVIOUS
    <2>1. v < w => w \in (v + 1)..(i - 1) /\ w > 0
        OBVIOUS
    <2>2. w < v => v \in (w + 1)..(i - 1) /\ v > 0
        OBVIOUS
    <2> QED BY <2>1, <2>2
<1>2. Last(w)
    OBVIOUS
<1> HIDE DEF Last
<1>3. (CHOOSE v \in 0..(i - 1) : Last(v)) = w
    BY <1>1, <1>2
<1> QED BY <1>3 DEF WriterBefore, Last

\* The memory shows a command that may run what the sequential execution shows
\* it: its earlier writers have run and its later writers have not.
LEMMA MemoryIsSequential ==
    ASSUME BlockingInv, NEW i \in Indices, NEW c \in DOMAIN mem, i \notin finished,
           \A j \in 1..(i - 1) : c \in CellsWritten(program[j]) => j \in finished,
           \A w \in finished : c \in CellsWritten(program[w]) => w < i
    PROVE  mem[c] = WriterBefore(i, c)
<1>1. i \in Nat \ {0} /\ Len(program) \in Nat /\ i <= Len(program)
    BY DEF Indices, BlockingInv
<1>2. finished \in SUBSET Indices /\ mem[c] \in {0} \cup finished
    BY DEF BlockingInv, BlockingTyped
<1>3. /\ mem[c] # 0 => c \in CellsWritten(program[mem[c]])
      /\ \A w \in finished : c \in CellsWritten(program[w]) => w <= mem[c]
    BY DEF BlockingInv, HoldsLastWriter
<1>4. mem[c] \in 0..(i - 1)
    <2>1. CASE mem[c] = 0
        BY <1>1, <2>1
    <2>2. CASE mem[c] # 0
        <3>1. mem[c] \in finished /\ mem[c] < i
            BY <1>2, <1>3, <2>2
        <3>2. mem[c] \in Indices
            BY <1>2, <3>1
        <3>3. mem[c] \in Nat
            BY <1>1, <3>2 DEF Indices
        <3> QED BY <1>1, <3>1, <3>3
    <2> QED BY <2>1, <2>2
<1>5. \A x \in (mem[c] + 1)..(i - 1) : c \notin CellsWritten(program[x])
    <2> SUFFICES ASSUME NEW x \in (mem[c] + 1)..(i - 1), c \in CellsWritten(program[x])
                 PROVE  FALSE
        OBVIOUS
    <2>1. x \in 1..(i - 1)
        BY <1>4
    <2>2. x <= mem[c]
        BY <1>3, <2>1
    <2> QED BY <1>1, <1>4, <2>2
<1> QED BY <1>1, <1>3, <1>4, <1>5, WriterIsUnique

\* Executing a command keeps the invariant.
LEMMA ExecuteKeepsBlocking ==
    ASSUME BlockingInv, NEW i \in Indices, Blocking!Execute(i)
    PROVE  BlockingInv'
<1>1. /\ i \notin finished /\ finished' = finished \cup {i} /\ program' = program
      /\ \A j \in 1..(i - 1) : Hazard(program[j], program[i]) => j \in finished
      /\ seen' = [seen EXCEPT ![i] = [c \in CellsRead(program[i]) |-> mem[c]]]
      /\ mem' = [c \in DOMAIN mem |-> IF c \in CellsWritten(program[i]) THEN i ELSE mem[c]]
    BY BlockingOperators DEF Blocking!Execute
<1>2. /\ program \in Seq(SemanticCommand) /\ Len(program) \in Nat
      /\ finished \in SUBSET Indices /\ mem \in [AllCells(program) -> {0} \cup finished]
      /\ DOMAIN mem = AllCells(program) /\ DOMAIN seen = Indices
      /\ \A j \in Indices \ finished : seen[j] = <<>>
    BY DEF BlockingInv, BlockingTyped
<1>3. \A j \in Indices : program[j] \in SemanticCommand /\ j \in Nat \ {0}
    BY <1>2 DEF Indices
<1>4. Indices' = Indices
    BY <1>1 DEF Indices
<1>5. BlockingTyped' /\ DOMAIN seen' = Indices
    <2>1. finished' \in SUBSET Indices
        BY <1>1, <1>2
    <2>2. mem' \in [AllCells(program) -> {0} \cup finished']
        BY <1>1, <1>2
    <2>3. \A j \in Indices \ finished' : seen'[j] = <<>>
        BY <1>1, <1>2
    <2>4. DOMAIN seen' = Indices
        BY <1>1, <1>2
    <2> QED BY <1>1, <1>4, <2>1, <2>2, <2>3, <2>4 DEF BlockingTyped
<1>6. \A j \in finished : Hazard(program[i], program[j]) => j < i
    BY <1>1, <1>2, <1>3 DEF BlockingInv, KeepsOrder
<1>7. KeepsOrder'
    <2> SUFFICES ASSUME NEW a \in Indices, NEW b \in Indices, b \in finished \cup {i}, a < b,
                        Hazard(program[a], program[b])
                 PROVE  a \in finished \cup {i}
        BY <1>1, <1>4 DEF KeepsOrder
    <2>1. CASE b \in finished
        BY <2>1 DEF BlockingInv, KeepsOrder
    <2>2. CASE b = i
        BY <1>1, <1>3, <2>2
    <2> QED BY <2>1, <2>2
<1>8. HoldsLastWriter'
    <2> SUFFICES ASSUME NEW c \in AllCells(program)
                 PROVE  /\ mem'[c] # 0 => mem'[c] \in finished' /\ c \in CellsWritten(program[mem'[c]])
                        /\ \A w \in finished' : c \in CellsWritten(program[w]) => w <= mem'[c]
        BY <1>1, <1>2 DEF HoldsLastWriter
    <2>1. CASE c \in CellsWritten(program[i])
        <3>1. mem'[c] = i
            BY <1>1, <1>2, <2>1
        <3>2. ASSUME NEW w \in finished, c \in CellsWritten(program[w]) PROVE w < i
            BY <1>2, <1>3, <1>6, <2>1, <3>2, SharedCellIsHazard
        <3> QED BY <1>1, <1>2, <1>3, <2>1, <3>1, <3>2
    <2>2. CASE c \notin CellsWritten(program[i])
        <3>1. mem'[c] = mem[c]
            BY <1>1, <1>2, <2>2
        <3> QED BY <1>1, <1>2, <2>2, <3>1 DEF BlockingInv, HoldsLastWriter
    <2> QED BY <2>1, <2>2
<1>9. SeesWriters'
    <2> SUFFICES ASSUME NEW j \in finished', NEW c \in CellsRead(program[j])
                 PROVE  seen'[j][c] = WriterBefore(j, c)
        <3>1. \A j, c : WriterBefore(j, c)' = WriterBefore(j, c)
            BY <1>1 DEF WriterBefore
        <3> QED BY <1>1, <3>1 DEF SeesWriters
    <2>1. CASE j = i
        <3>1. seen'[j][c] = mem[c]
            BY <1>1, <1>2, <2>1
        <3>2. c \in DOMAIN mem
            BY <1>2, <2>1, TouchedCells
        <3>3. ASSUME NEW w \in Indices, c \in CellsWritten(program[w])
              PROVE  Hazard(program[w], program[i]) /\ Hazard(program[i], program[w])
            BY <1>3, <2>1, <3>3, SharedCellIsHazard
        <3>4. \A w \in 1..(i - 1) : w \in Indices
            BY <1>2 DEF Indices
        <3> QED BY <1>1, <1>2, <1>6, <2>1, <3>1, <3>2, <3>3, <3>4, MemoryIsSequential
    <2>2. CASE j # i
        <3>1. j \in finished /\ seen'[j] = seen[j]
            BY <1>1, <1>2, <2>2
        <3> QED BY <3>1 DEF BlockingInv, SeesWriters
    <2> QED BY <2>1, <2>2
<1> QED BY <1>1, <1>2, <1>4, <1>5, <1>7, <1>8, <1>9 DEF BlockingInv

\* Nothing has run before the first step.
LEMMA StartHolds == Blocking!Start /\ program \in Seq(SemanticCommand) => BlockingInv
<1> SUFFICES ASSUME Blocking!Start, program \in Seq(SemanticCommand) PROVE BlockingInv
    OBVIOUS
<1> QED BY BlockingOperators DEF Blocking!Start, BlockingInv, BlockingTyped, KeepsOrder, HoldsLastWriter, SeesWriters

\* The invariant of every execution of a stream of decoded commands.
THEOREM BlockingCorrect == Blocking!Safety /\ program \in Seq(SemanticCommand) => []BlockingInv
<1>1. BlockingInv /\ [Blocking!Next]_(Blocking!vars) => BlockingInv'
    <2> SUFFICES ASSUME BlockingInv, [Blocking!Next]_(Blocking!vars) PROVE BlockingInv'
        OBVIOUS
    <2>1. ASSUME NEW i \in Indices, Blocking!Execute(i) PROVE BlockingInv'
        BY <2>1, ExecuteKeepsBlocking
    <2>2. CASE UNCHANGED Blocking!vars
        BY <2>2 DEF Blocking!vars, BlockingInv, BlockingTyped, Indices, KeepsOrder, HoldsLastWriter,
                    SeesWriters, WriterBefore
    <2> QED BY <2>1, <2>2, BlockingOperators DEF Blocking!Next
<1> QED BY <1>1, StartHolds, PTL DEF Blocking!Safety

\* The sequential execution is the one the blocking stream speaks of.
LEMMA WritersAgree == \A i, c : Blocking!WriterBefore(i, c) = WriterBefore(i, c)
BY BlockingOperators DEF Blocking!WriterBefore, WriterBefore

\* Every execution that keeps the hazards shows every command the inputs that
\* the sequential execution shows it.
THEOREM SequentialInputs ==
    Blocking!Safety /\ program \in Seq(SemanticCommand) => []Blocking!SeesSequentialInputs
<1>1. BlockingInv => Blocking!SeesSequentialInputs
    BY WritersAgree, BlockingOperators
       DEF BlockingInv, SeesWriters, Blocking!SeesSequentialInputs
<1> QED BY <1>1, BlockingCorrect, PTL

\* When everything has run, the memory and the configuration state are those
\* that the sequential execution leaves.
THEOREM SequentialEnd == Blocking!Safety /\ program \in Seq(SemanticCommand) => []Blocking!EndsSequential
<1>1. BlockingInv => Blocking!EndsSequential
    <2> SUFFICES ASSUME BlockingInv, finished = Indices, NEW c \in DOMAIN mem
                 PROVE  mem[c] = WriterBefore(Len(program) + 1, c)
        BY WritersAgree, BlockingOperators DEF Blocking!EndsSequential
    <2>1. /\ Len(program) \in Nat /\ mem[c] \in {0} \cup Indices
          /\ mem[c] # 0 => c \in CellsWritten(program[mem[c]])
          /\ \A w \in Indices : c \in CellsWritten(program[w]) => w <= mem[c]
        BY DEF BlockingInv, BlockingTyped, HoldsLastWriter
    <2> DEFINE n == Len(program) + 1
    <2>2. n \in Nat \ {0} /\ mem[c] \in 0..(n - 1)
        BY <2>1 DEF Indices
    <2>3. \A x \in (mem[c] + 1)..(n - 1) : c \notin CellsWritten(program[x])
        BY <2>1 DEF Indices
    <2>4. mem[c] > 0 => c \in CellsWritten(program[mem[c]])
        BY <2>1
    <2> HIDE DEF n
    <2>5. WriterBefore(n, c) = mem[c]
        BY <2>2, <2>3, <2>4, WriterIsUnique
    <2> QED BY <2>5 DEF n
<1> QED BY <1>1, BlockingCorrect, PTL

-----------------------------------------------------------------------------
(* The order of the emitted records.                                       *)

CommandRecords == {k \in DOMAIN stream : stream[k].op # "wait"}

\* A wait on the queue lies strictly between the two records.
WaitBetween(q, m, n) ==
    \E k \in (m + 1)..(n - 1) : stream[k].op = "wait" /\ stream[k].queue = q

\* What makes the command of record m complete before that of record n starts.
Precedes(m, n) ==
    \/ stream[m].op = "run"
    \/ WaitBetween(stream[m].queue, m, n)
    \/ stream[n].op = "submit" /\ stream[n].queue = stream[m].queue

\* A command's record names the queue of its engine, and a submitted command
\* is pending until a wait on its queue follows.
RecordsArePending ==
    \A k \in CommandRecords :
        /\ stream[k].index \in emitted
        /\ stream[k].op = "submit" =>
              /\ stream[k].queue = AsyncQueue(stream[k].index) /\ stream[k].queue \in Queues
              /\ \/ WaitBetween(stream[k].queue, k, Len(stream) + 1)
                 \/ stream[k].index \in PendingIn(stream[k].queue)

\* Records of commands with a hazard are in the order of the blocking stream,
\* and something makes the first complete before the second.
RecordsOrdered ==
    \A m, n \in CommandRecords :
        m < n /\ Hazard(program[stream[m].index], program[stream[n].index]) =>
            stream[m].index < stream[n].index /\ Precedes(m, n)

\* A Spatz command is fetched when the systolic slot has been waited for.
SpatzIsAlone ==
    \A m, n \in CommandRecords :
        /\ m < n /\ stream[m].op = "submit" /\ stream[m].queue = SystolicQueue
        /\ stream[n].op = "run" /\ IsSpatz(stream[n].index)
        => WaitBetween(SystolicQueue, m, n)

StreamOrder == RecordsArePending /\ RecordsOrdered /\ SpatzIsAlone

\* Appending a record changes nothing before it (the scheduled bytes only grow).
LEMMA AppendKeepsRecords ==
    ASSUME LoopInv, NEW op \in {"run", "submit", "wait"}, NEW i \in Nat,
           NEW q \in Queues \cup {NoQueue}, stream' = Append(stream, Entry(op, i, q))
    PROVE  /\ Len(stream) \in Nat /\ Len(stream') = Len(stream) + 1
           /\ DOMAIN stream = 1..Len(stream)
           /\ \A k \in 1..Len(stream) : stream'[k] = stream[k]
           /\ stream'[Len(stream) + 1] = Entry(op, i, q)
           /\ CommandRecords' = CommandRecords \cup
                 (IF op = "wait" THEN {} ELSE {Len(stream) + 1})
           /\ \A r, m : \A n \in 1..(Len(stream) + 1) :
                 m \in Nat => (WaitBetween(r, m, n)' <=> WaitBetween(r, m, n))
<1> DEFINE Records == [op : {"run", "submit", "wait"}, index : Nat, queue : Queues \cup {NoQueue}]
           e == Entry(op, i, q)
<1>1. stream \in Seq(Records)
    BY DEF LoopInv, TypeOK
<1>2. e \in Records /\ e.op = op
    BY DEF Entry
<1> HIDE DEF Records, e
<1>3. /\ DOMAIN stream = 1..Len(stream) /\ Len(stream) \in Nat
      /\ DOMAIN stream' = 1..(Len(stream) + 1) /\ Len(stream') = Len(stream) + 1
      /\ stream'[Len(stream) + 1] = e
      /\ \A k \in 1..Len(stream) : stream'[k] = stream[k]
    BY <1>1, <1>2 DEF e
<1>4. ASSUME NEW k
      PROVE  k \in CommandRecords' <=>
                k \in CommandRecords \/ (op # "wait" /\ k = Len(stream) + 1)
    <2>1. k \in 1..(Len(stream) + 1) <=> k \in 1..Len(stream) \/ k = Len(stream) + 1
        BY <1>3
    <2>2. Len(stream) + 1 \notin 1..Len(stream)
        BY <1>3
    <2> QED BY <1>2, <1>3, <2>1, <2>2 DEF CommandRecords
<1>5. CommandRecords' = CommandRecords \cup (IF op = "wait" THEN {} ELSE {Len(stream) + 1})
    BY <1>4
<1>6. ASSUME NEW r, NEW m \in Nat, NEW n \in 1..(Len(stream) + 1)
      PROVE  WaitBetween(r, m, n)' <=> WaitBetween(r, m, n)
    <2>1. \A k \in (m + 1)..(n - 1) : k \in 1..Len(stream)
        BY <1>3
    <2> QED BY <1>3, <2>1 DEF WaitBetween
<1> QED BY <1>3, <1>5, <1>6 DEF e

\* The records before a new one keep their order.
LEMMA AppendKeepsOrder ==
    ASSUME LoopInv, StreamOrder, program' = program, NEW op \in {"run", "submit", "wait"},
           NEW i \in Nat, NEW q \in Queues \cup {NoQueue},
           stream' = Append(stream, Entry(op, i, q)),
           NEW m \in CommandRecords, NEW n \in CommandRecords, m < n
    PROVE  /\ Hazard(program[stream'[m].index], program[stream'[n].index]) =>
                stream'[m].index < stream'[n].index /\ Precedes(m, n)'
           /\ /\ stream'[m].op = "submit" /\ stream'[m].queue = SystolicQueue
              /\ stream'[n].op = "run" /\ IsSpatz(stream'[n].index)
              => WaitBetween(SystolicQueue, m, n)'
<1>1. m \in 1..Len(stream) /\ n \in 1..Len(stream) /\ Len(stream) \in Nat
    BY AppendKeepsRecords DEF CommandRecords
<1>2. stream'[m] = stream[m] /\ stream'[n] = stream[n]
    BY <1>1, AppendKeepsRecords
<1>3. \A r : WaitBetween(r, m, n)' <=> WaitBetween(r, m, n)
    BY <1>1, AppendKeepsRecords
<1>4. Precedes(m, n) => Precedes(m, n)'
    BY <1>2, <1>3 DEF Precedes
<1> QED BY <1>2, <1>3, <1>4 DEF StreamOrder, RecordsOrdered, SpatzIsAlone

\* What emitting a command adds to the stream.
LEMMA EmitAppends ==
    ASSUME LoopInv, NEW i \in Indices, Emit(i)
    PROVE  /\ i \in Nat /\ i \notin emitted /\ emitted' = emitted \cup {i} /\ program' = program
           /\ \A r \in Queues : PendingIn(r) \subseteq PendingIn(r)'
           /\ \/ \E q \in Queues :
                    /\ q = AsyncQueue(i) /\ i \in PendingIn(q)'
                    /\ stream' = Append(stream, Entry("submit", i, q))
              \/ /\ stream' = Append(stream, Entry("run", i, NoQueue))
                 /\ pending' = pending
<1>1. /\ i \notin emitted /\ emitted' = emitted \cup {i} /\ program' = program
      /\ (Submit(i) \/ Run(i))
    BY UrgentIsUnblocked DEF LoopInv, CountersExact, Emitting
<1>2. i \in Nat
    BY DEF Indices
<1>3. CASE Submit(i)
    <2>1. /\ AsyncQueue(i) \in Queues
          /\ \A r \in Queues :
                PendingIn(r)' = IF r = AsyncQueue(i) THEN PendingIn(r) \cup {i} ELSE PendingIn(r)
        BY <1>3, SubmitAppends
    <2>2. stream' = Append(stream, Entry("submit", i, AsyncQueue(i)))
        BY <1>3 DEF Submit
    <2> QED BY <1>1, <1>2, <2>1, <2>2
<1>4. CASE Run(i)
    <2>1. stream' = Append(stream, Entry("run", i, NoQueue)) /\ pending' = pending
        BY <1>4 DEF Run
    <2>2. \A r \in Queues : PendingIn(r)' = PendingIn(r)
        BY <2>1 DEF PendingIn
    <2> QED BY <1>1, <1>2, <2>1, <2>2
<1> QED BY <1>1, <1>3, <1>4

\* A command is emitted after everything it has a hazard with, and what makes
\* the other complete first is in the stream (RespectsHazards).
LEMMA EmitIsOrdered ==
    ASSUME LoopInv, StreamOrder, NEW i \in Indices, Emit(i), NEW m \in CommandRecords,
           NEW a, a = stream[m].index, Hazard(program[a], program[i]),
           NEW n, n = Len(stream) + 1
    PROVE  a < i /\ Precedes(m, n)'
<1>1. /\ i \in Nat /\ i \notin emitted /\ emitted' = emitted \cup {i} /\ program' = program
      /\ \A r \in Queues : PendingIn(r) \subseteq PendingIn(r)'
    BY EmitAppends
<1>2. /\ a \in emitted
      /\ stream[m].op = "submit" =>
            /\ stream[m].queue = AsyncQueue(a) /\ stream[m].queue \in Queues
            /\ WaitBetween(stream[m].queue, m, n) \/ a \in PendingIn(stream[m].queue)
    BY DEF StreamOrder, RecordsArePending
<1>3. a \in Indices /\ a \in Nat /\ a # i
    <2>1. a \in Indices /\ Len(program) \in Nat
        BY <1>2 DEF LoopInv, TypeOK
    <2> QED BY <1>1, <1>2, <2>1 DEF Indices
<1>4. m \in 1..Len(stream) /\ Len(stream) \in Nat /\ stream[m].op \in {"run", "submit"}
    <2> DEFINE Records == [op : {"run", "submit", "wait"}, index : Nat, queue : Queues \cup {NoQueue}]
    <2>1. stream \in Seq(Records)
        BY DEF LoopInv, TypeOK
    <2> HIDE DEF Records
    <2>2. m \in 1..Len(stream) /\ Len(stream) \in Nat /\ stream[m] \in Records
        BY <2>1 DEF CommandRecords
    <2> QED BY <2>2 DEF CommandRecords, Records
<1>5. a < i
    <2> SUFFICES ASSUME i < a PROVE FALSE
        BY <1>1, <1>3
    <2>1. Hazard(program[i], program[a])
        BY HazardSymmetric
    <2>2. i \in Completed \/ InFifoOrder(i, a)
        BY <1>2, <1>3, <2>1, LoopKeepsHazards DEF RespectsHazards
    <2> QED BY <1>1, <2>2, FifoIsPending DEF Completed
<1>6. a \in Completed' \/ InFifoOrder(a, i)'
    <2>1. LoopInv'
        BY EmitKeepsLoop
    <2>2. RespectsHazards'
        BY <2>1, LoopKeepsHazards, PTL
    <2>3. Indices' = Indices /\ i \in emitted'
        BY <1>1 DEF Indices
    <2> QED BY <1>1, <1>3, <1>5, <2>2, <2>3 DEF RespectsHazards
<1>7. /\ stream'[m] = stream[m] /\ stream'[n].op \in {"run", "submit"}
      /\ stream'[n].op = "submit" => stream'[n].queue = AsyncQueue(i)
      /\ stream'[n].op = "run" => pending' = pending
      /\ \A r : WaitBetween(r, m, n)' <=> WaitBetween(r, m, n)
    <2>1. PICK op \in {"run", "submit"}, q \in Queues \cup {NoQueue} :
            /\ stream' = Append(stream, Entry(op, i, q))
            /\ op = "submit" => q = AsyncQueue(i)
            /\ op = "run" => pending' = pending
        BY EmitAppends
    <2>2. /\ \A k \in 1..Len(stream) : stream'[k] = stream[k]
          /\ stream'[n] = Entry(op, i, q)
          /\ \A r, l : \A k \in 1..(Len(stream) + 1) :
                l \in Nat => (WaitBetween(r, l, k)' <=> WaitBetween(r, l, k))
        BY <1>1, <2>1, AppendKeepsRecords
    <2>3. n \in 1..(Len(stream) + 1) /\ m \in Nat
        BY <1>4
    <2>4. stream'[n].op = op /\ stream'[n].queue = q
        BY <2>2 DEF Entry
    <2> QED BY <1>4, <2>1, <2>2, <2>3, <2>4
<1>8. Precedes(m, n)'
    <2>1. CASE stream[m].op = "run"
        BY <1>7, <2>1 DEF Precedes
    <2>2. CASE stream[m].op = "submit" /\ a \in Completed'
        <3>1. a \notin PendingIn(stream[m].queue)
            BY <1>1, <1>2, <2>2 DEF Completed, Pending
        <3> QED BY <1>2, <1>7, <2>2, <3>1 DEF Precedes
    <2>3. CASE stream[m].op = "submit" /\ InFifoOrder(a, i)'
        <3>1. PICK r \in {ExternalToLocal, LocalToExternal} : a \in PendingIn(r)' /\ i \in PendingIn(r)'
            BY <2>3 DEF InFifoOrder, PendingIn
        <3>2. r \in Queues
            BY DEF Queues, ExternalToLocal, LocalToExternal
        <3>3. QueuesHoldSubmitted'
            BY EmitKeepsQueues
        <3>4. AsyncQueue(a)' = r /\ AsyncQueue(i)' = r
            BY <3>1, <3>2, <3>3 DEF QueuesHoldSubmitted
        <3>5. AsyncQueue(a) = r /\ AsyncQueue(i) = r
            BY <1>1, <3>4 DEF AsyncQueue, IsDMA, IsSystolic, Uses
        <3>6. stream'[n].op = "submit"
            <4> SUFFICES ASSUME pending' = pending PROVE FALSE
                BY <1>7
            <4>1. i \in PendingIn(r)
                BY <3>1 DEF PendingIn
            <4> QED BY <1>1, <3>2, <4>1 DEF LoopInv, QueuesHoldSubmitted
        <3> QED BY <1>2, <1>7, <2>3, <3>5, <3>6 DEF Precedes
    <2> QED BY <1>4, <1>6, <2>1, <2>2, <2>3
<1> QED BY <1>5, <1>8

\* Emitting a command keeps the order of the records.
LEMMA EmitKeepsStreamOrder ==
    ASSUME LoopInv, StreamOrder, NEW i \in Indices, Emit(i)
    PROVE  StreamOrder'
<1>1. /\ i \in Nat /\ i \notin emitted /\ emitted' = emitted \cup {i} /\ program' = program
      /\ \A r \in Queues : PendingIn(r) \subseteq PendingIn(r)'
    BY EmitAppends
<1>2. PICK op \in {"run", "submit"}, q \in Queues \cup {NoQueue} :
        /\ stream' = Append(stream, Entry(op, i, q))
        /\ op = "submit" => q \in Queues /\ q = AsyncQueue(i) /\ i \in PendingIn(q)'
    BY EmitAppends
<1>3. PICK n : n = Len(stream) + 1
    OBVIOUS
<1>4. /\ Len(stream) \in Nat /\ n \in Nat /\ Len(stream') + 1 = n + 1
      /\ \A k \in CommandRecords :
            k \in 1..Len(stream) /\ k < n /\ k \in Nat /\ n # k /\ stream'[k] = stream[k]
      /\ stream'[n].op = op /\ stream'[n].index = i /\ stream'[n].queue = q
      /\ CommandRecords' = CommandRecords \cup {n}
      /\ \A r : \A m \in Nat : WaitBetween(r, m, n)' <=> WaitBetween(r, m, n)
    <2>1. /\ Len(stream) \in Nat /\ Len(stream') = Len(stream) + 1
          /\ DOMAIN stream = 1..Len(stream)
          /\ \A k \in 1..Len(stream) : stream'[k] = stream[k]
          /\ stream'[n] = Entry(op, i, q)
          /\ CommandRecords' = CommandRecords \cup
                (IF op = "wait" THEN {} ELSE {Len(stream) + 1})
          /\ \A r, m : \A k \in 1..(Len(stream) + 1) :
                m \in Nat => (WaitBetween(r, m, k)' <=> WaitBetween(r, m, k))
        BY <1>1, <1>2, <1>3, AppendKeepsRecords
    <2>2. n \in 1..(Len(stream) + 1)
        BY <1>3, <2>1
    <2>3. CommandRecords \subseteq 1..Len(stream)
        BY <2>1 DEF CommandRecords
    <2> QED BY <1>2, <1>3, <2>1, <2>2, <2>3 DEF Entry
<1>5. RecordsArePending'
    <2> SUFFICES ASSUME NEW k \in CommandRecords \cup {n}
                 PROVE  /\ stream'[k].index \in emitted'
                        /\ stream'[k].op = "submit" =>
                              /\ stream'[k].queue = AsyncQueue(stream'[k].index)
                              /\ stream'[k].queue \in Queues
                              /\ \/ WaitBetween(stream[k].queue, k, Len(stream) + 1)'
                                 \/ stream'[k].index \in PendingIn(stream[k].queue)'
        <3>1. \A j : AsyncQueue(j)' = AsyncQueue(j)
            BY <1>1 DEF AsyncQueue, IsDMA, IsSystolic, Uses
        <3> QED BY <1>4, <3>1 DEF RecordsArePending
    <2>1. CASE k = n
        BY <1>1, <1>2, <1>4, <2>1
    <2>2. CASE k \in CommandRecords
        <3>1. stream'[k] = stream[k] /\ k \in Nat
            BY <1>4, <2>2
        <3>2. /\ stream[k].index \in emitted
              /\ stream[k].op = "submit" =>
                    /\ stream[k].queue = AsyncQueue(stream[k].index) /\ stream[k].queue \in Queues
                    /\ \/ WaitBetween(stream[k].queue, k, n)
                       \/ stream[k].index \in PendingIn(stream[k].queue)
            BY <1>3, <2>2 DEF StreamOrder, RecordsArePending
        <3>3. ASSUME NEW r, WaitBetween(r, k, n) PROVE WaitBetween(r, k, n + 1)'
            <4>1. PICK j \in (k + 1)..(n - 1) : stream'[j].op = "wait" /\ stream'[j].queue = r
                BY <1>4, <3>1, <3>3 DEF WaitBetween
            <4>2. j \in (k + 1)..((n + 1) - 1)
                BY <1>4, <3>1
            <4> QED BY <4>1, <4>2 DEF WaitBetween
        <3>4. ASSUME NEW r, WaitBetween(r, k, n) PROVE WaitBetween(r, k, Len(stream) + 1)'
            <4>1. Len(stream') + 1 = n + 1
                BY <1>4
            <4>2. WaitBetween(r, k, n + 1)'
                BY <3>3, <3>4
            <4> QED BY <4>1, <4>2 DEF WaitBetween
        <3> QED BY <1>1, <3>1, <3>2, <3>4
    <2> QED BY <2>1, <2>2
<1>6. RecordsOrdered'
    <2> SUFFICES ASSUME NEW m \in CommandRecords \cup {n}, NEW k \in CommandRecords \cup {n}, m < k,
                        Hazard(program[stream'[m].index], program[stream'[k].index])
                 PROVE  stream'[m].index < stream'[k].index /\ Precedes(m, k)'
        BY <1>1, <1>4 DEF RecordsOrdered
    <2>1. m \in CommandRecords
        BY <1>4
    <2>2. CASE k \in CommandRecords
        BY <1>1, <1>2, <2>1, <2>2, AppendKeepsOrder
    <2>3. CASE k = n
        <3>1. stream'[m] = stream[m] /\ stream'[k].index = i
            BY <1>4, <2>1, <2>3
        <3> QED BY <1>3, <2>1, <2>3, <3>1, EmitIsOrdered
    <2> QED BY <2>2, <2>3
<1>7. SpatzIsAlone'
    <2> SUFFICES ASSUME NEW m \in CommandRecords \cup {n}, NEW k \in CommandRecords \cup {n}, m < k,
                        stream'[m].op = "submit", stream'[m].queue = SystolicQueue,
                        stream'[k].op = "run", IsSpatz(stream'[k].index)
                 PROVE  WaitBetween(SystolicQueue, m, k)'
        <3>1. \A j : IsSpatz(j)' = IsSpatz(j)
            BY <1>1 DEF IsSpatz, Uses
        <3> QED BY <1>4, <3>1 DEF SpatzIsAlone
    <2>1. m \in CommandRecords
        BY <1>4
    <2>2. CASE k \in CommandRecords
        BY <1>1, <1>2, <2>1, <2>2, AppendKeepsOrder
    <2>3. CASE k = n
        <3>1. stream'[m] = stream[m] /\ m \in Nat /\ stream'[k].index = i
            BY <1>4, <2>1, <2>3
        <3>2. pending[SystolicQueue] = <<>>
            <4>1. SystolicQueue \notin QueuesBlocking(i)
                BY UrgentIsUnblocked
            <4>2. IsSpatz(i) /\ SystolicQueue \in Queues
                BY <3>1 DEF Queues, SystolicQueue
            <4> QED BY <4>1, <4>2 DEF QueuesBlocking
        <3>3. PendingIn(SystolicQueue) = {}
            BY <3>2 DEF PendingIn
        <3>4. WaitBetween(SystolicQueue, m, n)
            BY <1>3, <2>1, <3>1, <3>3 DEF StreamOrder, RecordsArePending
        <3> QED BY <1>4, <2>3, <3>1, <3>4
    <2> QED BY <2>2, <2>3
<1> QED BY <1>5, <1>6, <1>7 DEF StreamOrder

\* A wait moves the pending commands of its queue behind it (emitWait).
LEMMA WaitKeepsStreamOrder ==
    ASSUME LoopInv, StreamOrder, NEW w \in Queues, Wait(w)
    PROVE  StreamOrder'
<1>1. /\ stream' = Append(stream, Entry("wait", 0, w))
      /\ emitted' = emitted /\ program' = program
      /\ \A r \in Queues \ {w} : PendingIn(r)' = PendingIn(r)
    BY WaitEmpties DEF Wait
<1>2. PICK n : n = Len(stream) + 1
    OBVIOUS
<1>3. /\ n \in Nat /\ Len(stream') + 1 = n + 1
      /\ \A k \in CommandRecords : k \in 1..(n - 1) /\ stream'[k] = stream[k]
      /\ stream'[n].op = "wait" /\ stream'[n].queue = w
      /\ CommandRecords' = CommandRecords
      /\ \A r : \A m \in Nat : WaitBetween(r, m, n)' <=> WaitBetween(r, m, n)
    <2>1. /\ Len(stream) \in Nat /\ Len(stream') = Len(stream) + 1
          /\ DOMAIN stream = 1..Len(stream)
          /\ \A k \in 1..Len(stream) : stream'[k] = stream[k]
          /\ stream'[n] = Entry("wait", 0, w)
          /\ CommandRecords' = CommandRecords
          /\ \A r, m : \A k \in 1..(Len(stream) + 1) :
                m \in Nat => (WaitBetween(r, m, k)' <=> WaitBetween(r, m, k))
        BY <1>1, <1>2, AppendKeepsRecords
    <2>2. n \in 1..(Len(stream) + 1)
        BY <1>2, <2>1
    <2>3. CommandRecords \subseteq 1..Len(stream)
        BY <2>1 DEF CommandRecords
    <2> QED BY <1>2, <2>1, <2>2, <2>3 DEF Entry
<1>4. RecordsArePending'
    <2> SUFFICES ASSUME NEW k \in CommandRecords
                 PROVE  /\ stream[k].index \in emitted
                        /\ stream[k].op = "submit" =>
                              /\ stream[k].queue = AsyncQueue(stream[k].index)
                              /\ stream[k].queue \in Queues
                              /\ \/ WaitBetween(stream[k].queue, k, Len(stream) + 1)'
                                 \/ stream[k].index \in PendingIn(stream[k].queue)'
        <3>1. \A j : AsyncQueue(j)' = AsyncQueue(j)
            BY <1>1 DEF AsyncQueue, IsDMA, IsSystolic, Uses
        <3> QED BY <1>1, <1>3, <3>1 DEF RecordsArePending
    <2>1. /\ stream[k].index \in emitted
          /\ stream[k].op = "submit" =>
                /\ stream[k].queue = AsyncQueue(stream[k].index) /\ stream[k].queue \in Queues
                /\ \/ WaitBetween(stream[k].queue, k, n)
                   \/ stream[k].index \in PendingIn(stream[k].queue)
        BY <1>2 DEF StreamOrder, RecordsArePending
    <2>2. k \in 1..(n - 1) /\ k \in Nat /\ stream'[k] = stream[k]
        BY <1>3
    <2>3. ASSUME NEW r, WaitBetween(r, k, n) \/ r = w PROVE WaitBetween(r, k, n + 1)'
        <3>1. CASE r = w
            <4>1. n \in (k + 1)..((n + 1) - 1)
                BY <1>3, <2>2
            <4> QED BY <1>3, <3>1, <4>1 DEF WaitBetween
        <3>2. CASE WaitBetween(r, k, n)
            <4>1. PICK j \in (k + 1)..(n - 1) : stream'[j].op = "wait" /\ stream'[j].queue = r
                BY <1>3, <2>2, <3>2 DEF WaitBetween
            <4>2. j \in (k + 1)..((n + 1) - 1)
                BY <1>3, <2>2
            <4> QED BY <4>1, <4>2 DEF WaitBetween
        <3> QED BY <2>3, <3>1, <3>2
    <2>4. ASSUME NEW r, WaitBetween(r, k, n) \/ r = w
          PROVE  WaitBetween(r, k, Len(stream) + 1)'
        BY <1>3, <2>3, <2>4 DEF WaitBetween
    <2> QED BY <1>1, <2>1, <2>2, <2>4
<1>5. RecordsOrdered' /\ SpatzIsAlone'
    <2>1. \A j : IsSpatz(j)' = IsSpatz(j)
        BY <1>1 DEF IsSpatz, Uses
    <2>2. ASSUME NEW m \in CommandRecords, NEW k \in CommandRecords, m < k
          PROVE  /\ Hazard(program[stream'[m].index], program[stream'[k].index]) =>
                      stream'[m].index < stream'[k].index /\ Precedes(m, k)'
                 /\ /\ stream'[m].op = "submit" /\ stream'[m].queue = SystolicQueue
                    /\ stream'[k].op = "run" /\ IsSpatz(stream'[k].index)
                    => WaitBetween(SystolicQueue, m, k)'
        BY <1>1, <2>2, AppendKeepsOrder
    <2> QED BY <1>1, <1>3, <2>1, <2>2 DEF RecordsOrdered, SpatzIsAlone
<1> QED BY <1>4, <1>5 DEF StreamOrder

\* Every step of the scheduler keeps the order of the records.
LEMMA StreamOrderStep == LoopInv /\ StreamOrder /\ [Next]_vars => StreamOrder'
<1> SUFFICES ASSUME LoopInv, StreamOrder, [Next]_vars PROVE StreamOrder'
    OBVIOUS
<1>1. ASSUME NEW i \in Indices, Emit(i) PROVE StreamOrder'
    BY <1>1, EmitKeepsStreamOrder
<1>2. ASSUME NEW q \in Queues, InsertWait(q) \/ Drain(q) PROVE StreamOrder'
    BY <1>2, WaitKeepsStreamOrder DEF InsertWait, Drain
<1>3. CASE Finish \/ UNCHANGED vars
    <2>1. UNCHANGED <<program, emitted, pending, stream>>
        BY <1>3 DEF Finish, vars
    <2> QED BY <2>1 DEF StreamOrder, RecordsArePending, RecordsOrdered, SpatzIsAlone, CommandRecords,
                        Precedes, WaitBetween, PendingIn, AsyncQueue, IsDMA, IsSystolic, IsSpatz, Uses
<1> QED BY <1>1, <1>2, <1>3 DEF Next

-----------------------------------------------------------------------------
(* The invariant of the machine.                                           *)

Core    == Processor!Core
Engines == Processor!Engines

\* Where the one record of a command is, in a finished stream.
Position(i) == CHOOSE k \in RecordsOf(i) : TRUE

\* The machine has not started.
Idle ==
    /\ pc = 1 /\ finished = {}
    /\ \A q \in Queues : jobs[q] = <<>>
    /\ \A e \in Engines : busy[e] = 0

\* A job in a queue has been submitted to it, is not covered by a fetched wait
\* and has not ended; the queue is in the order of the submits.
JobsAreOutstanding ==
    \A q \in Queues :
        /\ \A k \in DOMAIN jobs[q] :
              LET i == jobs[q][k]
              IN  /\ Position(i) < pc /\ i \notin finished
                  /\ stream[Position(i)].op = "submit" /\ stream[Position(i)].queue = q
                  /\ ~WaitBetween(q, Position(i), pc)
        /\ \A k, l \in DOMAIN jobs[q] :
              k < l => Position(jobs[q][k]) < Position(jobs[q][l])

\* Every fetched command has ended, runs on the core or is in its queue.
FetchedAreKnown ==
    \A i \in Indices : Position(i) < pc =>
        \/ i \in finished
        \/ i = busy[Core]
        \/ \E q \in Queues : \E k \in DOMAIN jobs[q] : jobs[q][k] = i

\* An engine works on the front of its queue, the core on the last record.
EnginesWorkInOrder ==
    /\ \A q \in Queues : busy[q] # 0 => jobs[q] # <<>> /\ busy[q] = Head(jobs[q])
    /\ busy[Core] # 0 =>
          /\ busy[Core] \notin finished
          /\ Position(busy[Core]) = pc - 1 /\ stream[pc - 1].op = "run"

\* What a started job has read is still in the memory: nobody writes it.
LatchedIsCurrent ==
    \A e \in Engines : busy[e] # 0 =>
        latched[busy[e]] = [c \in CellsRead(program[busy[e]]) |-> mem[c]]

\* The core runs a Spatz command with the systolic slot empty.
SlotIsEmpty ==
    busy[Core] # 0 /\ IsSpatz(busy[Core]) => jobs[SystolicQueue] = <<>>

MachineInv ==
    /\ pc \in Nat \ {0}
    /\ jobs \in [Queues -> Seq(Indices)]
    /\ busy \in [Engines -> {0} \cup Indices]
    /\ finished \subseteq Indices
    /\ DOMAIN latched = Indices /\ DOMAIN mem = AllCells(program)
    /\ phase # "done" => Idle
    /\ phase = "done" =>
          /\ pc <= Len(stream) + 1
          /\ \A i \in finished : Position(i) < pc
          /\ JobsAreOutstanding
          /\ FetchedAreKnown
          /\ EnginesWorkInOrder
          /\ LatchedIsCurrent
          /\ SlotIsEmpty

ExecInv == LoopInv /\ StreamInv /\ StreamOrder /\ MachineInv

-----------------------------------------------------------------------------
(* Where the records of a finished stream are.                             *)

\* In a finished stream every command has one record and every record of a
\* command names a command of the stream.
LEMMA PositionFacts ==
    ASSUME LoopInv, StreamInv, StreamOrder, phase = "done"
    PROVE  /\ Len(stream) \in Nat /\ Len(program) \in Nat
           /\ \A i \in Indices :
                 /\ Position(i) \in CommandRecords /\ Position(i) \in 1..Len(stream)
                 /\ stream[Position(i)].index = i
           /\ \A k \in CommandRecords :
                 /\ stream[k].index \in Indices /\ Position(stream[k].index) = k
                 /\ stream[k].op \in {"run", "submit"}
                 /\ stream[k].op = "submit" => stream[k].queue \in Queues
<1> DEFINE Records == [op : {"run", "submit", "wait"}, index : Nat, queue : Queues \cup {NoQueue}]
<1>1. stream \in Seq(Records) /\ Len(stream) \in Nat /\ Len(program) \in Nat
      /\ DOMAIN stream = 1..Len(stream)
    BY DEF LoopInv, TypeOK
<1>2. \A i \in Indices : \E k : RecordsOf(i) = {k}
    BY DEF StreamInv
<1>3. ASSUME NEW i \in Indices
      PROVE  /\ Position(i) \in RecordsOf(i)
             /\ \A k \in RecordsOf(i) : k = Position(i)
    <2>1. PICK k : RecordsOf(i) = {k}
        BY <1>2
    <2> QED BY <2>1 DEF Position
<1>4. \A k \in CommandRecords : stream[k].index \in Indices /\ k \in RecordsOf(stream[k].index)
    BY DEF CommandRecords, RecordsOf, StreamOrder, RecordsArePending, LoopInv, TypeOK
<1>5. \A i : \A k \in RecordsOf(i) : k \in CommandRecords /\ k \in DOMAIN stream /\ stream[k].index = i
    BY DEF CommandRecords, RecordsOf
<1>6. \A k \in CommandRecords : stream[k].op \in {"run", "submit"}
    <2> SUFFICES ASSUME NEW k \in CommandRecords PROVE stream[k].op \in {"run", "submit"}
        OBVIOUS
    <2>1. stream[k] \in Records
        <3> HIDE DEF Records
        <3> QED BY <1>1 DEF CommandRecords
    <2> QED BY <2>1 DEF CommandRecords
<1>7. \A k \in CommandRecords : stream[k].op = "submit" => stream[k].queue \in Queues
    BY DEF StreamOrder, RecordsArePending
<1> QED BY <1>1, <1>3, <1>4, <1>5, <1>6, <1>7

\* What an engine works on.
LEMMA BusyFacts ==
    ASSUME ExecInv, phase = "done", NEW e \in Engines, busy[e] # 0
    PROVE  /\ busy[e] \in Indices /\ busy[e] \notin finished /\ Position(busy[e]) < pc
           /\ e \in Queues =>
                 /\ jobs[e] \in Seq(Indices) /\ jobs[e] # <<>> /\ 1 \in DOMAIN jobs[e]
                 /\ jobs[e][1] = busy[e]
                 /\ stream[Position(busy[e])].op = "submit"
                 /\ stream[Position(busy[e])].queue = e
                 /\ ~WaitBetween(e, Position(busy[e]), pc)
           /\ e \notin Queues =>
                 /\ e = Core
                 /\ Position(busy[e]) = pc - 1 /\ stream[Position(busy[e])].op = "run"
<1>1. busy[e] \in Indices /\ pc \in Nat
    BY DEF ExecInv, MachineInv
<1>2. CASE e \in Queues
    <2>1. jobs[e] \in Seq(Indices) /\ jobs[e] # <<>> /\ busy[e] = Head(jobs[e])
        BY <1>2 DEF ExecInv, MachineInv, EnginesWorkInOrder
    <2>2. 1 \in DOMAIN jobs[e] /\ jobs[e][1] = busy[e]
        BY <2>1
    <2> QED BY <1>1, <1>2, <2>1, <2>2 DEF ExecInv, MachineInv, JobsAreOutstanding
<1>3. CASE e \notin Queues
    <2>1. e = Core
        BY <1>3 DEF Engines, Core, Processor!Engines, Processor!Queues, Queues
    <2>2. /\ busy[e] \notin finished
          /\ Position(busy[e]) = pc - 1 /\ stream[pc - 1].op = "run"
        BY <2>1 DEF ExecInv, MachineInv, EnginesWorkInOrder
    <2> QED BY <1>1, <1>3, <2>1, <2>2
<1> QED BY <1>2, <1>3

\* While a command executes, what it has a hazard with has either ended or is
\* behind it in the stream: no engine overtakes a hazard.
LEMMA HazardsFinished ==
    ASSUME ExecInv, phase = "done", NEW e \in Engines, NEW i, i = busy[e], i # 0,
           NEW j \in Indices, j # i, j \notin finished, Hazard(program[j], program[i])
    PROVE  Position(i) < Position(j)
<1>1. /\ Len(stream) \in Nat /\ i \in Indices /\ pc \in Nat
      /\ Position(i) \in CommandRecords /\ Position(i) \in Nat /\ stream[Position(i)].index = i
      /\ Position(j) \in CommandRecords /\ Position(j) \in Nat /\ stream[Position(j)].index = j
    BY BusyFacts, PositionFacts DEF ExecInv, MachineInv
<1>2. /\ Position(i) < pc
      /\ e \in Queues =>
            /\ 1 \in DOMAIN jobs[e] /\ jobs[e][1] = i
            /\ stream[Position(i)].op = "submit" /\ stream[Position(i)].queue = e
      /\ e \notin Queues => stream[Position(i)].op = "run"
    BY BusyFacts
<1> SUFFICES ASSUME Position(j) < Position(i) PROVE FALSE
    BY <1>1
<1>3. Precedes(Position(j), Position(i))
    BY <1>1 DEF ExecInv, StreamOrder, RecordsOrdered
<1>4. Position(j) < pc
    BY <1>1, <1>2
<1>5. CASE j = busy[Core]
    <2>1. Position(j) = pc - 1
        BY <1>5, <1>4 DEF ExecInv, MachineInv, EnginesWorkInOrder, Indices
    <2> QED BY <1>1, <1>2, <2>1
<1>6. CASE \E q \in Queues : \E k \in DOMAIN jobs[q] : jobs[q][k] = j
    <2>0. PICK q \in Queues : \E k \in DOMAIN jobs[q] : jobs[q][k] = j
        BY <1>6
    <2>1. PICK k \in DOMAIN jobs[q] : jobs[q][k] = j
        BY <2>0
    <2>2. /\ stream[Position(j)].op = "submit" /\ stream[Position(j)].queue = q
          /\ ~WaitBetween(q, Position(j), pc)
          /\ jobs[q] \in Seq(Indices)
        BY <2>1 DEF ExecInv, MachineInv, JobsAreOutstanding
    <2>3. CASE WaitBetween(q, Position(j), Position(i))
        <3>1. PICK w \in (Position(j) + 1)..(Position(i) - 1) :
                stream[w].op = "wait" /\ stream[w].queue = q
            BY <2>3 DEF WaitBetween
        <3>2. w \in (Position(j) + 1)..(pc - 1)
            BY <1>1, <1>2
        <3> QED BY <2>2, <3>1, <3>2 DEF WaitBetween
    <2>4. CASE stream[Position(i)].op = "submit" /\ stream[Position(i)].queue = q
        <3>1. e = q /\ e \in Queues
            BY <1>2, <2>4
        <3>2. k \in Nat /\ 1 <= k /\ k # 1 /\ 1 \in DOMAIN jobs[q] /\ jobs[q][1] = i
            BY <1>2, <2>1, <2>2, <3>1
        <3>3. Position(jobs[q][1]) < Position(jobs[q][k])
            BY <2>1, <3>2 DEF ExecInv, MachineInv, JobsAreOutstanding
        <3> QED BY <1>1, <2>1, <3>2, <3>3
    <2> QED BY <1>3, <2>2, <2>3, <2>4 DEF Precedes
<1> QED BY <1>4, <1>5, <1>6 DEF ExecInv, MachineInv, FetchedAreKnown

\* No two engines work at once on commands with a hazard.
LEMMA ExecInvHasNoRace == ExecInv => NoDataRace
<1> SUFFICES ASSUME ExecInv, NEW e \in Engines, NEW f \in Engines, e # f, busy[e] # 0, busy[f] # 0,
                    Hazard(program[busy[e]], program[busy[f]])
             PROVE  FALSE
    BY DEF NoDataRace, Engines
<1>1. phase = "done"
    BY DEF ExecInv, MachineInv, Idle
<1>2. /\ busy[e] \in Indices /\ busy[e] \notin finished
      /\ busy[f] \in Indices /\ busy[f] \notin finished
    BY <1>1, BusyFacts
<1>3. busy[e] # busy[f]
    <2>1. stream[Position(busy[e])].op = "submit" <=> e \in Queues
        BY <1>1, BusyFacts
    <2>2. stream[Position(busy[f])].op = "submit" <=> f \in Queues
        BY <1>1, BusyFacts
    <2>3. e \in Queues => stream[Position(busy[e])].queue = e
        BY <1>1, BusyFacts
    <2>4. f \in Queues => stream[Position(busy[f])].queue = f
        BY <1>1, BusyFacts
    <2>5. (e \notin Queues => e = Core) /\ (f \notin Queues => f = Core)
        BY <1>1, BusyFacts
    <2> QED BY <2>1, <2>2, <2>3, <2>4, <2>5
<1>4. Position(busy[f]) < Position(busy[e])
    BY <1>1, <1>2, <1>3, HazardsFinished
<1>5. Position(busy[e]) < Position(busy[f])
    BY <1>1, <1>2, <1>3, HazardsFinished, HazardSymmetric
<1>6. Position(busy[e]) \in Nat /\ Position(busy[f]) \in Nat
    BY <1>1, <1>2, PositionFacts DEF ExecInv
<1> QED BY <1>4, <1>5, <1>6

-----------------------------------------------------------------------------
(* The steps of the machine.                                               *)

\* The machine's cells are the cells of the commands.
LEMMA CellsOfProcessor ==
    /\ \A c : Processor!CellsRead(c) = CellsRead(c)
    /\ \A c : Processor!CellsWritten(c) = CellsWritten(c)
    /\ Processor!Indices = Indices
    /\ Processor!Queues = Queues
    /\ Engines = Queues \cup {Core} /\ Core \notin Queues
BY DEF Processor!CellsRead, Processor!CellsWritten, Processor!MemoryCells, CellsRead,
       CellsWritten, MemoryCells, Processor!Indices, Indices, Processor!Queues, Queues,
       Engines, Core, Processor!Engines, Processor!Core

\* The machine leaves the stream alone, and all that is said about it.
LEMMA StreamStays ==
    ASSUME UNCHANGED vars
    PROVE  /\ UNCHANGED <<program, phase, stream, emitted>>
           /\ Indices' = Indices /\ CommandRecords' = CommandRecords
           /\ \A i : Position(i)' = Position(i) /\ (IsSpatz(i)' <=> IsSpatz(i))
           /\ \A q, m, n : WaitBetween(q, m, n)' <=> WaitBetween(q, m, n)
BY DEF vars, Indices, CommandRecords, Position, RecordsOf, WaitBetween, IsSpatz, Uses

\* The record to fetch lies in the stream.
LEMMA FetchFacts ==
    ASSUME ExecInv, phase = "done", NEW op \in {"run", "submit", "wait"}, Processor!Fetching(op)
    PROVE  /\ pc \in 1..Len(stream) /\ Len(stream) \in Nat /\ pc' = pc + 1
           /\ busy[Core] = 0 /\ stream[pc].op = op
           /\ op # "wait" =>
                 /\ pc \in CommandRecords /\ stream[pc].index \in Indices
                 /\ Position(stream[pc].index) = pc /\ stream[pc].index \notin finished
                 /\ op = "submit" => stream[pc].queue \in Queues
           /\ op = "wait" => \A i \in Indices : Position(i) # pc
<1>1. /\ pc <= Len(stream) /\ busy[Core] = 0 /\ stream[pc].op = op /\ pc' = pc + 1
      /\ pc \in Nat \ {0}
    BY DEF Processor!Fetching, Core, ExecInv, MachineInv
<1>2. /\ Len(stream) \in Nat /\ DOMAIN stream = 1..Len(stream)
    BY DEF ExecInv, LoopInv, TypeOK
<1>3. op # "wait" => pc \in CommandRecords
    BY <1>1, <1>2 DEF CommandRecords
<1>4. \A k \in CommandRecords :
         /\ stream[k].index \in Indices /\ Position(stream[k].index) = k
         /\ stream[k].op = "submit" => stream[k].queue \in Queues
    BY PositionFacts DEF ExecInv
<1>5. \A i \in finished : Position(i) < pc
    BY DEF ExecInv, MachineInv
<1>6. op = "wait" => \A i \in Indices : Position(i) # pc
    <2>1. \A i \in Indices : Position(i) \in CommandRecords
        BY PositionFacts DEF ExecInv
    <2> QED BY <1>1, <2>1 DEF CommandRecords
<1> QED BY <1>1, <1>2, <1>3, <1>4, <1>5, <1>6

\* A submit puts its job behind the jobs submitted before.
LEMMA FetchSubmitStep ==
    ASSUME ExecInv, phase = "done", UNCHANGED vars, Processor!FetchSubmit
    PROVE  MachineInv'
<1> DEFINE i == stream[pc].index
           own == stream[pc].queue
<1>1. /\ pc \in 1..Len(stream) /\ Len(stream) \in Nat /\ pc' = pc + 1 /\ pc \in Nat
      /\ busy[Core] = 0 /\ stream[pc].op = "submit" /\ own \in Queues
      /\ i \in Indices /\ Position(i) = pc /\ i \notin finished
      /\ UNCHANGED <<busy, latched, finished, mem>>
      /\ jobs' = [jobs EXCEPT ![own] = Append(@, i)]
    BY FetchFacts DEF Processor!FetchSubmit
<1>2. MachineInv /\ jobs \in [Queues -> Seq(Indices)]
    BY DEF ExecInv, MachineInv
<1>3. /\ UNCHANGED <<program, phase, stream, emitted>>
      /\ Indices' = Indices /\ CommandRecords' = CommandRecords
      /\ \A j : Position(j)' = Position(j) /\ (IsSpatz(j)' <=> IsSpatz(j))
      /\ \A q, m, n : WaitBetween(q, m, n)' <=> WaitBetween(q, m, n)
    BY StreamStays
<1>4. \A j \in Indices : Position(j) \in Nat
    BY PositionFacts DEF ExecInv
<1>5. jobs' \in [Queues -> Seq(Indices)]
    BY <1>1, <1>2
<1> HIDE DEF i, own
<1>6. ASSUME NEW q \in Queues
      PROVE  /\ jobs[q] \in Seq(Indices) /\ DOMAIN jobs[q] = 1..Len(jobs[q]) /\ Len(jobs[q]) \in Nat
             /\ \A k \in DOMAIN jobs[q] : k \in DOMAIN jobs'[q] /\ jobs'[q][k] = jobs[q][k]
             /\ q # own => jobs'[q] = jobs[q]
             /\ q = own => /\ jobs'[q] = Append(jobs[q], i)
                           /\ DOMAIN jobs'[q] = 1..(Len(jobs[q]) + 1)
                           /\ jobs'[q][Len(jobs[q]) + 1] = i
    <2>1. jobs[q] \in Seq(Indices)
        BY <1>2
    <2>2. CASE q = own
        <3>1. jobs'[q] = Append(jobs[q], i)
            BY <1>1, <1>2, <2>2
        <3> QED BY <1>1, <2>1, <2>2, <3>1
    <2>3. CASE q # own
        <3>1. jobs'[q] = jobs[q]
            BY <1>1, <1>2, <2>3
        <3> QED BY <2>1, <2>3, <3>1
    <2> QED BY <2>2, <2>3
<1>7. JobsAreOutstanding'
    <2>1. ASSUME NEW q \in Queues, NEW k \in DOMAIN jobs'[q]
          PROVE  \/ k \in DOMAIN jobs[q] /\ jobs'[q][k] = jobs[q][k]
                 \/ /\ q = own /\ jobs'[q][k] = i
                    /\ \A l \in DOMAIN jobs'[q] : l = k \/ l < k
        <3>1. CASE q = own
            <4>1. k \in 1..Len(jobs[q]) \/ k = Len(jobs[q]) + 1
                BY <1>6, <3>1
            <4> QED BY <1>6, <3>1, <4>1
        <3>2. CASE q # own
            BY <1>6, <3>2
        <3> QED BY <3>1, <3>2
    <2>2. ASSUME NEW q \in Queues, NEW k \in DOMAIN jobs[q]
          PROVE  /\ Position(jobs[q][k]) < pc /\ jobs[q][k] \notin finished
                 /\ jobs[q][k] \in Indices
                 /\ stream[Position(jobs[q][k])].op = "submit"
                 /\ stream[Position(jobs[q][k])].queue = q
                 /\ ~WaitBetween(q, Position(jobs[q][k]), pc)
        BY <1>2, <1>3, <1>6 DEF MachineInv, JobsAreOutstanding, ExecInv
    <2>3. ASSUME NEW q, NEW m \in Nat, m <= pc, m < pc => ~WaitBetween(q, m, pc)
          PROVE  ~WaitBetween(q, m, pc + 1)
        <3> SUFFICES ASSUME NEW w \in (m + 1)..((pc + 1) - 1), stream[w].op = "wait", stream[w].queue = q
                     PROVE  FALSE
            BY DEF WaitBetween
        <3>1. w # pc
            BY <1>1
        <3>2. w \in (m + 1)..(pc - 1) /\ m < pc
            BY <1>1, <3>1
        <3> QED BY <2>3, <3>2 DEF WaitBetween
    <2>4. ASSUME NEW q \in Queues, NEW k \in DOMAIN jobs'[q], NEW j, j = jobs'[q][k]
          PROVE  /\ Position(j) < pc + 1 /\ j \notin finished
                 /\ stream[Position(j)].op = "submit" /\ stream[Position(j)].queue = q
                 /\ ~WaitBetween(q, Position(j), pc + 1)
        <3>1. CASE k \in DOMAIN jobs[q] /\ j = jobs[q][k]
            BY <1>1, <1>4, <2>2, <2>3, <3>1
        <3>2. CASE q = own /\ j = i
            BY <1>1, <2>3, <3>2 DEF own
        <3> QED BY <2>1, <2>4, <3>1, <3>2
    <2>5. ASSUME NEW q \in Queues, NEW k \in DOMAIN jobs'[q], NEW l \in DOMAIN jobs'[q], k < l
          PROVE  Position(jobs'[q][k]) < Position(jobs'[q][l])
        <3>1. k \in Nat /\ l \in Nat
            BY <1>6
        <3>2. k \in DOMAIN jobs[q] /\ jobs'[q][k] = jobs[q][k]
            BY <2>1, <2>5, <3>1
        <3>3. CASE l \in DOMAIN jobs[q] /\ jobs'[q][l] = jobs[q][l]
            BY <2>5, <3>2, <3>3, <1>2, <1>3 DEF MachineInv, JobsAreOutstanding, ExecInv
        <3>4. CASE jobs'[q][l] = i
            BY <1>1, <2>2, <3>2, <3>4
        <3> QED BY <2>1, <3>3, <3>4
    <2> QED BY <1>1, <1>3, <2>4, <2>5 DEF JobsAreOutstanding
<1>8. FetchedAreKnown'
    <2> SUFFICES ASSUME NEW j \in Indices, Position(j) < pc + 1
                 PROVE  \/ j \in finished
                        \/ \E q \in Queues : \E k \in DOMAIN jobs'[q] : jobs'[q][k] = j
        BY <1>1, <1>3 DEF FetchedAreKnown
    <2>1. CASE Position(j) = pc
        <3>1. j = i
            <4>1. stream[Position(j)].index = j
                BY PositionFacts DEF ExecInv
            <4> QED BY <2>1, <4>1 DEF i
        <3>2. Len(jobs[own]) + 1 \in DOMAIN jobs'[own] /\ jobs'[own][Len(jobs[own]) + 1] = i
            BY <1>1, <1>6
        <3> QED BY <1>1, <3>1, <3>2
    <2>2. CASE Position(j) # pc
        <3>1. Position(j) < pc
            BY <1>1, <1>4, <2>2
        <3>2. \/ j \in finished
              \/ \E q \in Queues : \E k \in DOMAIN jobs[q] : jobs[q][k] = j
            BY <1>1, <3>1, <1>2, <1>3 DEF MachineInv, FetchedAreKnown, ExecInv, Indices
        <3> QED BY <1>6, <3>2
    <2> QED BY <2>1, <2>2
<1>9. EnginesWorkInOrder'
    <2> SUFFICES ASSUME NEW q \in Queues, busy[q] # 0
                 PROVE  jobs'[q] # <<>> /\ busy[q] = Head(jobs'[q])
        BY <1>1 DEF EnginesWorkInOrder, Core, Processor!Core
    <2>1. jobs[q] # <<>> /\ busy[q] = Head(jobs[q])
        BY <1>2, <1>3 DEF MachineInv, EnginesWorkInOrder, ExecInv
    <2>2. 1 \in DOMAIN jobs[q]
        BY <1>6, <2>1
    <2>3. jobs'[q] \in Seq(Indices)
        BY <1>5
    <2> QED BY <1>6, <2>1, <2>2, <2>3
<1>10. LatchedIsCurrent' /\ SlotIsEmpty'
    BY <1>1, <1>2, <1>3 DEF MachineInv, LatchedIsCurrent, SlotIsEmpty, Engines, Core,
                            Processor!Engines, Processor!Core
<1>11. \A j \in finished' : Position(j)' < pc'
    <2>1. \A j \in finished : Position(j) < pc /\ Position(j) \in Nat
        BY <1>2, <1>4 DEF MachineInv
    <2> QED BY <1>1, <1>3, <2>1
<1>12. /\ pc' \in Nat \ {0} /\ pc' <= Len(stream) + 1
       /\ busy' \in [Engines -> {0} \cup Indices] /\ finished' \subseteq Indices
       /\ DOMAIN latched' = Indices /\ DOMAIN mem' = AllCells(program)
    BY <1>1, <1>2 DEF MachineInv
<1> QED BY <1>3, <1>5, <1>7, <1>8, <1>9, <1>10, <1>11, <1>12
        DEF MachineInv, Engines, Processor!Engines, Processor!Queues, Processor!Core

\* What is known of the jobs in the queues.
LEMMA JobFacts ==
    ASSUME ExecInv, phase = "done", NEW q \in Queues
    PROVE  /\ jobs[q] \in Seq(Indices) /\ DOMAIN jobs[q] = 1..Len(jobs[q]) /\ Len(jobs[q]) \in Nat
           /\ \A k \in DOMAIN jobs[q] :
                 /\ jobs[q][k] \in Indices /\ jobs[q][k] \notin finished
                 /\ Position(jobs[q][k]) \in Nat /\ Position(jobs[q][k]) < pc
                 /\ stream[Position(jobs[q][k])].op = "submit"
                 /\ stream[Position(jobs[q][k])].queue = q
                 /\ ~WaitBetween(q, Position(jobs[q][k]), pc)
           /\ \A k, l \in DOMAIN jobs[q] :
                 k < l => Position(jobs[q][k]) < Position(jobs[q][l])
<1>1. jobs[q] \in Seq(Indices)
    BY DEF ExecInv, MachineInv
<1>2. \A i \in Indices : Position(i) \in Nat
    BY PositionFacts DEF ExecInv
<1>3. JobsAreOutstanding
    BY DEF ExecInv, MachineInv
<1>4. \A k \in DOMAIN jobs[q] : jobs[q][k] \in Indices
    BY <1>1
<1> QED BY <1>1, <1>2, <1>3, <1>4 DEF JobsAreOutstanding

\* A wait is passed only when no job of its queue is outstanding, so it covers
\* none of the jobs that still are.
LEMMA FetchWaitStep ==
    ASSUME ExecInv, phase = "done", UNCHANGED vars, Processor!FetchWait
    PROVE  MachineInv'
<1>1. /\ pc \in 1..Len(stream) /\ Len(stream) \in Nat /\ pc' = pc + 1 /\ pc \in Nat
      /\ busy[Core] = 0 /\ stream[pc].op = "wait" /\ jobs[stream[pc].queue] = <<>>
      /\ \A i \in Indices : Position(i) # pc
      /\ UNCHANGED <<jobs, busy, latched, finished, mem>>
    BY FetchFacts DEF Processor!FetchWait
<1>2. MachineInv
    BY DEF ExecInv
<1>3. /\ UNCHANGED <<program, phase, stream, emitted>>
      /\ Indices' = Indices /\ CommandRecords' = CommandRecords
      /\ \A j : Position(j)' = Position(j) /\ (IsSpatz(j)' <=> IsSpatz(j))
      /\ \A q, m, n : WaitBetween(q, m, n)' <=> WaitBetween(q, m, n)
    BY StreamStays
<1>4. \A j \in Indices : Position(j) \in Nat
    BY PositionFacts DEF ExecInv
<1>5. JobsAreOutstanding'
    <2>1. ASSUME NEW q \in Queues, NEW k \in DOMAIN jobs[q], NEW j, j = jobs[q][k]
          PROVE  /\ Position(j) < pc + 1 /\ j \notin finished
                 /\ stream[Position(j)].op = "submit" /\ stream[Position(j)].queue = q
                 /\ ~WaitBetween(q, Position(j), pc + 1)
        <3>1. /\ Position(j) \in Nat /\ Position(j) < pc /\ j \notin finished
              /\ stream[Position(j)].op = "submit" /\ stream[Position(j)].queue = q
              /\ ~WaitBetween(q, Position(j), pc)
            BY <2>1, JobFacts
        <3>2. stream[pc].queue # q
            BY <1>1, JobFacts
        <3>3. ~WaitBetween(q, Position(j), pc + 1)
            <4> SUFFICES ASSUME NEW w \in (Position(j) + 1)..((pc + 1) - 1),
                                stream[w].op = "wait", stream[w].queue = q
                         PROVE  FALSE
                BY DEF WaitBetween
            <4>1. w \in (Position(j) + 1)..(pc - 1)
                BY <1>1, <3>1, <3>2
            <4> QED BY <3>1, <4>1 DEF WaitBetween
        <3> QED BY <1>1, <3>1, <3>3
    <2>2. \A q \in Queues : \A k, l \in DOMAIN jobs[q] :
              k < l => Position(jobs[q][k]) < Position(jobs[q][l])
        BY JobFacts
    <2> QED BY <1>1, <1>3, <2>1, <2>2 DEF JobsAreOutstanding
<1>6. FetchedAreKnown'
    <2> SUFFICES ASSUME NEW j \in Indices, Position(j) < pc + 1
                 PROVE  \/ j \in finished
                        \/ \E q \in Queues : \E k \in DOMAIN jobs[q] : jobs[q][k] = j
        BY <1>1, <1>3 DEF FetchedAreKnown
    <2>1. Position(j) < pc
        BY <1>1, <1>4
    <2> QED BY <1>1, <1>2, <1>3, <2>1 DEF MachineInv, FetchedAreKnown, Indices
<1>7. EnginesWorkInOrder' /\ LatchedIsCurrent' /\ SlotIsEmpty'
    BY <1>1, <1>2, <1>3 DEF MachineInv, EnginesWorkInOrder, LatchedIsCurrent, SlotIsEmpty, Engines,
                            Core, Processor!Engines, Processor!Core
<1>8. \A j \in finished' : Position(j)' < pc'
    <2>1. \A j \in finished : Position(j) < pc /\ Position(j) \in Nat
        BY <1>2, <1>4 DEF MachineInv
    <2> QED BY <1>1, <1>3, <2>1
<1>9. /\ pc' \in Nat \ {0} /\ pc' <= Len(stream) + 1
      /\ jobs' \in [Queues -> Seq(Indices)]
      /\ busy' \in [Engines -> {0} \cup Indices] /\ finished' \subseteq Indices
      /\ DOMAIN latched' = Indices /\ DOMAIN mem' = AllCells(program)
    BY <1>1, <1>2 DEF MachineInv
<1> QED BY <1>3, <1>5, <1>6, <1>7, <1>8, <1>9
        DEF MachineInv, Engines, Processor!Engines, Processor!Queues, Processor!Core

\* A blocking command starts on the core with everything fetched before it on
\* its way; a Spatz command finds the systolic slot empty.
LEMMA FetchRunStep ==
    ASSUME ExecInv, phase = "done", UNCHANGED vars, Processor!FetchRun
    PROVE  MachineInv'
<1> DEFINE i == stream[pc].index
<1>1. /\ pc \in 1..Len(stream) /\ Len(stream) \in Nat /\ pc' = pc + 1 /\ pc \in Nat
      /\ busy[Core] = 0 /\ stream[pc].op = "run" /\ pc \in CommandRecords
      /\ i \in Indices /\ Position(i) = pc /\ i \notin finished /\ i # 0
      /\ UNCHANGED <<jobs, finished, mem>>
      /\ busy' = [busy EXCEPT ![Core] = i]
      /\ latched' = [latched EXCEPT ![i] = [c \in CellsRead(program[i]) |-> mem[c]]]
    <2>1. /\ Processor!Fetching("run") /\ UNCHANGED <<jobs, finished, mem>>
          /\ busy' = [busy EXCEPT ![Processor!Core] = i]
          /\ latched' = [latched EXCEPT ![i] = [c \in Processor!CellsRead(program[i]) |-> mem[c]]]
        BY DEF Processor!FetchRun, Processor!Start
    <2>2. \A c : Processor!CellsRead(c) = CellsRead(c)
        BY CellsOfProcessor
    <2>3. latched' = [latched EXCEPT ![i] = [c \in CellsRead(program[i]) |-> mem[c]]]
        BY <2>1, <2>2
    <2>4. /\ pc \in 1..Len(stream) /\ Len(stream) \in Nat /\ pc' = pc + 1
          /\ busy[Core] = 0 /\ stream[pc].op = "run" /\ pc \in CommandRecords
          /\ i \in Indices /\ Position(i) = pc /\ i \notin finished
        BY <2>1, FetchFacts
    <2>5. pc \in Nat /\ i # 0
        BY <2>4 DEF Indices
    <2> QED BY <2>1, <2>3, <2>4, <2>5 DEF Core
<1> HIDE DEF i
<1>2. MachineInv /\ busy \in [Engines -> {0} \cup Indices] /\ DOMAIN latched = Indices
    BY DEF ExecInv, MachineInv
<1>3. /\ UNCHANGED <<program, phase, stream, emitted>>
      /\ Indices' = Indices /\ CommandRecords' = CommandRecords
      /\ \A j : Position(j)' = Position(j) /\ (IsSpatz(j)' <=> IsSpatz(j))
      /\ \A q, m, n : WaitBetween(q, m, n)' <=> WaitBetween(q, m, n)
    BY StreamStays
<1>4. \A j \in Indices : Position(j) \in Nat /\ stream[Position(j)].index = j
    BY PositionFacts DEF ExecInv
<1>5. busy'[Core] = i /\ \A e \in Queues : busy'[e] = busy[e] /\ e # Core
    BY <1>1, <1>2, CellsOfProcessor
<1>6. JobsAreOutstanding'
    <2>1. ASSUME NEW q \in Queues, NEW k \in DOMAIN jobs[q], NEW j, j = jobs[q][k]
          PROVE  /\ Position(j) < pc + 1 /\ j \notin finished
                 /\ stream[Position(j)].op = "submit" /\ stream[Position(j)].queue = q
                 /\ ~WaitBetween(q, Position(j), pc + 1)
        <3>1. /\ Position(j) \in Nat /\ Position(j) < pc /\ j \notin finished
              /\ stream[Position(j)].op = "submit" /\ stream[Position(j)].queue = q
              /\ ~WaitBetween(q, Position(j), pc)
            BY <2>1, JobFacts
        <3>2. ~WaitBetween(q, Position(j), pc + 1)
            <4> SUFFICES ASSUME NEW w \in (Position(j) + 1)..((pc + 1) - 1),
                                stream[w].op = "wait", stream[w].queue = q
                         PROVE  FALSE
                BY DEF WaitBetween
            <4>1. w \in (Position(j) + 1)..(pc - 1)
                BY <1>1, <3>1
            <4> QED BY <3>1, <4>1 DEF WaitBetween
        <3> QED BY <1>1, <3>1, <3>2
    <2>2. \A q \in Queues : \A k, l \in DOMAIN jobs[q] :
              k < l => Position(jobs[q][k]) < Position(jobs[q][l])
        BY JobFacts
    <2> QED BY <1>1, <1>3, <2>1, <2>2 DEF JobsAreOutstanding
<1>7. FetchedAreKnown'
    <2> SUFFICES ASSUME NEW j \in Indices, Position(j) < pc + 1
                 PROVE  \/ j \in finished
                        \/ j = i
                        \/ \E q \in Queues : \E k \in DOMAIN jobs[q] : jobs[q][k] = j
        BY <1>1, <1>3, <1>5 DEF FetchedAreKnown
    <2>1. CASE Position(j) = pc
        BY <1>4, <2>1 DEF i
    <2>2. CASE Position(j) # pc
        <3>1. Position(j) < pc
            BY <1>1, <1>4, <2>2
        <3> QED BY <1>1, <1>2, <1>3, <3>1 DEF MachineInv, FetchedAreKnown, Indices
    <2> QED BY <2>1, <2>2
<1>8. EnginesWorkInOrder'
    <2>1. \A q \in Queues : busy[q] # 0 => jobs[q] # <<>> /\ busy[q] = Head(jobs[q])
        BY <1>2, <1>3 DEF MachineInv, EnginesWorkInOrder
    <2>2. i \notin finished /\ Position(i) = (pc + 1) - 1 /\ stream[(pc + 1) - 1].op = "run"
        BY <1>1
    <2> QED BY <1>1, <1>3, <1>5, <2>1, <2>2 DEF EnginesWorkInOrder, Core, Processor!Core
<1>9. LatchedIsCurrent'
    <2> SUFFICES ASSUME NEW e \in Engines, NEW b, b = busy'[e], b # 0
                 PROVE  latched'[b] = [c \in CellsRead(program[b]) |-> mem[c]]
        BY <1>1, <1>3, CellsOfProcessor DEF LatchedIsCurrent, Core, Processor!Core
    <2>1. CASE e = Core
        BY <1>1, <1>2, <1>5, <2>1
    <2>2. CASE e # Core
        <3>1. e \in Queues /\ b = busy[e]
            BY <1>5, <2>2, CellsOfProcessor
        <3>2. Position(b) < pc /\ latched[b] = [c \in CellsRead(program[b]) |-> mem[c]]
            BY <1>2, <1>3, <3>1, BusyFacts DEF MachineInv, LatchedIsCurrent
        <3>3. b # i
            BY <1>1, <3>2
        <3> QED BY <1>1, <1>2, <3>2, <3>3
    <2> QED BY <2>1, <2>2
<1>10. SlotIsEmpty'
    <2> SUFFICES ASSUME IsSpatz(i), jobs[SystolicQueue] # <<>> PROVE FALSE
        BY <1>1, <1>3, <1>5 DEF SlotIsEmpty, Core, Processor!Core
    <2>1. SystolicQueue \in Queues
        BY DEF Queues, SystolicQueue
    <2>2. 1 \in DOMAIN jobs[SystolicQueue]
        BY <2>1, JobFacts
    <2> DEFINE m == Position(jobs[SystolicQueue][1])
    <2>3. /\ m < pc /\ stream[m].op = "submit" /\ stream[m].queue = SystolicQueue
          /\ ~WaitBetween(SystolicQueue, m, pc) /\ m \in CommandRecords
        <3>1. jobs[SystolicQueue][1] \in Indices
            BY <2>1, <2>2, JobFacts
        <3>2. m \in CommandRecords
            BY <3>1, PositionFacts DEF ExecInv
        <3> QED BY <2>1, <2>2, <3>2, JobFacts
    <2> HIDE DEF m
    <2> QED BY <1>1, <2>3 DEF ExecInv, StreamOrder, SpatzIsAlone, i
<1>11. \A j \in finished' : Position(j)' < pc'
    <2>1. \A j \in finished : Position(j) < pc /\ Position(j) \in Nat
        BY <1>2, <1>4 DEF MachineInv
    <2> QED BY <1>1, <1>3, <2>1
<1>12. /\ pc' \in Nat \ {0} /\ pc' <= Len(stream) + 1
       /\ jobs' \in [Queues -> Seq(Indices)]
       /\ busy' \in [Engines -> {0} \cup Indices] /\ finished' \subseteq Indices
       /\ DOMAIN latched' = Indices /\ DOMAIN mem' = AllCells(program)
    <2>1. pc' \in Nat \ {0} /\ pc' <= Len(stream) + 1
        BY <1>1
    <2>2. busy' \in [Engines -> {0} \cup Indices]
        BY <1>1, <1>2
    <2>3. jobs' \in [Queues -> Seq(Indices)] /\ finished' \subseteq Indices
        BY <1>1, <1>2 DEF MachineInv
    <2>4. DOMAIN latched' = Indices /\ DOMAIN mem' = AllCells(program)
        BY <1>1, <1>2 DEF MachineInv
    <2> QED BY <2>1, <2>2, <2>3, <2>4
<1> QED BY <1>3, <1>6, <1>7, <1>8, <1>9, <1>10, <1>11, <1>12
        DEF MachineInv, Engines, Processor!Engines, Processor!Queues, Processor!Core

\* An engine starts the front of its queue on the memory as it is.
LEMMA StartJobStep ==
    ASSUME ExecInv, phase = "done", UNCHANGED vars, NEW q \in Queues, Processor!StartJob(q)
    PROVE  MachineInv'
<1> DEFINE i == Head(jobs[q])
<1>1. /\ jobs[q] # <<>> /\ busy[q] = 0
      /\ UNCHANGED <<pc, jobs, finished, mem>>
      /\ busy' = [busy EXCEPT ![q] = i]
      /\ latched' = [latched EXCEPT ![i] = [c \in CellsRead(program[i]) |-> mem[c]]]
    <2>1. /\ jobs[q] # <<>> /\ busy[q] = 0 /\ UNCHANGED <<pc, jobs, finished, mem>>
          /\ busy' = [busy EXCEPT ![q] = i]
          /\ latched' = [latched EXCEPT ![i] = [c \in Processor!CellsRead(program[i]) |-> mem[c]]]
        BY DEF Processor!StartJob, Processor!Start
    <2>2. \A c : Processor!CellsRead(c) = CellsRead(c)
        BY CellsOfProcessor
    <2> QED BY <2>1, <2>2
<1>2. MachineInv /\ busy \in [Engines -> {0} \cup Indices] /\ DOMAIN latched = Indices
      /\ Engines = Queues \cup {Core} /\ Core \notin Queues
    BY CellsOfProcessor DEF ExecInv, MachineInv
<1>3. /\ UNCHANGED <<program, phase, stream, emitted>>
      /\ Indices' = Indices /\ CommandRecords' = CommandRecords
      /\ \A j : Position(j)' = Position(j) /\ (IsSpatz(j)' <=> IsSpatz(j))
      /\ \A r, m, n : WaitBetween(r, m, n)' <=> WaitBetween(r, m, n)
    BY StreamStays
<1>4. /\ 1 \in DOMAIN jobs[q] /\ i = jobs[q][1] /\ i \in Indices /\ i # 0
      /\ stream[Position(i)].op = "submit" /\ stream[Position(i)].queue = q
    <2>1. 1 \in DOMAIN jobs[q] /\ i = jobs[q][1]
        BY <1>1, JobFacts
    <2>2. i \in Indices /\ stream[Position(i)].op = "submit" /\ stream[Position(i)].queue = q
        BY <2>1, JobFacts
    <2> QED BY <2>1, <2>2 DEF Indices
<1> HIDE DEF i
<1>5. busy'[q] = i /\ \A e \in Engines \ {q} : busy'[e] = busy[e]
    BY <1>1, <1>2
<1>6. JobsAreOutstanding' /\ SlotIsEmpty'
    <2>1. busy'[Core] = busy[Core]
        BY <1>2, <1>5
    <2> QED BY <1>1, <1>2, <1>3, <2>1 DEF MachineInv, JobsAreOutstanding, SlotIsEmpty, Core, Processor!Core
<1>7. FetchedAreKnown' /\ EnginesWorkInOrder'
    <2>1. busy'[Core] = busy[Core]
        BY <1>2, <1>5
    <2>2. FetchedAreKnown'
        BY <1>1, <1>2, <1>3, <2>1 DEF MachineInv, FetchedAreKnown, Core, Processor!Core
    <2>3. ASSUME NEW r \in Queues, busy'[r] # 0 PROVE jobs[r] # <<>> /\ busy'[r] = Head(jobs[r])
        <3>1. CASE r = q
            BY <1>1, <1>5, <3>1 DEF i
        <3>2. CASE r # q
            BY <1>2, <1>3, <1>5, <2>3, <3>2 DEF MachineInv, EnginesWorkInOrder
        <3> QED BY <3>1, <3>2
    <2> QED BY <1>1, <1>2, <1>3, <2>1, <2>2, <2>3
            DEF MachineInv, EnginesWorkInOrder, Core, Processor!Core
<1>8. LatchedIsCurrent'
    <2> SUFFICES ASSUME NEW e \in Engines, NEW b, b = busy'[e], b # 0
                 PROVE  latched'[b] = [c \in CellsRead(program[b]) |-> mem[c]]
        BY <1>1, <1>3 DEF LatchedIsCurrent, Engines, Processor!Engines, Processor!Core,
                          Processor!Queues
    <2>1. CASE e = q
        BY <1>1, <1>2, <1>4, <1>5, <2>1
    <2>2. CASE e # q
        <3>1. b = busy[e]
            BY <1>5, <2>2
        <3>2. latched[b] = [c \in CellsRead(program[b]) |-> mem[c]]
            BY <1>2, <1>3, <3>1 DEF MachineInv, LatchedIsCurrent
        <3>3. b # i
            BY <1>4, <2>2, <3>1, BusyFacts
        <3> QED BY <1>1, <1>2, <3>2, <3>3
    <2> QED BY <2>1, <2>2
<1>9. /\ pc' \in Nat \ {0} /\ pc' <= Len(stream) + 1
      /\ jobs' \in [Queues -> Seq(Indices)] /\ finished' \subseteq Indices
      /\ DOMAIN latched' = Indices /\ DOMAIN mem' = AllCells(program)
      /\ \A j \in finished' : Position(j)' < pc'
    BY <1>1, <1>2, <1>3 DEF MachineInv
<1>10. busy' \in [Engines -> {0} \cup Indices]
    BY <1>1, <1>2, <1>4
<1> QED BY <1>3, <1>6, <1>7, <1>8, <1>9, <1>10
        DEF MachineInv, Engines, Processor!Engines, Processor!Queues, Processor!Core

\* A command that ends writes nothing that a running command has read, and
\* ends after everything it has a hazard with.
LEMMA CompleteFacts ==
    ASSUME ExecInv, phase = "done", UNCHANGED vars, NEW e \in Engines, Processor!Complete(e)
    PROVE  /\ busy[e] # 0 /\ busy[e] \in Indices /\ busy[e] \notin finished
           /\ busy' = [busy EXCEPT ![e] = 0] /\ finished' = finished \cup {busy[e]}
           /\ mem' = [c \in DOMAIN mem |->
                        IF c \in CellsWritten(program[busy[e]]) THEN busy[e] ELSE mem[c]]
           /\ seen' = [seen EXCEPT ![busy[e]] =
                        [c \in CellsRead(program[busy[e]]) |-> mem[c]]]
           /\ latched' = latched
           /\ \A j \in 1..(busy[e] - 1) : Hazard(program[j], program[busy[e]]) => j \in finished
           /\ LatchedIsCurrent'
           /\ \A j \in finished' : Position(j)' < pc
           /\ busy' \in [Engines -> {0} \cup Indices] /\ finished' \subseteq Indices
           /\ DOMAIN latched' = Indices /\ DOMAIN mem' = AllCells(program)
<1>1. PICK i : i = busy[e]
    OBVIOUS
<1>2. /\ i # 0 /\ busy' = [busy EXCEPT ![e] = 0] /\ finished' = finished \cup {i}
      /\ mem' = [c \in DOMAIN mem |-> IF c \in CellsWritten(program[i]) THEN i ELSE mem[c]]
      /\ seen' = [seen EXCEPT ![i] = latched[i]] /\ latched' = latched
    BY <1>1, CellsOfProcessor DEF Processor!Complete
<1>3. i \in Indices /\ i \notin finished /\ Position(i) < pc
    BY <1>1, <1>2, BusyFacts
<1>4. MachineInv /\ busy \in [Engines -> {0} \cup Indices] /\ program \in Seq(DecodedCommand)
      /\ Len(program) \in Nat
    BY DEF ExecInv, MachineInv, LoopInv, TypeOK
<1>5. /\ UNCHANGED <<program, phase, stream, emitted>>
      /\ \A j : Position(j)' = Position(j)
    BY StreamStays
<1>6. latched[i] = [c \in CellsRead(program[i]) |-> mem[c]]
    BY <1>1, <1>2, <1>4, <1>5 DEF MachineInv, LatchedIsCurrent
<1>7. ASSUME NEW j \in 1..(i - 1), Hazard(program[j], program[i]) PROVE j \in finished
    <2> SUFFICES ASSUME j \notin finished PROVE FALSE
        OBVIOUS
    <2>1. j \in Indices /\ i \in Nat /\ j \in Nat /\ j # i
        BY <1>3, <1>4 DEF Indices
    <2>2. Position(i) < Position(j)
        BY <1>1, <1>2, <1>7, <2>1, HazardsFinished
    <2>3. /\ Position(i) \in CommandRecords /\ stream[Position(i)].index = i
          /\ Position(j) \in CommandRecords /\ stream[Position(j)].index = j
        BY <1>3, <2>1, PositionFacts DEF ExecInv
    <2>4. Hazard(program[i], program[j])
        BY <1>7, HazardSymmetric
    <2>5. i < j
        BY <2>2, <2>3, <2>4 DEF ExecInv, StreamOrder, RecordsOrdered
    <2> QED BY <2>1, <2>5
<1>8. LatchedIsCurrent'
    <2> SUFFICES ASSUME NEW f \in Engines, NEW b, b = busy'[f], b # 0
                 PROVE  latched[b] = [c \in CellsRead(program[b]) |-> mem'[c]]
        BY <1>2, <1>5 DEF LatchedIsCurrent, Engines, Processor!Engines, Processor!Core,
                          Processor!Queues
    <2>1. f # e /\ b = busy[f]
        BY <1>2, <1>4
    <2>2. b \in Indices
        BY <2>1, BusyFacts
    <2>3. latched[b] = [c \in CellsRead(program[b]) |-> mem[c]]
        BY <1>4, <1>5, <2>1 DEF MachineInv, LatchedIsCurrent
    <2>4. ~Hazard(program[i], program[b])
        BY <1>1, <1>2, <2>1, ExecInvHasNoRace DEF NoDataRace, Engines
    <2>5. program[i] \in SemanticCommand /\ program[b] \in SemanticCommand
        BY <1>3, <1>4, <2>2, CommandFacts
    <2>6. ASSUME NEW c \in CellsRead(program[b]) PROVE mem'[c] = mem[c]
        <3>1. c \notin CellsWritten(program[i])
            BY <2>4, <2>5, SharedCellIsHazard
        <3>2. c \in DOMAIN mem
            <4>1. b \in DOMAIN program
                BY <1>4, <2>2 DEF Indices
            <4>2. c \in AllCells(program)
                BY <4>1 DEF AllCells
            <4> QED BY <1>4, <4>2 DEF MachineInv
        <3> QED BY <1>2, <3>1, <3>2
    <2> QED BY <2>3, <2>6
<1>9. \A j \in finished' : Position(j)' < pc
    BY <1>2, <1>3, <1>4, <1>5 DEF MachineInv
<1>10. /\ busy' \in [Engines -> {0} \cup Indices] /\ finished' \subseteq Indices
       /\ DOMAIN latched' = Indices /\ DOMAIN mem' = AllCells(program)
    BY <1>2, <1>3, <1>4 DEF MachineInv
<1> QED BY <1>1, <1>2, <1>3, <1>6, <1>7, <1>8, <1>9, <1>10

\* The core ends its command; the queues do not notice.
LEMMA EndRunStep ==
    ASSUME ExecInv, phase = "done", UNCHANGED vars, Processor!EndRun
    PROVE  MachineInv'
<1>1. /\ UNCHANGED <<pc, jobs>> /\ Processor!Complete(Core)
      /\ Engines = Queues \cup {Core} /\ Core \notin Queues /\ Core \in Engines
    BY CellsOfProcessor DEF Processor!EndRun, Core
<1>2. PICK i : i = busy[Core]
    OBVIOUS
<1>3. /\ i # 0 /\ i \in Indices /\ i \notin finished
      /\ busy' = [busy EXCEPT ![Core] = 0] /\ finished' = finished \cup {i}
      /\ LatchedIsCurrent' /\ \A j \in finished' : Position(j)' < pc
      /\ busy' \in [Engines -> {0} \cup Indices] /\ finished' \subseteq Indices
      /\ DOMAIN latched' = Indices /\ DOMAIN mem' = AllCells(program)
    BY <1>1, <1>2, CompleteFacts
<1>4. MachineInv /\ busy \in [Engines -> {0} \cup Indices]
    BY DEF ExecInv, MachineInv
<1>5. /\ UNCHANGED <<program, phase, stream, emitted>>
      /\ Indices' = Indices /\ CommandRecords' = CommandRecords
      /\ \A j : Position(j)' = Position(j) /\ (IsSpatz(j)' <=> IsSpatz(j))
      /\ \A r, m, n : WaitBetween(r, m, n)' <=> WaitBetween(r, m, n)
    BY StreamStays
<1>6. busy'[Core] = 0 /\ \A q \in Queues : busy'[q] = busy[q]
    BY <1>1, <1>3, <1>4
<1>7. stream[Position(i)].op = "run"
    BY <1>1, <1>2, <1>3, BusyFacts
<1>8. JobsAreOutstanding'
    <2>1. ASSUME NEW q \in Queues, NEW k \in DOMAIN jobs[q] PROVE jobs[q][k] # i
        <3>1. stream[Position(jobs[q][k])].op = "submit"
            BY JobFacts
        <3> QED BY <1>7, <3>1
    <2> QED BY <1>1, <1>3, <1>4, <1>5, <2>1 DEF MachineInv, JobsAreOutstanding
<1>9. FetchedAreKnown'
    <2> SUFFICES ASSUME NEW j \in Indices, Position(j) < pc
                 PROVE  \/ j \in finished'
                        \/ \E q \in Queues : \E k \in DOMAIN jobs[q] : jobs[q][k] = j
        BY <1>1, <1>5 DEF FetchedAreKnown
    <2> QED BY <1>2, <1>3, <1>4, <1>5 DEF MachineInv, FetchedAreKnown
<1>10. EnginesWorkInOrder' /\ SlotIsEmpty'
    BY <1>1, <1>4, <1>5, <1>6
       DEF MachineInv, EnginesWorkInOrder, SlotIsEmpty, Core, Processor!Core
<1>11. /\ pc' \in Nat \ {0} /\ pc' <= Len(stream) + 1 /\ jobs' \in [Queues -> Seq(Indices)]
       /\ \A j \in finished' : Position(j)' < pc'
    BY <1>1, <1>3, <1>4, <1>5 DEF MachineInv
<1> QED BY <1>3, <1>5, <1>8, <1>9, <1>10, <1>11
        DEF MachineInv, Engines, Processor!Engines, Processor!Queues, Processor!Core

\* An engine ends the front job of its queue and takes it off.
LEMMA EndJobStep ==
    ASSUME ExecInv, phase = "done", UNCHANGED vars, NEW q \in Queues, Processor!EndJob(q)
    PROVE  MachineInv'
<1>1. /\ pc' = pc /\ jobs' = [jobs EXCEPT ![q] = Tail(@)] /\ Processor!Complete(q)
      /\ Engines = Queues \cup {Core} /\ Core \notin Queues /\ q \in Engines
    BY CellsOfProcessor DEF Processor!EndJob
<1>2. PICK i : i = busy[q]
    OBVIOUS
<1>3. /\ i # 0 /\ i \in Indices /\ i \notin finished
      /\ busy' = [busy EXCEPT ![q] = 0] /\ finished' = finished \cup {i}
      /\ LatchedIsCurrent' /\ \A j \in finished' : Position(j)' < pc
      /\ busy' \in [Engines -> {0} \cup Indices] /\ finished' \subseteq Indices
      /\ DOMAIN latched' = Indices /\ DOMAIN mem' = AllCells(program)
    BY <1>1, <1>2, CompleteFacts
<1>4. /\ MachineInv /\ busy \in [Engines -> {0} \cup Indices]
      /\ jobs \in [Queues -> Seq(Indices)] /\ pc \in Nat
    BY DEF ExecInv, MachineInv
<1>5. /\ UNCHANGED <<program, phase, stream, emitted>>
      /\ Indices' = Indices /\ CommandRecords' = CommandRecords
      /\ \A j : Position(j)' = Position(j) /\ (IsSpatz(j)' <=> IsSpatz(j))
      /\ \A r, m, n : WaitBetween(r, m, n)' <=> WaitBetween(r, m, n)
    BY StreamStays
<1>6. busy'[q] = 0 /\ busy'[Core] = busy[Core] /\ \A r \in Queues \ {q} : busy'[r] = busy[r]
    BY <1>1, <1>3, <1>4
<1>7. /\ jobs[q] # <<>> /\ 1 \in DOMAIN jobs[q] /\ jobs[q][1] = i
      /\ stream[Position(i)].op = "submit" /\ stream[Position(i)].queue = q
    BY <1>1, <1>2, <1>3, BusyFacts
<1>8. /\ jobs' \in [Queues -> Seq(Indices)]
      /\ \A r \in Queues \ {q} : jobs'[r] = jobs[r]
      /\ DOMAIN jobs'[q] = 1..(Len(jobs[q]) - 1) /\ Len(jobs[q]) \in Nat
      /\ DOMAIN jobs[q] = 1..Len(jobs[q])
      /\ \A k \in 1..(Len(jobs[q]) - 1) : jobs'[q][k] = jobs[q][k + 1]
    <2>1. jobs[q] \in Seq(Indices) /\ jobs[q] # <<>>
        BY <1>4, <1>7
    <2>2. jobs'[q] = Tail(jobs[q]) /\ Tail(jobs[q]) \in Seq(Indices)
        BY <1>1, <1>4, <2>1
    <2>3. Len(jobs[q]) \in Nat \ {0} /\ Len(Tail(jobs[q])) = Len(jobs[q]) - 1
        BY <2>1
    <2>4. \A r \in Queues \ {q} : jobs'[r] = jobs[r]
        BY <1>1, <1>4
    <2>5. jobs' \in [Queues -> Seq(Indices)]
        BY <1>1, <1>4, <2>2
    <2>6. \A k \in 1..(Len(jobs[q]) - 1) : Tail(jobs[q])[k] = jobs[q][k + 1]
        BY <2>1
    <2>7. DOMAIN Tail(jobs[q]) = 1..(Len(jobs[q]) - 1) /\ DOMAIN jobs[q] = 1..Len(jobs[q])
        BY <2>1, <2>2, <2>3
    <2> QED BY <2>2, <2>3, <2>4, <2>5, <2>6, <2>7
<1>9. \* the jobs left are jobs from before, in the same order, without the first
      ASSUME NEW r \in Queues, NEW k \in DOMAIN jobs'[r]
      PROVE  \E l \in DOMAIN jobs[r] :
                /\ jobs'[r][k] = jobs[r][l] /\ l = (IF r = q THEN k + 1 ELSE k)
                /\ jobs[r][l] # i
    <2>1. CASE r = q
        <3>1. k + 1 \in DOMAIN jobs[q] /\ jobs'[q][k] = jobs[q][k + 1] /\ 1 < k + 1
            BY <1>8, <2>1
        <3>2. jobs[q][k + 1] # i
            <4>1. Position(jobs[q][1]) < Position(jobs[q][k + 1])
                BY <1>7, <3>1, JobFacts
            <4>2. Position(jobs[q][1]) \in Nat
                BY <1>7, JobFacts
            <4> QED BY <1>7, <4>1, <4>2
        <3> QED BY <2>1, <3>1, <3>2
    <2>2. CASE r # q
        <3>1. k \in DOMAIN jobs[r] /\ jobs'[r][k] = jobs[r][k]
            BY <1>8, <2>2
        <3>2. stream[Position(jobs[r][k])].queue = r
            BY <3>1, JobFacts
        <3> QED BY <1>7, <2>2, <3>1, <3>2
    <2> QED BY <2>1, <2>2
<1>10. JobsAreOutstanding'
    <2>1. ASSUME NEW r \in Queues, NEW k \in DOMAIN jobs'[r], NEW j, j = jobs'[r][k]
          PROVE  /\ Position(j) < pc /\ j \notin finished'
                 /\ stream[Position(j)].op = "submit" /\ stream[Position(j)].queue = r
                 /\ ~WaitBetween(r, Position(j), pc)
        <3>1. PICK l \in DOMAIN jobs[r] : j = jobs[r][l] /\ j # i
            BY <1>9, <2>1
        <3> QED BY <1>3, <3>1, JobFacts
    <2>2. ASSUME NEW r \in Queues, NEW k \in DOMAIN jobs'[r], NEW l \in DOMAIN jobs'[r], k < l
          PROVE  Position(jobs'[r][k]) < Position(jobs'[r][l])
        <3>1. CASE r = q
            <4>1. /\ k + 1 \in DOMAIN jobs[r] /\ jobs'[r][k] = jobs[r][k + 1]
                  /\ l + 1 \in DOMAIN jobs[r] /\ jobs'[r][l] = jobs[r][l + 1]
                  /\ k + 1 < l + 1
                BY <1>8, <2>2, <3>1
            <4> QED BY <4>1, JobFacts
        <3>2. CASE r # q
            <4>1. jobs'[r] = jobs[r]
                BY <1>8, <3>2
            <4> QED BY <2>2, <4>1, JobFacts
        <3> QED BY <3>1, <3>2
    <2> QED BY <1>1, <1>5, <2>1, <2>2 DEF JobsAreOutstanding
<1>11. FetchedAreKnown'
    <2> SUFFICES ASSUME NEW j \in Indices, Position(j) < pc
                 PROVE  \/ j \in finished' \/ j = busy[Core]
                        \/ \E r \in Queues : \E k \in DOMAIN jobs'[r] : jobs'[r][k] = j
        BY <1>1, <1>5, <1>6 DEF FetchedAreKnown, Core, Processor!Core
    <2>1. \/ j \in finished \/ j = busy[Core]
          \/ \E r \in Queues : \E k \in DOMAIN jobs[r] : jobs[r][k] = j
        BY <1>4, <1>5 DEF MachineInv, FetchedAreKnown
    <2>2. CASE \E r \in Queues : \E k \in DOMAIN jobs[r] : jobs[r][k] = j
        <3>1. PICK r \in Queues : \E k \in DOMAIN jobs[r] : jobs[r][k] = j
            BY <2>2
        <3>2. PICK k \in DOMAIN jobs[r] : jobs[r][k] = j
            BY <3>1
        <3>3. CASE r # q
            BY <1>8, <3>2, <3>3
        <3>4. CASE r = q /\ k = 1
            BY <1>3, <1>7, <3>2, <3>4
        <3>5. CASE r = q /\ k # 1
            <4>1. k - 1 \in 1..(Len(jobs[q]) - 1) /\ (k - 1) + 1 = k
                BY <1>8, <3>5
            <4> QED BY <1>8, <3>2, <3>5, <4>1
        <3> QED BY <3>3, <3>4, <3>5
    <2> QED BY <1>3, <2>1, <2>2
<1>12. EnginesWorkInOrder'
    <2>1. \A r \in Queues : busy'[r] # 0 => jobs'[r] # <<>> /\ busy'[r] = Head(jobs'[r])
        BY <1>4, <1>5, <1>6, <1>8 DEF MachineInv, EnginesWorkInOrder
    <2>2. busy[Core] # 0 =>
            /\ busy[Core] \notin finished'
            /\ Position(busy[Core]) = pc - 1 /\ stream[pc - 1].op = "run"
        <3>1. busy[Core] # 0 =>
                /\ busy[Core] \notin finished
                /\ Position(busy[Core]) = pc - 1 /\ stream[pc - 1].op = "run"
            BY <1>4, <1>5 DEF MachineInv, EnginesWorkInOrder
        <3> QED BY <1>3, <1>7, <3>1
    <2> QED BY <1>1, <1>5, <1>6, <2>1, <2>2 DEF EnginesWorkInOrder, Core, Processor!Core
<1>13. SlotIsEmpty'
    <2> SUFFICES ASSUME busy[Core] # 0, IsSpatz(busy[Core]) PROVE jobs'[SystolicQueue] = <<>>
        BY <1>5, <1>6 DEF SlotIsEmpty, Core, Processor!Core
    <2>1. jobs[SystolicQueue] = <<>> /\ SystolicQueue \in Queues
        BY <1>4, <1>5 DEF MachineInv, SlotIsEmpty, Queues, SystolicQueue
    <2> QED BY <1>7, <1>8, <2>1
<1>14. /\ pc' \in Nat \ {0} /\ pc' <= Len(stream) + 1
       /\ \A j \in finished' : Position(j)' < pc'
    BY <1>1, <1>3, <1>4, <1>5 DEF MachineInv
<1> QED BY <1>3, <1>5, <1>8, <1>10, <1>11, <1>12, <1>13, <1>14
        DEF MachineInv, Engines, Processor!Engines, Processor!Queues, Processor!Core

-----------------------------------------------------------------------------
(* The invariant of the whole.                                             *)

\* Nothing has been fetched before the scheduler is done.
LEMMA ExecInitHolds == ExecInit => ExecInv
<1> SUFFICES ASSUME ExecInit PROVE ExecInv
    OBVIOUS
<1>1. LoopInv /\ StreamInv
    BY InitLoop DEF ExecInit, Init, StreamInv, RecordsOf
<1>2. StreamOrder
    BY DEF ExecInit, Init, StreamOrder, RecordsArePending, RecordsOrdered, SpatzIsAlone,
           CommandRecords
<1>3. /\ pc = 1 /\ jobs = [q \in Queues |-> <<>>] /\ busy = [e \in Engines |-> 0]
      /\ latched = [i \in Indices |-> <<>>] /\ finished = {}
      /\ mem = [c \in Processor!AllCells(program) |-> 0] /\ phase # "done"
    BY CellsOfProcessor DEF ExecInit, Processor!Init, Engines, Init
<1>4. Processor!AllCells(program) = AllCells(program)
    BY CellsOfProcessor DEF Processor!AllCells, AllCells
<1>5. Idle
    BY <1>3 DEF Idle
<1> QED BY <1>1, <1>2, <1>3, <1>4, <1>5 DEF ExecInv, MachineInv

PositionsPositive == phase = "done" => \A i \in Indices : Position(i) \in Nat \ {0}

\* No record of a finished stream lies before its first.
LEMMA PositionsArePositive == LoopInv /\ StreamInv /\ StreamOrder => PositionsPositive
BY PositionFacts DEF PositionsPositive

\* The scheduler's steps leave the machine idle.
LEMMA SchedulerStepIdles ==
    ASSUME ExecInv, Next, UNCHANGED machineVars
    PROVE  MachineInv'
<1>1. phase = "schedule" /\ program' = program
    BY UrgentIsUnblocked DEF Next, InsertWait, Drain, Wait, Finish
<1>2. MachineInv /\ Idle /\ UNCHANGED <<pc, jobs, busy, latched, finished, mem, seen>>
    BY <1>1 DEF ExecInv, MachineInv, machineVars
<1>3. Indices' = Indices
    BY <1>1 DEF Indices
<1>4. Idle'
    BY <1>2 DEF Idle, Engines, Processor!Engines, Processor!Queues, Processor!Core
<1>5. phase' = "done" =>
        /\ JobsAreOutstanding' /\ FetchedAreKnown' /\ EnginesWorkInOrder'
        /\ LatchedIsCurrent' /\ SlotIsEmpty'
    <2>1. \A q \in Queues : DOMAIN jobs'[q] = {}
        BY <1>4 DEF Idle
    <2>2. Core \in Engines /\ \A e \in Engines : busy'[e] = 0
        BY <1>4, CellsOfProcessor DEF Idle, Engines, Processor!Engines, Processor!Queues,
                                      Processor!Core
    <2>3. \A q \in Queues : q \in Engines
        BY CellsOfProcessor
    <2>4. JobsAreOutstanding' /\ EnginesWorkInOrder' /\ LatchedIsCurrent' /\ SlotIsEmpty'
        BY <2>1, <2>2, <2>3 DEF JobsAreOutstanding, EnginesWorkInOrder, LatchedIsCurrent,
              SlotIsEmpty, Engines, Processor!Engines, Processor!Queues, Core, Processor!Core
    <2>5. ASSUME phase' = "done" PROVE FetchedAreKnown'
        <3>1. LoopInv' /\ StreamInv' /\ StreamOrder'
            BY LoopStep, StreamStep, StreamOrderStep DEF ExecInv
        <3>2. PositionsPositive'
            BY <3>1, PositionsArePositive, PTL
        <3>3. pc' = 1
            BY <1>4 DEF Idle
        <3> QED BY <2>5, <3>2, <3>3 DEF PositionsPositive, FetchedAreKnown
    <2> QED BY <2>4, <2>5
<1>6. pc' = 1 /\ finished' = {} /\ Len(stream') \in Nat
    <2>1. LoopInv'
        BY LoopStep DEF ExecInv
    <2>2. Len(stream') \in Nat
        BY <2>1 DEF LoopInv, TypeOK
    <2> QED BY <1>4, <2>2 DEF Idle
<1>7. /\ jobs' \in [Queues -> Seq(Indices)] /\ busy' \in [Engines -> {0} \cup Indices]
      /\ DOMAIN latched' = Indices /\ DOMAIN mem' = AllCells(program')
    BY <1>1, <1>2 DEF MachineInv
<1> QED BY <1>3, <1>4, <1>5, <1>6, <1>7
        DEF MachineInv, Engines, Processor!Engines, Processor!Queues, Processor!Core

\* Every step of the compiler and of the machine keeps the invariant.
LEMMA ExecStep == ExecInv /\ [ExecNext]_allVars => ExecInv'
<1> SUFFICES ASSUME ExecInv, [ExecNext]_allVars PROVE ExecInv'
    OBVIOUS
<1>1. CASE Next /\ UNCHANGED machineVars
    BY <1>1, LoopStep, StreamStep, StreamOrderStep, SchedulerStepIdles DEF ExecInv
<1>2. CASE Executes(Processor!Next)
    <2>1. phase = "done" /\ UNCHANGED vars /\ Processor!Next
        BY <1>2 DEF Executes
    <2>2. MachineInv'
        <3>1. ASSUME NEW q \in Processor!Queues, Processor!StartJob(q) \/ Processor!EndJob(q)
              PROVE  MachineInv'
            <4>1. q \in Queues
                BY CellsOfProcessor
            <4> QED BY <2>1, <3>1, <4>1, StartJobStep, EndJobStep
        <3>2. CASE Processor!Fetch
            BY <2>1, <3>2, FetchSubmitStep, FetchWaitStep, FetchRunStep DEF Processor!Fetch
        <3>3. CASE Processor!EndRun
            BY <2>1, <3>3, EndRunStep
        <3> QED BY <2>1, <3>1, <3>2, <3>3 DEF Processor!Next
    <2> QED BY <2>1, <2>2, LoopStep, StreamStep, StreamOrderStep DEF ExecInv
<1>3. CASE UNCHANGED allVars
    <2>1. UNCHANGED vars /\ UNCHANGED <<pc, jobs, busy, latched, finished, mem, seen>>
        BY <1>3 DEF allVars, machineVars
    <2>2. /\ UNCHANGED <<program, phase, stream, emitted>>
          /\ Indices' = Indices
          /\ \A i : Position(i)' = Position(i) /\ (IsSpatz(i)' <=> IsSpatz(i))
          /\ \A q, m, n : WaitBetween(q, m, n)' <=> WaitBetween(q, m, n)
        BY <2>1, StreamStays
    <2>3. Idle' <=> Idle
        BY <2>1 DEF Idle, Engines, Processor!Engines, Processor!Queues, Processor!Core
    <2>4. JobsAreOutstanding => JobsAreOutstanding'
        BY <2>1, <2>2 DEF JobsAreOutstanding
    <2>5. FetchedAreKnown => FetchedAreKnown'
        BY <2>1, <2>2 DEF FetchedAreKnown, Core, Processor!Core
    <2>6. EnginesWorkInOrder => EnginesWorkInOrder'
        BY <2>1, <2>2 DEF EnginesWorkInOrder, Core, Processor!Core
    <2>7. LatchedIsCurrent => LatchedIsCurrent'
        BY <2>1, <2>2 DEF LatchedIsCurrent, Engines, Processor!Engines, Processor!Queues,
                          Processor!Core
    <2>8. SlotIsEmpty => SlotIsEmpty'
        BY <2>1, <2>2 DEF SlotIsEmpty, Core, Processor!Core
    <2>9. MachineInv'
        BY <2>1, <2>2, <2>3, <2>4, <2>5, <2>6, <2>7, <2>8
           DEF ExecInv, MachineInv, Engines, Processor!Engines, Processor!Queues, Processor!Core
    <2> QED BY <2>1, <2>9, LoopStep, StreamStep, StreamOrderStep DEF ExecInv
<1> QED BY <1>1, <1>2, <1>3 DEF ExecNext

\* The invariant holds throughout.
THEOREM ExecCorrect == ExecSpec => []ExecInv
BY ExecInitHolds, ExecStep, PTL DEF ExecSpec

-----------------------------------------------------------------------------
(* The properties.                                                         *)

\* Type correctness of the machine's variables.
THEOREM ExecTypeCorrect == ExecSpec => []ExecTypeOK
<1>1. ExecInv => ExecTypeOK
    <2> SUFFICES ASSUME ExecInv PROVE ExecTypeOK
        OBVIOUS
    <2>1. Len(stream) \in Nat /\ Len(program) \in Nat
        BY DEF ExecInv, LoopInv, TypeOK
    <2>2. MachineInv
        BY DEF ExecInv
    <2>3. pc \in 1..(Len(stream) + 1)
        BY <2>1, <2>2 DEF MachineInv, Idle
    <2>4. {0} \cup Indices = 0..Len(program)
        BY <2>1 DEF Indices
    <2> QED BY <2>2, <2>3, <2>4 DEF MachineInv, ExecTypeOK, Engines
<1> QED BY <1>1, ExecCorrect, PTL

\* No two engines ever work at once on commands whose order can be observed.
THEOREM RaceFree == ExecSpec => []NoDataRace
BY ExecInvHasNoRace, ExecCorrect, PTL

\* Spatz never runs beside an outstanding linebuffer job (queuesBlocking).
THEOREM SpatzRunsAlone == ExecSpec => []NoSpatzBesideLinebuffer
<1>1. ExecInv => NoSpatzBesideLinebuffer
    BY DEF ExecInv, MachineInv, SlotIsEmpty, Idle, NoSpatzBesideLinebuffer, Core, Engines,
           Processor!Engines, Processor!Queues, Queues, SystolicQueue
<1> QED BY <1>1, ExecCorrect, PTL

\* The compiler's part of the execution is an execution of the scheduler, so
\* what is proved of the scheduler holds of it.
THEOREM ExecutionSchedules == ExecSpec => Spec
<1>1. [ExecNext]_allVars => [Next]_vars
    BY DEF ExecNext, allVars, Executes
<1>2. ExecInit => Init
    BY DEF ExecInit
<1> QED BY <1>1, <1>2, PTL DEF ExecSpec, Spec

\* Every step of the machine executes one command of the blocking stream, in an
\* order that keeps its hazards, or is not seen by the commands.
LEMMA ExecRefines == ExecInv /\ [ExecNext]_allVars => [Blocking!Next]_(Blocking!vars)
<1> SUFFICES ASSUME ExecInv, [ExecNext]_allVars
             PROVE  Blocking!Next \/ UNCHANGED <<program, finished, mem, seen>>
    BY DEF Blocking!vars
<1>1. CASE Next /\ UNCHANGED machineVars
    <2>1. program' = program
        BY <1>1, UrgentIsUnblocked DEF Next, InsertWait, Drain, Wait, Finish
    <2> QED BY <1>1, <2>1 DEF machineVars
<1>2. CASE UNCHANGED allVars
    BY <1>2 DEF allVars, vars, machineVars
<1>3. CASE Executes(Processor!Next)
    <2>1. phase = "done" /\ UNCHANGED vars /\ Processor!Next /\ program' = program
        BY <1>3 DEF Executes, vars
    <2>2. ASSUME NEW e \in Engines, Processor!Complete(e) PROVE Blocking!Next
        <3>1. PICK i : i = busy[e]
            OBVIOUS
        <3>2. /\ i \in Indices /\ i \notin finished /\ finished' = finished \cup {i}
              /\ mem' = [c \in DOMAIN mem |-> IF c \in CellsWritten(program[i]) THEN i ELSE mem[c]]
              /\ seen' = [seen EXCEPT ![i] = [c \in CellsRead(program[i]) |-> mem[c]]]
              /\ \A j \in 1..(i - 1) : Hazard(program[j], program[i]) => j \in finished
            BY <2>1, <2>2, <3>1, CompleteFacts
        <3>3. /\ \A c : Blocking!CellsRead(c) = CellsRead(c)
              /\ \A c : Blocking!CellsWritten(c) = CellsWritten(c)
              /\ \A c, d : Blocking!Hazard(c, d) <=> Hazard(c, d)
              /\ Blocking!Indices = Indices
            BY BlockingOperators
        <3>4. Blocking!Execute(i)
            BY <2>1, <3>2, <3>3 DEF Blocking!Execute
        <3> QED BY <3>2, <3>3, <3>4 DEF Blocking!Next
    <2>3. CASE Processor!Fetch
        BY <2>1, <2>3 DEF Processor!Fetch, Processor!FetchSubmit, Processor!FetchWait,
                          Processor!FetchRun
    <2>4. CASE Processor!EndRun
        BY <2>2, <2>4, CellsOfProcessor DEF Processor!EndRun, Core
    <2>5. ASSUME NEW q \in Processor!Queues, Processor!StartJob(q) \/ Processor!EndJob(q)
          PROVE  Blocking!Next \/ UNCHANGED <<program, finished, mem, seen>>
        <3>1. CASE Processor!StartJob(q)
            BY <2>1, <3>1 DEF Processor!StartJob
        <3>2. CASE Processor!EndJob(q)
            BY <2>2, <3>2, CellsOfProcessor DEF Processor!EndJob
        <3> QED BY <2>5, <3>1, <3>2
    <2> QED BY <2>1, <2>3, <2>4, <2>5 DEF Processor!Next
<1> QED BY <1>1, <1>2, <1>3 DEF ExecNext

\* The machine starts where the blocking stream does.
LEMMA ExecStarts == ExecInit => Blocking!Start
<1> SUFFICES ASSUME ExecInit PROVE Blocking!Start
    OBVIOUS
<1>1. /\ finished = {} /\ mem = [c \in Processor!AllCells(program) |-> 0]
      /\ seen = [i \in Processor!Indices |-> <<>>]
    BY DEF ExecInit, Processor!Init
<1>2. Blocking!AllCells(program) = Processor!AllCells(program)
    BY CellsOfProcessor, BlockingOperators DEF Blocking!AllCells, Processor!AllCells
<1>3. Blocking!Indices = Processor!Indices
    BY CellsOfProcessor, BlockingOperators
<1> QED BY <1>1, <1>2, <1>3 DEF Blocking!Start

\* The machine's behaviours are behaviours of the blocking stream, over decoded
\* commands.
LEMMA ExecIsBlocking == ExecSpec => Blocking!Safety /\ program \in Seq(SemanticCommand)
<1>1. ExecInv => program \in Seq(SemanticCommand)
    <2> SUFFICES ASSUME ExecInv PROVE program \in Seq(SemanticCommand)
        OBVIOUS
    <2>1. program \in Seq(DecodedCommand)
        BY ProgramsAssumption DEF ExecInv, LoopInv, TypeOK
    <2>2. \A i \in 1..Len(program) : program[i] \in SemanticCommand
        BY <2>1 DEF DecodedCommand
    <2> QED BY <2>1, <2>2
<1>2. ExecSpec => Blocking!Safety
    BY ExecStarts, ExecRefines, ExecCorrect, PTL DEF ExecSpec, Blocking!Safety
<1> QED BY <1>1, <1>2, ExecCorrect, PTL

\* The asynchronous execution of every scheduled stream is an execution of the
\* blocking stream it was made from, and shows every command the inputs of the
\* sequential execution.
THEOREM ImplementsBlocking == ExecSpec => ImplementsBlockingStream
BY ExecIsBlocking, SequentialInputs, PTL DEF ImplementsBlockingStream

\* Whenever the machine has run every command, the memory and the configuration
\* state are those that the blocking stream leaves.
THEOREM EndsAsBlocking == ExecSpec => []Blocking!EndsSequential
BY ExecIsBlocking, SequentialEnd, PTL

=============================================================================
