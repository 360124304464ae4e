-------------------------- MODULE GlobalScheduler --------------------------
(***************************************************************************)
(* ScheduleGlobalCommandStream of neural_ai_command_scheduler.cpp: a list  *)
(* scheduler that turns one blocking stream and its dependency graph into  *)
(* a stream of submits, blocking commands and waits.  A submitted command  *)
(* sits in the queue of its engine (pending) until a wait empties that     *)
(* queue; the loop picks, among the ready commands no queue blocks and no  *)
(* predicted bank penalty defers, the most urgent one, and inserts a wait  *)
(* when there is none.                                                     *)
(*                                                                         *)
(* Statistics and the encodings of the emitted records are left out: an    *)
(* entry of stream says which record is emitted.                           *)
(***************************************************************************)
EXTENDS CommandIR, FiniteSetsExt

CONSTANTS
    Programs,        \* the decoded streams considered
    InfiniteCycles   \* where cycle arithmetic saturates

ASSUME ProgramsAssumption == Programs \subseteq Seq(DecodedCommand)
ASSUME InfiniteCyclesAssumption == InfiniteCycles \in Nat

VARIABLES
    program,         \* the blocking stream
    deps,            \* its dependency edges
    criticalPath,    \* per command, the longest path to the end of the stream
    phase,           \* "schedule", "done" or "failed"
    indegree,        \* per command, its predecessors not yet emitted
    ready,           \* commands with indegree 0 that are not emitted
    emitted,         \* commands emitted so far
    pending,         \* per queue, the submitted commands no wait has covered
    stream,          \* the emitted records
    currentTime,     \* the estimated clock
    queueTail,       \* per queue, when its last job completes
    startTime,       \* per command, when its engine starts it
    completionTime   \* per command, when its engine completes it

vars == <<program, deps, criticalPath, phase, indegree, ready, emitted, pending, stream,
          currentTime, queueTail, startTime, completionTime>>
clock == <<currentTime, queueTail, startTime, completionTime>>

Indices == 1..Len(program)

-----------------------------------------------------------------------------
(* Predicates of the records                                               *)

Uses(i, resource) == resource \in program[i].resources

IsDMA(i)      == Uses(i, "DMAExternalToLocal") \/ Uses(i, "DMALocalToExternal")
IsSystolic(i) == Uses(i, "Systolic")
IsSpatz(i)    == Uses(i, "Spatz")

\* mutated: whatever follows a DMA in any queue needs no wait
IssueOrdersAcrossQueues(p, s) ==
    program[p].asyncCapable /\ program[s].asyncCapable /\ IsDMA(p) /\ IsDMA(s)

\* mutated: the successor of a submitted command needs no wait
IssueOrdersSubmitted(p, s) == program[p].asyncCapable

\* Only a hardware FIFO turns issue order into completion order.
IssueOrders(p, s) ==
    /\ program[p].asyncCapable /\ program[s].asyncCapable
    /\ IsDMA(p) /\ IsDMA(s)
    /\ program[p].queueId = program[s].queueId

AsyncQueue(i) ==
    IF IsDMA(i) /\ program[i].queueId \in {ExternalToLocal, LocalToExternal}
    THEN program[i].queueId
    ELSE IF IsSystolic(i) /\ program[i].queueId = 0 THEN SystolicQueue
    ELSE NoQueue

Predecessors(i) == {e[1] : e \in {d \in deps : d[2] = i}}
Successors(i)   == {e[2] : e \in {d \in deps : d[1] = i}}

CompletionPredecessors(i) == {p \in Predecessors(i) : ~IssueOrders(p, i)}

Entry(op, index, queue) == [op |-> op, index |-> index, queue |-> queue]

-----------------------------------------------------------------------------
(* Saturating cycle arithmetic and estimates                               *)

Larger(x, y)  == IF x > y THEN x ELSE y
Smaller(x, y) == IF x < y THEN x ELSE y

SaturatingAdd(x, y) == IF y > InfiniteCycles - x THEN InfiniteCycles ELSE x + y
SaturatingMultiply(x, y) ==
    IF x * y > InfiniteCycles THEN InfiniteCycles ELSE x * y

Cycles(i) == Larger(1, program[i].cycles)

CriticalPath ==
    LET path[i \in Indices] ==
            SaturatingAdd(Cycles(i), Max({0} \cup {path[s] : s \in Successors(i)}))
    IN  path

TCDMPhaseConflicts(i, j) ==
    LET left  == program[i].accesses
        right == program[j].accesses
    IN  Cardinality({p \in (DOMAIN left) \X (DOMAIN right) :
            /\ left[p[1]].bankPhase # NoPhase
            /\ left[p[1]].bankPhase = right[p[2]].bankPhase})

-----------------------------------------------------------------------------
(* Choosing the next command                                               *)

PendingIn(q) == {pending[q][k] : k \in DOMAIN pending[q]}
Pending == UNION {PendingIn(q) : q \in Queues}
Completed == emitted \ Pending

\* mutated: no test for a full queue
QueuesBlockingUnbounded(i) ==
    {q \in Queues :
        \/ program[i].controlFence /\ pending[q] # <<>>
        \/ CompletionPredecessors(i) \cap PendingIn(q) # {}
        \/ q = SystolicQueue /\ (IsSystolic(i) \/ IsSpatz(i)) /\ pending[q] # <<>>}

\* mutated: only systolic commands wait for the systolic slot
QueuesBlockingSystolic(i) ==
    {q \in Queues :
        \/ program[i].controlFence /\ pending[q] # <<>>
        \/ CompletionPredecessors(i) \cap PendingIn(q) # {}
        \/ q = SystolicQueue /\ IsSystolic(i) /\ pending[q] # <<>>
        \/ q = AsyncQueue(i) /\ Len(pending[q]) >= program[i].queueCapacity}

QueuesBlocking(i) ==
    {q \in Queues :
        \/ program[i].controlFence /\ pending[q] # <<>>
        \/ CompletionPredecessors(i) \cap PendingIn(q) # {}
        \/ q = SystolicQueue /\ (IsSystolic(i) \/ IsSpatz(i)) /\ pending[q] # <<>>
        \/ q = AsyncQueue(i) /\ Len(pending[q]) >= program[i].queueCapacity}

\* When command i, run now, and the outstanding job a would both be at work.
OverlapFrom(a)     == Larger(currentTime, startTime[a])
OverlapUntil(i, a) == Smaller(SaturatingAdd(currentTime, Cycles(i)), completionTime[a])
Overlapping(i)     == {a \in Pending : OverlapFrom(a) < OverlapUntil(i, a)}

HiddenCycles(i) == Max({0} \cup {OverlapUntil(i, a) - currentTime : a \in Overlapping(i)})

PredictedStall(i) ==
    LET stall(a) == SaturatingAdd(SaturatingMultiply(OverlapUntil(i, a) - OverlapFrom(a),
                                      TCDMPhaseConflicts(i, a)), Banks - 1) \div Banks
    IN  MapThenFoldSet(SaturatingAdd, 0, stall,
                       LAMBDA S : CHOOSE a \in S : TRUE, Overlapping(i))

BankPenaltyRejects(i) ==
    /\ Pending # {}
    /\ HiddenCycles(i) > 0
    /\ PredictedStall(i) > 0
    /\ PredictedStall(i) >= HiddenCycles(i)

CanOverlapAfter(i, candidate) ==
    /\ ~program[candidate].controlFence
    /\ ~(IsSystolic(i) /\ (IsSystolic(candidate) \/ IsSpatz(candidate)))
    /\ i \notin CompletionPredecessors(candidate)
    /\ TCDMPhaseConflicts(i, candidate) < Banks

HasOverlapOpportunity(i) ==
    \/ \E c \in ready \ {i} : CanOverlapAfter(i, c)
    \/ \E s \in Successors(i) :
          CanOverlapAfter(i, s) /\ Predecessors(s) \subseteq emitted \cup {i}

Unblocked  == {i \in ready : QueuesBlocking(i) = {}}
Candidates == {i \in Unblocked : ~BankPenaltyRejects(i)}

Priority(i) ==
    IF Pending = {}
    THEN IF program[i].asyncCapable /\ HasOverlapOpportunity(i)
         THEN InfiniteCycles - i ELSE -i
    ELSE criticalPath[i]

\* The order of preference among equals is the order of the stream.
MostUrgent(i, S, urgency) ==
    /\ i \in S
    /\ \A j \in S : urgency[j] < urgency[i] \/ (urgency[j] = urgency[i] /\ i <= j)

BusyQueues == {q \in Queues : pending[q] # <<>>}

\* The queue blocking the most urgent blocked command, or else the queue
\* that drains first.
WaitsFor(q) ==
    LET blockedReady == {i \in ready : QueuesBlocking(i) \cap BusyQueues # {}}
        soonness     == [r \in Queues |-> -queueTail[r]]
    IN  IF blockedReady # {}
        THEN \E i \in blockedReady :
                MostUrgent(i, blockedReady, criticalPath)
                    /\ q = Min(QueuesBlocking(i) \cap BusyQueues)
        ELSE MostUrgent(q, BusyQueues, soonness)

-----------------------------------------------------------------------------
(* The loop                                                                *)

\* The input must not hold submits or waits already.
IsBlockingStream(prog) ==
    \A i \in 1..Len(prog) : prog[i].type \notin {"DMAWait", "SystolicWait"}

Init ==
    /\ program \in Programs
    /\ deps = DependencyEdges(program)
    /\ criticalPath = CriticalPath
    /\ phase = IF IsBlockingStream(program) THEN "schedule" ELSE "failed"
    /\ indegree = [i \in Indices |-> Cardinality(Predecessors(i))]
    /\ ready = {i \in Indices : indegree[i] = 0}
    /\ emitted = {}
    /\ pending = [q \in Queues |-> <<>>]
    /\ stream = <<>>
    /\ currentTime = 0
    /\ queueTail = [q \in Queues |-> 0]
    /\ startTime = [i \in Indices |-> 0]
    /\ completionTime = [i \in Indices |-> 0]

\* mutated: the counter is tested before it is decremented
EmittingTestsFirst(i) ==
    /\ indegree' = [s \in Indices |->
            IF s \in Successors(i) THEN indegree[s] - 1 ELSE indegree[s]]
    /\ ready' = (ready \ {i}) \cup {s \in Successors(i) : indegree[s] = 0}
    /\ emitted' = emitted \cup {i}

\* What emitting a command does whichever way it is emitted.
Emitting(i) ==
    /\ indegree' = [s \in Indices |->
            IF s \in Successors(i) THEN indegree[s] - 1 ELSE indegree[s]]
    /\ ready' = (ready \ {i}) \cup {s \in Successors(i) : indegree'[s] = 0}
    /\ emitted' = emitted \cup {i}

Submits(i) ==
    /\ program[i].asyncCapable
    /\ AsyncQueue(i) # NoQueue
    /\ Pending # {} \/ HasOverlapOpportunity(i)

\* SubmitType has a form for every command that decodes as asyncCapable (DMAs
\* and linebuffer jobs), so its error path is not modelled.
Submit(i) ==
    LET q     == AsyncQueue(i)
        start == Larger(currentTime, queueTail[q])
    IN  /\ Submits(i)
        /\ Emitting(i)
        /\ stream' = Append(stream, Entry("submit", i, q))
        /\ pending' = [pending EXCEPT ![q] = Append(@, i)]
        /\ startTime' = [startTime EXCEPT ![i] = start]
        /\ completionTime' = [completionTime EXCEPT ![i] = SaturatingAdd(start, Cycles(i))]
        /\ queueTail' = [queueTail EXCEPT ![q] = SaturatingAdd(start, Cycles(i))]
        /\ currentTime' = SaturatingAdd(currentTime, 1)
        /\ UNCHANGED phase

Run(i) ==
    /\ ~Submits(i)
    /\ Emitting(i)
    /\ stream' = Append(stream, Entry("run", i, NoQueue))
    /\ currentTime' = SaturatingAdd(currentTime, Cycles(i))
    /\ UNCHANGED <<phase, pending, queueTail, startTime, completionTime>>

Emit(i) ==
    /\ phase = "schedule"
    /\ MostUrgent(i, Candidates, [j \in Candidates |-> Priority(j)])
    /\ Submit(i) \/ Run(i)
    /\ UNCHANGED <<program, deps, criticalPath>>

\* A wait covers every job of its queue.
Wait(q) ==
    LET tail == Larger(currentTime, queueTail[q])
    IN  /\ stream' = Append(stream, Entry("wait", 0, q))
        /\ pending' = [pending EXCEPT ![q] = <<>>]
        /\ currentTime' = SaturatingAdd(currentTime, Larger(1, tail - currentTime))
        /\ queueTail' = [queueTail EXCEPT ![q] = currentTime']
        /\ UNCHANGED <<program, deps, criticalPath, phase, indegree, ready, emitted,
                       startTime, completionTime>>

InsertWait(q) ==
    /\ phase = "schedule"
    /\ emitted # Indices
    /\ Candidates = {}
    /\ BusyQueues # {}
    /\ WaitsFor(q)
    /\ Wait(q)

\* After the loop the queues are emptied in order.
Drain(q) ==
    /\ phase = "schedule"
    /\ emitted = Indices
    /\ q \in BusyQueues /\ \A r \in BusyQueues : q <= r
    /\ Wait(q)

\* With nothing to emit and nothing to wait for, the stream is complete or the
\* scheduler "found no ready command".
Finish ==
    /\ phase = "schedule"
    /\ Candidates = {}
    /\ BusyQueues = {}
    /\ phase' = IF emitted = Indices THEN "done" ELSE "failed"
    /\ UNCHANGED <<program, deps, criticalPath, indegree, ready, emitted, pending,
                   stream, clock>>

Next ==
    \/ \E i \in Indices : Emit(i)
    \/ \E q \in Queues : InsertWait(q) \/ Drain(q)
    \/ Finish

Spec == Init /\ [][Next]_vars /\ WF_vars(Next)

-----------------------------------------------------------------------------
(* Properties *)

\* The loop's variables keep their types, and no estimate of the clock passes
\* the saturation limit (SaturatingAdd at every place a time is computed).
TypeOK ==
    /\ program \in Seq(DecodedCommand)
    /\ deps \in SUBSET (Indices \X Indices)
    /\ phase \in {"schedule", "done", "failed"}
    /\ indegree \in [Indices -> Nat]
    /\ ready \in SUBSET Indices
    /\ emitted \in SUBSET Indices
    /\ pending \in [Queues -> Seq(Indices)]
    /\ stream \in Seq([op : {"run", "submit", "wait"}, index : Nat, queue : Queues \cup {NoQueue}])
    /\ currentTime \in 0..InfiniteCycles
    /\ queueTail \in [Queues -> 0..InfiniteCycles]
    /\ startTime \in [Indices -> 0..InfiniteCycles]
    /\ completionTime \in [Indices -> 0..InfiniteCycles]

InFifoOrder(i, j) ==
    \E q \in {ExternalToLocal, LocalToExternal} :
        \E m, n \in DOMAIN pending[q] : m < n /\ pending[q][m] = i /\ pending[q][n] = j

\* A command is emitted only when everything it must follow in the blocking
\* stream has been seen to complete, by a wait or by having run to the end, or
\* precedes it in the same DMA queue (queuesBlocking, emitWait, IssueOrders).
RespectsHazards ==
    \A i, j \in Indices :
        i < j /\ j \in emitted /\ Hazard(program[i], program[j]) =>
            i \in Completed \/ InFifoOrder(i, j)

\* Never more jobs outstanding than an engine's queue has entries, and every
\* job in the queue of its own engine.
QueuesWithinCapacity ==
    \A q \in Queues :
        /\ Len(pending[q]) <= IF q = SystolicQueue THEN 1 ELSE DMAQueueDepth
        /\ \A i \in PendingIn(q) : AsyncQueue(i) = q

\* Each emitted command is in the output stream exactly once, and the finished
\* stream holds every command of the input.
EmitsEachCommandOnce ==
    /\ \A i \in Indices :
          Cardinality({k \in DOMAIN stream : stream[k].op # "wait" /\ stream[k].index = i})
              = IF i \in emitted THEN 1 ELSE 0
    /\ phase = "done" => emitted = Indices /\ Pending = {}

\* A ready command has nothing left to follow, and a command with nothing left
\* to follow is ready or emitted: the indegree counters never drift.
ReadyWhenUnlocked ==
    phase = "schedule" =>
        ready = {i \in Indices \ emitted : Predecessors(i) \subseteq emitted}

\* Quantization parameters are never reloaded while a linebuffer job that
\* reads them may still run: the scheduler's qparamPreloads stays 0.
NoQParamPreload ==
    [][\A i \in emitted' \ emitted :
          program[i].type = "RQLoad" => pending[SystolicQueue] = <<>>]_vars

\* A wait is emitted only for a queue with a job to wait for; emitWait takes
\* the front of the queue unchecked.
WaitsHaveAJob ==
    [][\A q \in Queues : stream' = Append(stream, Entry("wait", 0, q)) => pending[q] # <<>>]_vars

=============================================================================
