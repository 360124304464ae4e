------------------------- MODULE ScheduledExecution ------------------------
(***************************************************************************)
(* The scheduler composed with the machine its output is for: the compiler *)
(* schedules a blocking stream, then the command processor executes the    *)
(* result with its engines running concurrently.                           *)
(***************************************************************************)
EXTENDS GlobalScheduler

VARIABLES pc, jobs, busy, latched, finished, mem, seen

Processor == INSTANCE CommandProcessor

machineVars == <<pc, jobs, busy, latched, finished, mem, seen>>
allVars == <<vars, machineVars>>

ExecInit == Init /\ Processor!Init

\* The machine runs what the compiler has finished.
Executes(step) == phase = "done" /\ step /\ UNCHANGED vars

ExecNext ==
    \/ Next /\ UNCHANGED machineVars
    \/ Executes(Processor!Next)

\* The compiler ends, firmware fetches, and no engine idles or works for ever.
ExecSpec ==
    /\ ExecInit /\ [][ExecNext]_allVars
    /\ WF_vars(Next)
    /\ WF_allVars(Executes(Processor!Fetch))
    /\ WF_allVars(Executes(Processor!EndRun))
    /\ \A q \in Queues :
          /\ WF_allVars(Executes(Processor!StartJob(q)))
          /\ WF_allVars(Executes(Processor!EndJob(q)))

-----------------------------------------------------------------------------
(* Properties *)

\* The machine's own types: queues and engines hold jobs of the stream.
ExecTypeOK ==
    /\ pc \in 1..(Len(stream) + 1)
    /\ jobs \in [Queues -> Seq(Indices)]
    /\ busy \in [Processor!Engines -> 0..Len(program)]
    /\ finished \subseteq Indices

\* No two engines ever work at the same time on commands whose order matters:
\* the dependency graph, the scheduler's waits and the DMA FIFOs together
\* leave no pair of them overlapping.
NoDataRace ==
    \A e, f \in Processor!Engines :
        e # f /\ busy[e] # 0 /\ busy[f] # 0 =>
            ~Hazard(program[busy[e]], program[busy[f]])

\* Spatz loads and stores never run beside an outstanding linebuffer job, a
\* local-to-local DMA included (the comment in queuesBlocking).
NoSpatzBesideLinebuffer ==
    busy[Processor!Core] # 0 /\ IsSpatz(busy[Processor!Core]) => jobs[SystolicQueue] = <<>>

\* The asynchronous execution of the scheduled stream is an execution of the
\* blocking stream it was made from, and every command finds the inputs it
\* finds when the stream runs strictly in its order.
Blocking == INSTANCE BlockingStream WITH done <- finished
ImplementsBlockingStream == Blocking!Safety /\ []Blocking!SeesSequentialInputs

\* The scheduler finishes every blocking stream, and when the machine stops it
\* has run every command and left the memory and the configuration state the
\* blocking stream leaves.
MachineEnds ==
    IsBlockingStream(program) ~>
        [](finished = Indices /\ pc = Len(stream) + 1 /\ Blocking!EndsSequential)

=============================================================================
