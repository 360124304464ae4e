-------------------------- MODULE CommandProcessor -------------------------
(***************************************************************************)
(* The NPU's command processor, which is not part of this repository,      *)
(* modelled from what the scheduler and the ABI rely on: firmware fetches  *)
(* the records of a stream in order; a submit appends its job to the       *)
(* in-order queue of a DMA direction or to the systolic slot and returns;  *)
(* a wait returns when its queue is empty; every other record runs on the  *)
(* core to completion before the next is fetched.  The engines advance on  *)
(* their own.  A job reads its inputs when its engine starts it and writes *)
(* its outputs when it ends.                                               *)
(***************************************************************************)
EXTENDS CommandIR

VARIABLES
    program,    \* the blocking stream, which names the jobs
    stream,     \* the scheduled records
    pc,         \* the next record to fetch
    jobs,       \* per queue, the submitted jobs that have not ended
    busy,       \* per engine, the job it is executing (0: none)
    latched,    \* per started job, the cells it read
    finished,   \* the jobs that have ended
    mem,        \* per cell, the job that wrote it last (0: none)
    seen        \* per ended job, the cells it read

state == <<pc, jobs, busy, latched, finished, mem, seen>>
vars == <<program, stream, state>>

Indices == 1..Len(program)
Core    == 3
Engines == Queues \cup {Core}

Init ==
    /\ pc = 1
    /\ jobs = [q \in Queues |-> <<>>]
    /\ busy = [e \in Engines |-> 0]
    /\ latched = [i \in Indices |-> <<>>]
    /\ finished = {}
    /\ mem = [c \in AllCells(program) |-> 0]
    /\ seen = [i \in Indices |-> <<>>]

Start(e, i) ==
    /\ busy[e] = 0
    /\ busy' = [busy EXCEPT ![e] = i]
    /\ latched' = [latched EXCEPT ![i] = [c \in CellsRead(program[i]) |-> mem[c]]]

Complete(e) ==
    LET i == busy[e]
    IN  /\ i # 0
        /\ busy' = [busy EXCEPT ![e] = 0]
        /\ finished' = finished \cup {i}
        /\ mem' = [c \in DOMAIN mem |-> IF c \in CellsWritten(program[i]) THEN i ELSE mem[c]]
        /\ seen' = [seen EXCEPT ![i] = latched[i]]
        /\ UNCHANGED <<program, stream, latched>>

Fetching(op) ==
    /\ pc <= Len(stream)
    /\ busy[Core] = 0
    /\ stream[pc].op = op
    /\ pc' = pc + 1

FetchSubmit ==
    /\ Fetching("submit")
    /\ jobs' = [jobs EXCEPT ![stream[pc].queue] = Append(@, stream[pc].index)]
    /\ UNCHANGED <<program, stream, busy, latched, finished, mem, seen>>

FetchWait ==
    /\ Fetching("wait")
    /\ jobs[stream[pc].queue] = <<>>
    /\ UNCHANGED <<program, stream, jobs, busy, latched, finished, mem, seen>>

FetchRun ==
    /\ Fetching("run")
    /\ Start(Core, stream[pc].index)
    /\ UNCHANGED <<program, stream, jobs, finished, mem, seen>>

EndRun == Complete(Core) /\ UNCHANGED <<pc, jobs>>

StartJob(q) ==
    /\ jobs[q] # <<>>
    /\ Start(q, Head(jobs[q]))
    /\ UNCHANGED <<program, stream, pc, jobs, finished, mem, seen>>

EndJob(q) ==
    /\ Complete(q)
    /\ jobs' = [jobs EXCEPT ![q] = Tail(@)]
    /\ UNCHANGED pc

Fetch == FetchSubmit \/ FetchWait \/ FetchRun
Next == Fetch \/ EndRun \/ \E q \in Queues : StartJob(q) \/ EndJob(q)

=============================================================================
