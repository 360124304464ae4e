--------------------------- MODULE BlockingStream --------------------------
(***************************************************************************)
(* What a blocking command stream means, whoever executes it: every        *)
(* command runs atomically, after every earlier command it has a hazard    *)
(* with.  Commands without a hazard may run in any order.                  *)
(*                                                                         *)
(* A cell holds the number of the command that wrote it last, so two       *)
(* executions that agree on the cells agree on the data whatever the       *)
(* commands compute.                                                       *)
(***************************************************************************)
EXTENDS CommandIR

VARIABLES
    program,   \* the stream, in its blocking order
    done,      \* the commands executed
    mem,       \* per cell, the command that wrote it last (0: none)
    seen       \* per executed command, what it found in the cells it reads

vars == <<program, done, mem, seen>>

Indices == 1..Len(program)

Execute(i) ==
    /\ i \notin done
    /\ \A j \in 1..(i - 1) : Hazard(program[j], program[i]) => j \in done
    /\ done' = done \cup {i}
    /\ seen' = [seen EXCEPT ![i] = [c \in CellsRead(program[i]) |-> mem[c]]]
    /\ mem' = [c \in DOMAIN mem |-> IF c \in CellsWritten(program[i]) THEN i ELSE mem[c]]
    /\ UNCHANGED program

Start ==
    /\ done = {}
    /\ mem = [c \in AllCells(program) |-> 0]
    /\ seen = [i \in Indices |-> <<>>]

Next == \E i \in Indices : Execute(i)
Safety == Start /\ [][Next]_vars

-----------------------------------------------------------------------------
(* Properties *)

\* The variables keep their types: cells name commands of the stream that have
\* run, and what a command has seen is known once it has run.
TypeOK ==
    /\ done \in SUBSET Indices
    /\ mem \in [AllCells(program) -> {0} \cup done]
    /\ \A i \in Indices \ done : seen[i] = <<>>

\* The last command before i, in blocking order, that writes the cell.
WriterBefore(i, c) ==
    CHOOSE w \in 0..(i - 1) :
        /\ w > 0 => c \in CellsWritten(program[w])
        /\ \A x \in (w + 1)..(i - 1) : c \notin CellsWritten(program[x])

\* Every executed command found what the strictly sequential execution of the
\* stream would have shown it, in memory and in every configuration state.
SeesSequentialInputs ==
    \A i \in done : \A c \in CellsRead(program[i]) : seen[i][c] = WriterBefore(i, c)

\* When every command has run, every cell holds what the sequential execution
\* leaves in it.
EndsSequential ==
    done = Indices => \A c \in DOMAIN mem : mem[c] = WriterBefore(Len(program) + 1, c)

=============================================================================
