--------------------------- MODULE CommandPasses ---------------------------
(***************************************************************************)
(* OptimizeGlobalCommandSchedule of neural_ai_command_generator.cpp up to  *)
(* the scheduler: the decoded stream goes through DMAResidency, then the   *)
(* two passes of StateResidency, and BuildCommandDependencyGraph draws the *)
(* edges of what is left and annotates its contents.  Each pass works on   *)
(* what the pass before it made of the stream; a failed one ends it all.   *)
(***************************************************************************)
EXTENDS DependencyGraph    \* its program is the stream the passes leave

VARIABLES
    input, visited, transfers, kept, failed, inputMem, outputMem,   \* of DMAResidency
    pass, rewritten, programmed, origin,                            \* of StateResidency
    annotated, access, stored, generation, content, words           \* of ContentAnnotation

loadVars    == <<input, visited, transfers, kept, failed, inputMem, outputMem>>
stateVars   == <<pass, rewritten, programmed, origin>>
contentVars == <<annotated, access, stored, generation, content, words>>
graphVars   == <<current, edges, lastFence, lastWriter, readers>>
passVars    == <<loadVars, stateVars, contentVars, vars>>

Loads == INSTANCE DMAResidency WITH
             program <- input, current <- visited, resident <- transfers

\* DecodeSemanticCommandStream checks every copy.
ASSUME CopiesAssumption == Programs \subseteq Loads!DecodedStreams

\* The stream OptimizeDMAResidency returns.
KeptStream == [k \in DOMAIN kept |-> input[kept[k]]]

States == INSTANCE StateResidency WITH
              program <- KeptStream, current <- rewritten, resident <- programmed,
              output <- program

\* ... and names the state each command uses.
ASSUME UsersAssumption == Programs \subseteq States!StateStreams

Contents == INSTANCE ContentAnnotation WITH current <- annotated

PassInit ==
    /\ Loads!Init
    /\ pass = "qparam" /\ rewritten = 1 /\ programmed = 0 /\ origin = <<>>
    /\ program = <<>> /\ current = 1 /\ edges = {} /\ lastFence = 0
    /\ lastWriter = [key \in StateKeys |-> 0]
    /\ readers = [key \in StateKeys |-> {}]
    /\ annotated = 0 /\ access = 1 /\ content = <<>> /\ words = <<>>
    /\ stored = [s \in Regions |-> <<>>] /\ generation = [s \in Regions |-> 0]

DropLoads ==
    /\ Loads!Visit
    /\ UNCHANGED <<stateVars, contentVars, vars>>

DropStateLoads ==
    /\ visited > Len(input) /\ ~failed
    /\ UNCHANGED <<loadVars, contentVars, graphVars>>
    /\ States!Next

DrawEdges ==
    /\ pass = "done"
    /\ Visit
    /\ UNCHANGED <<loadVars, stateVars, contentVars>>

StartAnnotation ==
    /\ pass = "done" /\ current > Len(program) /\ annotated = 0
    /\ annotated' = 1
    /\ content' = [i \in DOMAIN program |-> <<>>]
    /\ words' = [w \in Contents!WordsOf(program) |-> Contents!Initial(w[1])]
    /\ UNCHANGED <<loadVars, stateVars, vars, access, stored, generation>>

AnnotateContent ==
    /\ annotated > 0
    /\ Contents!Next
    /\ UNCHANGED <<loadVars, stateVars, graphVars>>

PassNext ==
    \/ DropLoads \/ DropStateLoads
    \/ DrawEdges \/ StartAnnotation \/ AnnotateContent

PassSpec == PassInit /\ [][PassNext]_passVars

-----------------------------------------------------------------------------
(* Properties *)

\* Dropping loads never shows in any word of any memory, whatever part of the
\* stream has run, and what counts as resident is there (OptimizeDMAResidency).
SameMemory == Loads!SameMemory /\ Loads!ResidentTransfersHold

\* The commands the two state passes leave find the parameters and the tables
\* they find in the stream before them, lookups that reuse a table included.
SeesSameState == States!SeesSameState /\ States!ReusesExactlyResidentTables

\* Every read of the final stream is annotated with what each word holds and
\* with no more slices than that takes, from spans that say of every word who
\* wrote it last (AnnotateContent).
ReadsAreAnnotatedExactly ==
    /\ Contents!ReadsAreAnnotatedExactly
    /\ [](annotated > 0 => Contents!StoredContentIsExact)

=============================================================================
