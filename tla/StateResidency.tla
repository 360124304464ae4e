-------------------------- MODULE StateResidency ---------------------------
(***************************************************************************)
(* OptimizeQParamResidency, then OptimizeAFULutResidency                   *)
(* (neural_ai_command_scheduler.cpp): two passes over a stream that drop   *)
(* an RQ_LOAD of the parameter block already programmed, and turn an AFU   *)
(* lookup whose table is already in the LUT banks into a reusing one.      *)
(*                                                                         *)
(* The qparam pass rewrites the stream in place into output; the LUT pass  *)
(* edits output command by command.  Identities stand for the blocks and   *)
(* the tables: both live in the read-only model data, so an identity has   *)
(* one content.                                                            *)
(***************************************************************************)
EXTENDS CommandIR

CONSTANT Programs   \* the decoded streams considered

\* What decoding fixes of the users of the two states: RQ_LOAD is the only
\* writer of the parameters and writes nothing else, and a lookup either brings
\* its table as its third access and fills the banks, or reads them.
IsDecodedUser(c) ==
    /\ c.type = "RQLoad" => c.writes = {Quantization}
    /\ Quantization \in c.writes => c.type = "RQLoad"
    /\ c.type = "AFULut" =>
          /\ Len(c.accesses) = IF c.reuse THEN 2 ELSE 3
          /\ AFULutBanks \in IF c.reuse THEN c.reads \ c.writes ELSE c.writes \ c.reads

StateStreams == {s \in Seq(SemanticCommand) : \A i \in DOMAIN s : IsDecodedUser(s[i])}

VARIABLES
    program,    \* the input stream
    pass,       \* "qparam", "lut", "done" or "failed"
    current,    \* the command the pass visits next
    resident,   \* the identity the pass knows to be programmed (0: none)
    origin,     \* per output command, its number in the input stream
    output      \* the rewritten stream

vars == <<program, pass, current, resident, origin, output>>

Init ==
    /\ program \in Programs
    /\ pass = "qparam"
    /\ current = 1
    /\ resident = 0
    /\ origin = <<>>
    /\ output = <<>>

-----------------------------------------------------------------------------
(* The qparam pass                                                         *)

KeepCommand(c) ==
    /\ output' = Append(output, c)
    /\ origin' = Append(origin, current)

VisitQParam ==
    /\ pass = "qparam"
    /\ current <= Len(program)
    /\ LET c == program[current]
       IN  IF c.type # "RQLoad"
           THEN KeepCommand(c) /\ UNCHANGED <<pass, resident>>
           ELSE /\ pass' = IF c.identity = 0 THEN "failed" ELSE pass
                /\ resident' = c.identity
                /\ IF c.identity \in {0, resident}
                   THEN UNCHANGED <<output, origin>>
                   ELSE KeepCommand(c)
    /\ current' = current + 1
    /\ UNCHANGED program

StartLutPass ==
    /\ pass = "qparam"
    /\ current > Len(program)
    /\ pass' = "lut"
    /\ current' = 1
    /\ resident' = 0
    /\ UNCHANGED <<program, origin, output>>

-----------------------------------------------------------------------------
(* The LUT pass                                                            *)

\* The command without its table: it reads the LUT banks it used to fill.
Reusing(c) ==
    [c EXCEPT !.reuse = TRUE,
              !.accesses = SubSeq(@, 1, 2),
              !.reads = @ \cup {AFULutBanks},
              !.writes = @ \ {AFULutBanks}]

\* mutated: only another table replaces the resident one
ResidentUntilReplaced(c) == IF c.type = "AFULut" THEN c.identity ELSE resident

\* DFL16 and the unfused GlobalAvgPool also write the LUT banks.
ResidentAfter(c) ==
    IF c.type = "AFULut" THEN c.identity
    ELSE IF AFULutBanks \in c.writes THEN 0
    ELSE resident

InvalidReuse(c) ==
    c.type = "AFULut" /\ (c.identity = 0 \/ (c.reuse /\ c.identity # resident))

VisitLut ==
    /\ pass = "lut"
    /\ current <= Len(output)
    /\ LET c == output[current]
       IN  /\ pass' = IF InvalidReuse(c) THEN "failed" ELSE pass
           /\ resident' = ResidentAfter(c)
           /\ output' = IF c.type = "AFULut" /\ c.identity = resident /\ ~InvalidReuse(c)
                        THEN [output EXCEPT ![current] = Reusing(c)]
                        ELSE output
    /\ current' = current + 1
    /\ UNCHANGED <<program, origin>>

Finish ==
    /\ pass = "lut"
    /\ current > Len(output)
    /\ pass' = "done"
    /\ UNCHANGED <<program, current, resident, origin, output>>

Next == VisitQParam \/ StartLutPass \/ VisitLut \/ Finish
Spec == Init /\ [][Next]_vars

-----------------------------------------------------------------------------
(* What a stream leaves in the two states: the last command that wrote it,  *)
(* as the content that write leaves (the engines are not in this repository) *)

LastWriter(stream, i, key) ==
    LET writers == {w \in 1..(i - 1) : key \in stream[w].writes}
    IN  IF writers = {} THEN 0 ELSE CHOOSE w \in writers : \A x \in writers : x <= w

\* Tables and blocks are known by identity; other LUT users leave the banks in
\* a state of their own, named by the command in the input stream.
ContentAfter(stream, names, w) ==
    IF w = 0 THEN <<"unknown", 0>>
    ELSE IF stream[w].type \in {"RQLoad", "AFULut"} THEN <<"block", stream[w].identity>>
    ELSE <<"command", names[w]>>

Content(stream, names, i, key) == ContentAfter(stream, names, LastWriter(stream, i, key))

Identity(stream) == [i \in DOMAIN stream |-> i]

-----------------------------------------------------------------------------
(* Properties *)

\* The variables of the passes keep their types and origin names distinct
\* commands in stream order.
TypeOK ==
    /\ pass \in {"qparam", "lut", "done", "failed"}
    /\ current \in 1..(Len(program) + 1)
    /\ resident \in Nat
    /\ output \in Seq(SemanticCommand)
    /\ DOMAIN origin = DOMAIN output
    /\ \A k \in DOMAIN origin : origin[k] \in 1..Len(program)

\* Every kept command that reads the quantization parameters or the LUT banks
\* still finds what it finds in the input stream, and no command is lost but
\* loads of what is already programmed (both passes).
SeesSameState ==
    pass = "done" =>
        /\ \A k \in DOMAIN output : \A key \in {Quantization, AFULutBanks} :
              key \in program[origin[k]].reads =>
                  Content(output, origin, k, key)
                      = Content(program, Identity(program), origin[k], key)
        /\ \A i \in DOMAIN program :
              program[i].type # "RQLoad" => \E k \in DOMAIN origin : origin[k] = i

\* A lookup marked as reusing finds its own table in the LUT banks, and no
\* lookup fills them with a table they hold (OptimizeAFULutResidency).
ReusesExactlyResidentTables ==
    pass = "done" =>
        \A k \in DOMAIN output : output[k].type = "AFULut" =>
            (output[k].reuse <=>
                Content(output, origin, k, AFULutBanks) = <<"block", output[k].identity>>)

=============================================================================
