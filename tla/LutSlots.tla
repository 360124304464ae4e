------------------------------ MODULE LutSlots -------------------------------
(***************************************************************************)
(* The lookup tables of an Ethos-U85 command stream                        *)
(* (ethos_u85_register_cs_generator.cpp): one pass over the high level     *)
(* commands gives each operation a slot of the LUT memory and inserts the  *)
(* transfers that load it; the commands then run, branches included.       *)
(***************************************************************************)
EXTENDS Integers, Sequences, FiniteSetsExt, SequencesExt

CONSTANTS
    LutStreams, \* command streams: "stripe" with the table operations of its group, "branch", "target"
    Table,     \* per operation, its table (memory and address)
    Units,     \* per operation, the slots its table takes
    TotalSlots

VARIABLES
    stream,    \* the commands
    next,      \* the next of them to rewrite; its index is the timestamp
    slots,     \* lutSlots: [table, units, lastUsed] per slot
    opSlot,    \* _opToLutSlot
    code,      \* the commands with the transfers inserted
    lutPc,     \* the command that runs next; 0 while the stream is rewritten
    memory     \* what the LUT memory holds: a table and a part of it, per slot

lutVars == <<stream, next, slots, opSlot, code, lutPc, memory>>

Slots == 0..(TotalSlots - 1)
Nothing == <<"nothing", 0>>

-----------------------------------------------------------------------------
(* AllocateLutSlot                                                         *)

Heads(op) == {i \in Slots : i % Units[op] = 0}

Residents(ss, op) == {i \in Heads(op) : ss[i].table = Table[op] /\ ss[i].units = Units[op]}

\* mutated: of equally old slots the last is taken
LeastRecentLast(ss, op) ==
    Max({i \in Heads(op) : \A j \in Heads(op) : ss[i].lastUsed <= ss[j].lastUsed})

\* Of the slots that have gone unused the longest, the first.
LeastRecent(ss, op) ==
    Min({i \in Heads(op) : \A j \in Heads(op) : ss[i].lastUsed <= ss[j].lastUsed})

IsFound(ss, op) == Residents(ss, op) # {}

AllocatedSlot(ss, op) ==
    IF IsFound(ss, op) THEN Min(Residents(ss, op)) ELSE LeastRecent(ss, op)

Claimed(ss, op, slot) ==
    [i \in Slots |-> IF i \in slot..(slot + Units[op] - 1)
                     THEN [table |-> Table[op], units |-> Units[op], lastUsed |-> next]
                     ELSE ss[i]]

\* CreateLUTDMA
WithTable(s, op) ==
    LET slot == AllocatedSlot(s.slots, op)
    IN  [slots |-> Claimed(s.slots, op, slot),
         opSlot |-> [s.opSlot EXCEPT ![op] = slot],
         code |-> IF IsFound(s.slots, op) THEN s.code
                  ELSE Append(s.code, [type |-> "load", op |-> op, slot |-> slot])]

-----------------------------------------------------------------------------
(* InsertLUTDMACommands                                                    *)

LutInit ==
    /\ stream \in LutStreams
    /\ next = 1
    /\ slots = [i \in Slots |-> [table |-> "none", units |-> 0, lastUsed |-> 0]]
    /\ opSlot = [op \in DOMAIN Table |-> 0]
    /\ code = <<>>
    /\ lutPc = 0
    /\ memory = [i \in Slots |-> Nothing]

InsertLUTDMACommands ==
    /\ lutPc = 0 /\ next <= Len(stream)
    /\ LET cmd == stream[next]
           start == [slots |-> slots, opSlot |-> opSlot, code |-> code]
           done == IF cmd.type = "stripe" THEN FoldLeft(WithTable, start, cmd.ops) ELSE start
       IN  slots' = done.slots /\ opSlot' = done.opSlot /\ code' = Append(done.code, cmd)
    /\ next' = next + 1
    /\ UNCHANGED <<stream, lutPc, memory>>

LutStart ==
    /\ lutPc = 0 /\ next > Len(stream)
    /\ lutPc' = 1
    /\ UNCHANGED <<stream, next, slots, opSlot, code, memory>>

-----------------------------------------------------------------------------
(* The commands as they run; the waits order a transfer and the stripes    *)
(* around it (NpuWaits)                                                    *)

IsLutAt(type) == lutPc \in DOMAIN code /\ code[lutPc].type = type

Load ==
    /\ IsLutAt("load")
    /\ memory' = [i \in Slots |->
            IF i \in code[lutPc].slot..(code[lutPc].slot + Units[code[lutPc].op] - 1)
            THEN <<Table[code[lutPc].op], i - code[lutPc].slot>> ELSE memory[i]]
    /\ lutPc' = lutPc + 1
    /\ UNCHANGED <<stream, next, slots, opSlot, code>>

RunStripe ==
    /\ IsLutAt("stripe") \/ IsLutAt("target")
    /\ lutPc' = lutPc + 1
    /\ UNCHANGED <<stream, next, slots, opSlot, code, memory>>

Branch ==
    /\ IsLutAt("branch")
    /\ lutPc' \in {i \in DOMAIN code : code[i].type = "target" /\ code[i].label \in code[lutPc].targets}
    /\ UNCHANGED <<stream, next, slots, opSlot, code, memory>>

LutNext == InsertLUTDMACommands \/ LutStart \/ Load \/ RunStripe \/ Branch

LutSpec == LutInit /\ [][LutNext]_lutVars

-----------------------------------------------------------------------------
(* Properties                                                              *)

HoldsTable(op, slot) == \A k \in 0..(Units[op] - 1) : memory[slot + k] = <<Table[op], k>>

\* A table is addressed by its size: the slot of an operation is a multiple
\* of its units (the assertions on tableIndex) and its end is in the memory.
LutTypeOK ==
    /\ next \in 1..(Len(stream) + 1)
    /\ lutPc \in 0..(Len(code) + 1)
    /\ \A op \in DOMAIN Table : opSlot[op] % Units[op] = 0 /\ opSlot[op] + Units[op] <= TotalSlots
    /\ \A i \in Slots : slots[i].lastUsed < next

\* Every operation of a stripe that runs finds its table in its slot, in
\* particular where no transfer was inserted because "LUT is already in SHRAM".
TableIsLoaded ==
    IsLutAt("stripe") => \A i \in DOMAIN code[lutPc].ops : HoldsTable(code[lutPc].ops[i], opSlot[code[lutPc].ops[i]])

=============================================================================
