-------------------------------- MODULE Boot --------------------------------
(***************************************************************************)
(* The boot sequence (_start and PrepareKernel, main.cpp) and what the     *)
(* processor does with faults and interrupts meanwhile: the descriptor and *)
(* interrupt tables (Gdt.cpp, Interrupts.cpp), the three fault handlers    *)
(* (Faults.cpp) and the halt (done).                                       *)
(*                                                                         *)
(* The sequence is a list of statements.  AddHandler is one statement per  *)
(* field it writes, in the order of the source, because from the first     *)
(* lidt on the table is in use, and from the first sti on interrupts       *)
(* arrive.  A fault may happen at any statement and in the handlers, which *)
(* print through the loader's terminal.  A vector without a usable gate is *)
(* a fault of its own, as the processor's manual has it.                   *)
(***************************************************************************)
EXTENDS Integers, Sequences, FiniteSets

CONSTANTS
    HandlerAddress,     \* the addresses of the three handlers, by vector
    Word,               \* 2^16: the parts Offset0 and Offset1 of a gate hold
    Faults,             \* vectors of the faults that may happen
    Irqs,               \* vectors of the interrupts the controllers may send
    StackDepth          \* the handler calls the stack has room for

PF == 14
DF == 8
GP == 13
Vectors == 0 .. 255

VARIABLES
    step,               \* the statement of Program that comes next
    gdt, cr3, idtr,     \* whose tables are in use: "loader" or "kernel"
    gates,              \* IdtPage
    Enabled,            \* the interrupt flag
    unmasked,           \* interrupts the loader left unmasked
    mode,               \* "run", "handler", "halted", "reset" or "elsewhere"
    vector, at,         \* in a handler: the vector and the address entered
    depth               \* handlers in progress

vars == <<step, gdt, cr3, idtr, gates, Enabled, unmasked, mode, vector, at, depth>>

S(op, arg) == [op |-> op, arg |-> arg]

(* Faulty variant: the offset is written last. *)
AddHandlerOffsetLast(v) ==
    <<S("TypeAttribute", v), S("Selector", v), S("Offset0", v), S("Offset1", v), S("Offset2", v),
      S("lidt", v), S("sti", v)>>

AddHandler(v) ==
    <<S("Offset0", v), S("Offset1", v), S("Offset2", v), S("TypeAttribute", v), S("Selector", v),
      S("lidt", v), S("sti", v)>>

(* Faulty variant: no handler for double faults. *)
RegisterFaultsTwo == AddHandler(PF) \o AddHandler(GP)

RegisterFaults == AddHandler(PF) \o AddHandler(DF) \o AddHandler(GP)

PrepareKernel ==
    <<S("CreateGdt", 0), S("CreatePMM", 0), S("CreateIdt", 0)>> \o RegisterFaults \o
    <<S("CreatePTM", 0), S("CreateHeap", 0), S("memset", 0), S("GetAcpi", 0)>>

_start == <<S("terminal", 0)>> \o PrepareKernel \o <<S("puts", 0), S("k_puts_n", 0)>>

Op == _start[step].op

IntTA_Gate == 142

NoGate == [Offset0 |-> 0, Offset1 |-> 0, Offset2 |-> 0, TypeAttribute |-> 0, Selector |-> 0]

Init ==
    /\ step = 1
    /\ gdt = "loader" /\ cr3 = "loader" /\ idtr = "loader"
    /\ gates = [v \in Vectors |-> NoGate]
    /\ Enabled = FALSE
    /\ unmasked \in SUBSET Irqs
    /\ mode = "run"
    /\ vector = 0 /\ at = 0
    /\ depth = 0

-----------------------------------------------------------------------------

(* The parts of an offset, which AddHandler writes one by one. *)
SetInterruptOffset(gate, Offset) ==
    [gate EXCEPT !.Offset0 = Offset % Word, !.Offset1 = (Offset \div Word) % Word,
                 !.Offset2 = Offset \div (Word * Word)]

GetInterruptOffset(gate) == gate.Offset0 + Word * gate.Offset1 + Word * Word * gate.Offset2

Gate(v) ==
    [SetInterruptOffset(NoGate, HandlerAddress[v]) EXCEPT !.TypeAttribute = IntTA_Gate, !.Selector = 8]

(* The statements that change the gates. *)
Written ==
    LET v == _start[step].arg
    IN  IF Op \in DOMAIN NoGate THEN [gates EXCEPT ![v][Op] = Gate(v)[Op]] ELSE gates

(* A statement that ends as it should.  CreateGdt, CreatePTM and lidt load  *)
(* the processor's registers. *)
Statement ==
    /\ mode = "run"
    /\ step <= Len(_start)
    /\ gates' = Written
    /\ gdt' = IF Op = "CreateGdt" THEN "kernel" ELSE gdt
    /\ cr3' = IF Op = "CreatePTM" THEN "kernel" ELSE cr3
    /\ idtr' = IF Op = "lidt" THEN "kernel" ELSE idtr
    /\ Enabled' = (Enabled \/ Op = "sti")
    /\ step' = step + 1
    /\ UNCHANGED <<unmasked, mode, vector, at, depth>>

(* done: at the end, and where something that is needed is not there: the   *)
(* terminal, memory and the answers of the loader. *)
done ==
    /\ \/ mode = "run" /\ step > Len(_start)
       \/ mode = "run" /\ step <= Len(_start) /\ Op \in {"terminal", "CreatePTM", "CreateHeap", "GetAcpi"}
    /\ mode' = "halted"
    /\ UNCHANGED <<step, gdt, cr3, idtr, gates, Enabled, unmasked, vector, at, depth>>

(* OnPageFault, OnDoubleFault and OnGeneralProtectionFault, unless printing *)
(* faults: they call done. *)
Handler ==
    /\ mode = "handler"
    /\ mode' = "halted"
    /\ UNCHANGED <<step, gdt, cr3, idtr, gates, Enabled, unmasked, vector, at, depth>>

-----------------------------------------------------------------------------

(* The processor. *)

Usable(v) == gates[v].TypeAttribute = IntTA_Gate /\ gates[v].Selector = 8

(* A fault while one is delivered: after an interrupt or a fault like an    *)
(* invalid instruction it is delivered in its place, otherwise both make a  *)
(* double fault. *)
Benign(v) == v \notin {0, DF, 10, 11, 12, GP, PF}

Deliver(v, benign) ==
    LET taken == CHOOSE w \in {v, GP, DF, -1} :
                    IF Usable(v) THEN w = v
                    ELSE IF benign /\ Usable(GP) THEN w = GP
                    ELSE IF Usable(DF) THEN w = DF ELSE w = -1
    IN  /\ \/ /\ idtr = "loader"
              /\ mode' = "elsewhere"
              /\ UNCHANGED <<vector, at, depth, Enabled>>
           \/ /\ idtr = "kernel"
              /\ taken = -1 \/ depth = StackDepth
              /\ mode' = "reset"
              /\ UNCHANGED <<vector, at, depth, Enabled>>
           \/ /\ idtr = "kernel"
              /\ taken # -1 /\ depth < StackDepth
              /\ mode' = "handler"
              /\ vector' = taken
              /\ at' = GetInterruptOffset(gates[taken])
              /\ Enabled' = FALSE
              /\ depth' = depth + 1
        /\ UNCHANGED <<step, gdt, cr3, idtr, gates, unmasked>>

Fault(v) == mode \in {"run", "handler"} /\ Deliver(v, Benign(v))

Interrupt(v) == Enabled /\ v \in unmasked /\ mode \in {"run", "halted"} /\ Deliver(v, TRUE)

Next == Statement \/ done \/ Handler \/ (\E v \in Faults : Fault(v)) \/ (\E v \in Irqs : Interrupt(v))

Spec == Init /\ [][Next]_vars

-----------------------------------------------------------------------------

(* From the time the double fault has its handler, no fault and no stray    *)
(* interrupt resets the machine, although only three vectors ever have one: *)
(* it ends in one of the handlers.  (Between the first sti and that time    *)
(* they do reset it.)  The exception is a handler that faults itself,       *)
(* printing, until the stack is full (Faults.cpp, Interrupts.cpp:43). *)
FaultsCaught ==
    (mode = "reset" /\ \A i \in step .. Len(_start) : _start[i] # S("sti", DF)) =>
        depth = StackDepth

(* A handler that runs is the one registered for the vector, at its whole   *)
(* address and in the segment of the kernel's own table: never a gate that  *)
(* is half written (AddHandler, SetInterruptOffset). *)
RightHandler ==
    mode = "handler" => at = HandlerAddress[vector] /\ gdt = "kernel"

=============================================================================
