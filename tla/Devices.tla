------------------------------ MODULE Devices -------------------------------
(***************************************************************************)
(* The search for devices at boot: GetAcpi (Acpi.cpp) goes through the     *)
(* tables of the XSDT, each MCFG table makes it call Pci::GetPci (IO.cpp), *)
(* which calls GetAcpi again and then walks the PCI buses, starting a      *)
(* driver for every AHCI function.  Each of the two functions has a static *)
(* variable that keeps it from running twice: GetAcpi's is set before it   *)
(* calls the other, GetPci's only when it has walked the buses.            *)
(*                                                                         *)
(* The configuration space is addressed in pages of 4096 bytes, one per    *)
(* function: 8 functions to a device and 32 devices to a bus.  What the    *)
(* firmware says is a machine: a record                                    *)
(*    [rsdp : is there one, length : of the XSDT, tables : its tables],    *)
(* where a table is [Signature, Length, items] and an item of an MCFG      *)
(* table is [BaseAddress, FirstBusIndex, LastBusIndex].                    *)
(***************************************************************************)
EXTENDS Integers, Sequences, SequencesExt

CONSTANTS
    Machines,
    Config(_, _),   \* what is at a page of a machine's configuration space:
                    \*   "none", "other" or "ahci"
    WordMod,        \* 2^64
    StackDepth      \* the calls that fit on the stack

HeaderSize == 36        \* sizeof(SdtHeader)
McfgSize == 44          \* sizeof(MCFG)
ItemSize == 16          \* sizeof(Acpi)

VARIABLES
    machine,
    stack,              \* the calls in progress, the last first
    AcpiData0,          \* is the static pointer set
    MCFG0,              \* AcpiData0->MCFG0: the position of a table, or 0
    IsReady,
    drivers,            \* the functions drivers were started for, in order
    end                 \* "no", "halted" (done) or "astray" (undefined)

vars == <<machine, stack, AcpiData0, MCFG0, IsReady, drivers, end>>

Init ==
    /\ machine \in Machines
    /\ stack = <<[at |-> "GetAcpi"]>>
    /\ AcpiData0 = FALSE
    /\ MCFG0 = 0
    /\ IsReady = FALSE
    /\ drivers = <<>>
    /\ end = "no"

Top(at) == end = "no" /\ stack # <<>> /\ stack[1].at = at
Replace(frame) == stack' = <<frame>> \o Tail(stack)
Astray == end' = "astray" /\ UNCHANGED stack

(* A call on top of the frame that goes on as then. *)
Call(at, then) ==
    IF Len(stack) < StackDepth
    THEN stack' = <<[at |-> at], then>> \o Tail(stack) /\ UNCHANGED end
    ELSE Astray

(* The number of entries a table's length stands for, in 64-bit arithmetic. *)
ItemCount(length, header, size) == ((length - header) % WordMod) \div size

-----------------------------------------------------------------------------

(* Faulty variant: the pointer is set once the tables have been searched. *)
GetAcpiLate ==
    /\ Top("GetAcpi")
    /\ IF AcpiData0 THEN stack' = Tail(stack) /\ UNCHANGED end
       ELSE IF machine.rsdp THEN Replace([at |-> "tables", Index |-> 0]) /\ UNCHANGED end
       ELSE end' = "halted" /\ UNCHANGED stack
    /\ UNCHANGED <<machine, AcpiData0, MCFG0, IsReady, drivers>>

(* The pointer is set before the tables are searched.  Without the          *)
(* firmware's pointer, or a page for the data, the kernel halts. *)
GetAcpi ==
    /\ Top("GetAcpi")
    /\ \/ AcpiData0 /\ stack' = Tail(stack) /\ UNCHANGED <<AcpiData0, end>>
       \/ /\ ~AcpiData0 /\ machine.rsdp
          /\ AcpiData0' = TRUE
          /\ Replace([at |-> "tables", Index |-> 0])
          /\ UNCHANGED end
       \/ ~AcpiData0 /\ end' = "halted" /\ UNCHANGED <<stack, AcpiData0>>
    /\ UNCHANGED <<machine, MCFG0, IsReady, drivers>>

SetMCFG(i) == MCFG0' = i

(* One table of the XSDT. *)
AcpiTable ==
    /\ Top("tables")
    /\ LET i == stack[1].Index + 1
       IN  IF i > ItemCount(machine.length, HeaderSize, 8)
           THEN stack' = Tail(stack) /\ UNCHANGED <<MCFG0, end>>
           ELSE IF i > Len(machine.tables) THEN Astray /\ UNCHANGED MCFG0
           ELSE IF machine.tables[i].Signature = "MCFG"
           THEN SetMCFG(i) /\ Call("GetPci", [at |-> "tables", Index |-> i])
           ELSE Replace([at |-> "tables", Index |-> i]) /\ UNCHANGED <<MCFG0, end>>
    /\ UNCHANGED <<machine, AcpiData0, IsReady, drivers>>

-----------------------------------------------------------------------------

(* Faulty variant: GetPci does not look whether it has run. *)
GetPciAgain ==
    /\ Top("GetPci")
    /\ Call("GetAcpi", [at |-> "walk", Index |-> 0])
    /\ UNCHANGED <<machine, AcpiData0, MCFG0, IsReady, drivers>>

GetPci ==
    /\ Top("GetPci")
    /\ IF IsReady THEN stack' = Tail(stack) /\ UNCHANGED end
       ELSE Call("GetAcpi", [at |-> "walk", Index |-> 0])
    /\ UNCHANGED <<machine, AcpiData0, MCFG0, IsReady, drivers>>

Present(page) == Config(machine, page) # "none"

(* The functions drivers are started for, at each level. *)
WalkThroughFunction(DeviceAddress, FunctionIndex) ==
    IF Config(machine, DeviceAddress + FunctionIndex) = "ahci"
    THEN <<DeviceAddress + FunctionIndex>> ELSE <<>>

WalkThroughDevice(BusAddress, DeviceIndex) ==
    LET DeviceAddress == BusAddress + 8 * DeviceIndex
    IN  IF Present(DeviceAddress)
        THEN FlattenSeq([f \in 1 .. 8 |-> WalkThroughFunction(DeviceAddress, f - 1)]) ELSE <<>>

(* A bus is skipped when it has nothing at its first device. *)
WalkThroughBus(BaseAddress, BusIndex) ==
    LET BusAddress == BaseAddress + 256 * BusIndex
    IN  IF Present(BusAddress)
        THEN FlattenSeq([d \in 1 .. 32 |-> WalkThroughDevice(BusAddress, d - 1)]) ELSE <<>>

Mcfg == machine.tables[MCFG0]

(* WalkThroughPciBus takes up an item of the table, or ends. *)
WalkItem ==
    /\ Top("walk")
    /\ LET i == stack[1].Index + 1
       IN  IF i > ItemCount(Mcfg.Length, McfgSize, ItemSize)
           THEN stack' = Tail(stack) /\ IsReady' = TRUE /\ UNCHANGED end
           ELSE IF i > Len(Mcfg.items) THEN Astray /\ UNCHANGED IsReady
           ELSE /\ Replace([at |-> "bus", Index |-> i, BusIndex |-> Mcfg.items[i].FirstBusIndex])
                /\ UNCHANGED <<IsReady, end>>
    /\ UNCHANGED <<machine, AcpiData0, MCFG0, drivers>>

(* One bus of an item; the last is not looked at.  The kernel halts if the  *)
(* memory for a driver runs out; otherwise its constructor returns, because *)
(* the controller does what it waits for (Ahci assumes the same). *)
WalkBus ==
    /\ Top("bus")
    /\ LET f == stack[1]
           item == Mcfg.items[f.Index]
           found == WalkThroughBus(item.BaseAddress, f.BusIndex)
       IN  \/ /\ f.BusIndex < item.LastBusIndex
              /\ drivers' = drivers \o found
              /\ Replace([f EXCEPT !.BusIndex = @ + 1])
              /\ UNCHANGED end
           \/ /\ f.BusIndex < item.LastBusIndex
              /\ \E n \in DOMAIN found : drivers' = drivers \o SubSeq(found, 1, n)
              /\ end' = "halted"
              /\ UNCHANGED stack
           \/ /\ f.BusIndex >= item.LastBusIndex
              /\ Replace([at |-> "walk", Index |-> f.Index])
              /\ UNCHANGED <<drivers, end>>
    /\ UNCHANGED <<machine, AcpiData0, MCFG0, IsReady>>

Next == GetAcpi \/ AcpiTable \/ GetPci \/ WalkItem \/ WalkBus

(* The boot processor runs on. *)
Spec == Init /\ [][Next]_vars /\ WF_vars(Next)

-----------------------------------------------------------------------------

(* The lengths in the tables agree with what they contain. *)
WellFormed(m) ==
    /\ m.length = HeaderSize + 8 * Len(m.tables)
    /\ \A i \in DOMAIN m.tables :
          m.tables[i].Signature = "MCFG" =>
              m.tables[i].Length = McfgSize + ItemSize * Len(m.tables[i].items)

(* No AHCI controller gets a second driver, which would stop the ports the  *)
(* first one uses, although GetAcpi and GetPci call each other and there    *)
(* may be several MCFG tables (the static variables of GetAcpi and GetPci). *)
(* And when the search is over, those with a driver are exactly the AHCI    *)
(* functions of the first MCFG table's buses, all but the last bus of an    *)
(* item, where function 0 of the device and device 0 of the bus exist       *)
(* (WalkThroughPciBus and what it calls). *)
OneDriverEach ==
    /\ \A i, j \in DOMAIN drivers : drivers[i] = drivers[j] => i = j
    /\ (stack = <<>> /\ end = "no" /\ WellFormed(machine)) =>
        LET mcfgs == {i \in DOMAIN machine.tables : machine.tables[i].Signature = "MCFG"}
            first == CHOOSE i \in mcfgs : \A j \in mcfgs : i <= j
            items == machine.tables[first].items
            reached == {a \in 0 .. 65535 :
                          /\ Config(machine, a) = "ahci"
                          /\ Present(8 * (a \div 8)) /\ Present(256 * (a \div 256))
                          /\ \E i \in DOMAIN items :
                                LET bus == (a - items[i].BaseAddress) \div 256
                                IN  items[i].FirstBusIndex <= bus /\ bus < items[i].LastBusIndex}
        IN  ToSet(drivers) = IF mcfgs = {} THEN {} ELSE reached

(* Where the firmware's tables are well formed the search ends, without a   *)
(* read outside the tables and without the two functions calling each other *)
(* until the stack is full (GetAcpi, GetPci). *)
SearchEnds == WellFormed(machine) ~> (stack = <<>> \/ end = "halted")
=============================================================================
