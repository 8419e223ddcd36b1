-------------------------------- MODULE Ahci --------------------------------
(***************************************************************************)
(* The AHCI driver (Ahci.cpp) and the disk access built on it              *)
(* (diskio.cpp), with the controller as a process of its own that shares   *)
(* the port registers and writes to memory.                                *)
(*                                                                         *)
(* The driver configures the ports one after the other, reads sector 0 of  *)
(* each over and over to see which disk is the root, and then serves       *)
(* disk_readp.  A command is prepared in memory, issued by setting         *)
(* CommandIssue, and over when the controller clears it or reports a task  *)
(* file error.  One reading of a register in a waiting loop is one step.   *)
(*                                                                         *)
(* The controller is slow: the device may be busy for as long as it likes  *)
(* before a command and while it executes one.  It may fail a command: it  *)
(* then reports the error, leaves CommandIssue set, and executes nothing   *)
(* more on that port until the port is stopped, which the driver does only *)
(* in Configure (this is the hardware's rule, not this repository's).      *)
(***************************************************************************)
EXTENDS Integers, Sequences, FiniteSets

CONSTANTS
    Hba,            \* the controller's ports: [implemented, det, ipm, Signature]
    Roots,          \* the ports whose sector 0 contains "ROOT"
    Probes,         \* 1000: reads of sector 0 that look for the root
    SpinLimit,      \* 10000: rounds to wait for the device
    SpinGiveUp,     \* 100: the number of rounds that Read takes for a timeout
    LbaLow,         \* 2^24: the sector numbers LBA0 to LBA2 can hold
    LbaHigh,        \* 2^32: what LBA3 to LBA5 count
    Sectors         \* the sectors disk_readp is asked for

ASSUME PortsAssumption == DOMAIN Hba \subseteq 1 .. 32 /\ Roots \subseteq DOMAIN Hba

ASSUME BoundsAssumption ==
    /\ Probes \in Nat /\ SpinLimit \in Nat /\ SpinGiveUp \in Nat
    /\ LbaLow \in Nat \ {0} /\ LbaHigh \in Nat /\ LbaLow <= LbaHigh
    /\ Sectors \subseteq Nat

(* What a port is.  The power state is combined with 7 by a logical and, so *)
(* every state but 0 counts as active. *)
GetPortType(h) ==
    IF h.det # 3 \/ h.ipm = 0 THEN "None"
    ELSE CASE h.Signature = "Atapi" -> "SATA_Pi"
           [] h.Signature = "ATA" -> "SATA"
           [] h.Signature = "PM" -> "PM"
           [] h.Signature = "Semb" -> "Semb"
           [] OTHER -> "None"

(* The ports the driver works with, and their sequence in the order of the  *)
(* controller: the k-th is the one with k of them up to it. *)
Disks == {i \in DOMAIN Hba : Hba[i].implemented /\ GetPortType(Hba[i]) \in {"SATA", "SATA_Pi"}}

Ports ==
    [k \in 1 .. Cardinality(Disks) |->
        CHOOSE i \in Disks : Cardinality({j \in Disks : j <= i}) = k]

VARIABLES
    port,           \* each port's registers and engine
    cmd,            \* the command in each port's table: [lba, buffer]
    mem,            \* the buffers: "probe" (Ahci::Buffer), "root" (RootBuffer)
    pc,             \* where the driver is
    cur,            \* the port it works on, as a position in Ports
    probes,         \* reads of sector 0 of that port so far
    req,            \* the read in progress: [sector, buffer]
    Spin,
    Root,           \* a position in Ports, or 0
    result          \* what the last Read returned

driver == <<pc, cur, probes, req, Spin, Root, result>>
vars == <<port, cmd, mem, driver>>

Zero == <<"zero">>

(* The content of a sector: the place it is at. *)
Content(p, sector) == <<Ports[p], sector>>

(* The registers of a port that matter here, and what the device behind it  *)
(* and its command engine are doing. *)
HBA_Port ==
    [ST : BOOLEAN, FRE : BOOLEAN, CR : BOOLEAN, FR : BOOLEAN, CommandIssue : BOOLEAN,
     TFES : BOOLEAN, busy : BOOLEAN, executing : BOOLEAN, halted : BOOLEAN]

(* The firmware may have left a port running and its device busy. *)
PortStates ==
    {s \in HBA_Port : /\ s.FRE = s.ST /\ s.CR = s.ST /\ s.FR = s.ST
                      /\ ~s.CommandIssue /\ ~s.executing /\ ~s.halted}

Init ==
    /\ port \in [DOMAIN Ports -> PortStates]
    /\ cmd = [p \in DOMAIN Ports |-> [lba |-> 0, buffer |-> "probe"]]
    /\ mem = [b \in {"probe", "root"} |-> Zero]
    /\ pc = "port"
    /\ cur = 1
    /\ probes = 0
    /\ req = [sector |-> 0, buffer |-> "probe"]
    /\ Spin = 0
    /\ Root = 0
    /\ result = FALSE

-----------------------------------------------------------------------------

(* The constructor's loop over the ports, and Configure. *)

(* StopCommand clears both start bits; after the last port it is done. *)
StopCommand ==
    /\ pc = "port"
    /\ IF cur \in DOMAIN Ports
       THEN port' = [port EXCEPT ![cur].ST = FALSE, ![cur].FRE = FALSE] /\ pc' = "stopping"
       ELSE pc' = "ready" /\ UNCHANGED port
    /\ UNCHANGED <<cmd, mem, cur, probes, req, Spin, Root, result>>

(* A loop that only waits for a register to change.  The register is not    *)
(* volatile and nothing in the loop may change it, so the build may read it *)
(* each time, read it once and then never stop, or leave the loop out. *)
Await(from, running, to) ==
    /\ pc = from
    /\ pc' \in {to} \cup (IF running THEN {from, "hung"} ELSE {})
    /\ UNCHANGED <<port, cmd, mem, cur, probes, req, Spin, Root, result>>

(* The new lists and tables are zeroed pages. *)
SetUpLists ==
    /\ pc = "stopped"
    /\ cmd' = [cmd EXCEPT ![cur] = [lba |-> 0, buffer |-> "probe"]]
    /\ pc' = "starting"
    /\ UNCHANGED <<port, mem, cur, probes, req, Spin, Root, result>>

StartCommand ==
    /\ pc = "start"
    /\ port' = [port EXCEPT ![cur].ST = TRUE, ![cur].FRE = TRUE]
    /\ probes' = 0
    /\ pc' = "probe"
    /\ UNCHANGED <<cmd, mem, cur, req, Spin, Root, result>>

(* The buffer is zeroed and sector 0 read into it, Probes times. *)
ProbeCall ==
    /\ pc = "probe"
    /\ IF probes < Probes
       THEN /\ mem' = [mem EXCEPT !["probe"] = Zero]
            /\ req' = [sector |-> 0, buffer |-> "probe"]
            /\ pc' = "prepare"
            /\ UNCHANGED cur
       ELSE cur' = cur + 1 /\ pc' = "port" /\ UNCHANGED <<mem, req>>
    /\ UNCHANGED <<port, cmd, probes, Spin, Root, result>>

(* After a read that succeeded, "ROOT" is looked for in the buffer. *)
ProbeReturn ==
    /\ pc = "returned"
    /\ req.buffer = "probe"
    /\ Root' = IF result /\ \E p \in Roots : mem["probe"] = <<p, 0>> THEN cur ELSE Root
    /\ probes' = probes + 1
    /\ pc' = "probe"
    /\ UNCHANGED <<port, cmd, mem, cur, req, Spin, result>>

-----------------------------------------------------------------------------

(* disk_readp.  Root is not checked: with no root disk the call goes astray. *)
disk_readp(sector) ==
    /\ pc = "ready"
    /\ IF Root = 0
       THEN pc' = "astray" /\ UNCHANGED <<cur, mem, req>>
       ELSE /\ cur' = Root
            /\ mem' = [mem EXCEPT !["root"] = Zero]
            /\ req' = [sector |-> sector, buffer |-> "root"]
            /\ pc' = "prepare"
    /\ UNCHANGED <<port, cmd, probes, Spin, Root, result>>

disk_readpReturn ==
    /\ pc = "returned"
    /\ req.buffer = "root"
    /\ pc' = "ready"
    /\ UNCHANGED <<port, cmd, mem, cur, probes, req, Spin, Root, result>>

-----------------------------------------------------------------------------

(* Port::Read. *)

(* The sector number as LBA0 to LBA5 carry it: bits 24 to 31 are missing. *)
Lba(sector) == (sector % LbaLow) + ((sector \div LbaHigh) % LbaLow) * LbaLow

(* Faulty variant: old errors are not cleared. *)
PrepareKeepsError ==
    /\ pc = "prepare"
    /\ cmd' = [cmd EXCEPT ![cur] = [lba |-> Lba(req.sector), buffer |-> req.buffer]]
    /\ Spin' = 0
    /\ pc' = "spin"
    /\ UNCHANGED <<port, mem, cur, probes, req, Root, result>>

(* Old errors are cleared, header and table filled in. *)
Prepare ==
    /\ pc = "prepare"
    /\ port' = [port EXCEPT ![cur].TFES = FALSE]
    /\ cmd' = [cmd EXCEPT ![cur] = [lba |-> Lba(req.sector), buffer |-> req.buffer]]
    /\ Spin' = 0
    /\ pc' = "spin"
    /\ UNCHANGED <<mem, cur, probes, req, Root, result>>

(* One round of the wait for the device. *)
SpinRound ==
    /\ pc = "spin"
    /\ port[cur].busy
    /\ Spin < SpinLimit
    /\ Spin' = Spin + 1
    /\ UNCHANGED <<port, cmd, mem, pc, cur, probes, req, Root, result>>

(* The wait is over.  SpinGiveUp rounds, no more and no fewer, make Read    *)
(* give up; after SpinLimit rounds the command is issued to a busy device. *)
SpinEnd ==
    /\ pc = "spin"
    /\ ~port[cur].busy \/ Spin = SpinLimit
    /\ IF Spin = SpinGiveUp
       THEN result' = FALSE /\ pc' = "returned" /\ UNCHANGED port
       ELSE port' = [port EXCEPT ![cur].CommandIssue = TRUE] /\ pc' = "poll" /\ UNCHANGED result
    /\ UNCHANGED <<cmd, mem, cur, probes, req, Spin, Root>>

(* Faulty variant: a device that is not busy has done its work. *)
PollBusy ==
    /\ pc = "poll"
    /\ ~port[cur].busy \/ port[cur].TFES
    /\ result' = ~port[cur].busy
    /\ pc' = "returned"
    /\ UNCHANGED <<port, cmd, mem, cur, probes, req, Spin, Root>>

(* Faulty variant: errors are not looked for. *)
PollNoError ==
    /\ pc = "poll"
    /\ ~port[cur].CommandIssue
    /\ result' = TRUE
    /\ pc' = "returned"
    /\ UNCHANGED <<port, cmd, mem, cur, probes, req, Spin, Root>>

(* The wait for the command ends only with its completion or an error. *)
Poll ==
    /\ pc = "poll"
    /\ ~port[cur].CommandIssue \/ port[cur].TFES
    /\ result' = ~port[cur].CommandIssue
    /\ pc' = "returned"
    /\ UNCHANGED <<port, cmd, mem, cur, probes, req, Spin, Root>>

-----------------------------------------------------------------------------

(* The controller. *)

(* The engines follow the start bits; a stopped port forgets its commands. *)
EngineFollows(p) ==
    /\ port[p].CR # port[p].ST \/ port[p].FR # port[p].FRE
    /\ port' = [port EXCEPT ![p] =
           IF port[p].ST
           THEN [@ EXCEPT !.CR = TRUE, !.FR = port[p].FRE]
           ELSE [@ EXCEPT !.CR = FALSE, !.FR = port[p].FRE, !.CommandIssue = FALSE,
                          !.executing = FALSE, !.halted = FALSE]]

DeviceReady(p) ==
    /\ port[p].busy
    /\ ~port[p].executing
    /\ port' = [port EXCEPT ![p].busy = FALSE]

Begins(p) ==
    /\ port[p].CommandIssue /\ port[p].CR /\ ~port[p].halted /\ ~port[p].busy
    /\ port' = [port EXCEPT ![p].executing = TRUE, ![p].busy = TRUE]

Transferred(p) == mem[cmd[p].buffer] = Content(p, cmd[p].lba)

(* The data is in memory before the command is over. *)
Transfers(p) ==
    /\ port[p].executing
    /\ ~Transferred(p)
    /\ mem' = [mem EXCEPT ![cmd[p].buffer] = Content(p, cmd[p].lba)]

Completes(p) ==
    /\ port[p].executing
    /\ Transferred(p)
    /\ port' = [port EXCEPT ![p].CommandIssue = FALSE, ![p].executing = FALSE, ![p].busy = FALSE]

Fails(p) ==
    /\ port[p].executing
    /\ port' = [port EXCEPT ![p].TFES = TRUE, ![p].halted = TRUE,
                            ![p].executing = FALSE, ![p].busy = FALSE]

ControllerStep(p) ==
    \/ /\ EngineFollows(p) \/ DeviceReady(p) \/ Begins(p) \/ Completes(p) \/ Fails(p)
       /\ UNCHANGED <<cmd, mem, driver>>
    \/ Transfers(p) /\ UNCHANGED <<port, cmd, driver>>

DriverStep ==
    \/ StopCommand
    \/ Await("stopping", port[cur].FR \/ port[cur].CR, "stopped")
    \/ SetUpLists
    \/ Await("starting", port[cur].CR, "start")
    \/ StartCommand
    \/ ProbeCall
    \/ ProbeReturn
    \/ disk_readpReturn
    \/ Prepare
    \/ SpinRound
    \/ SpinEnd
    \/ Poll

Next ==
    \/ DriverStep
    \/ \E sector \in Sectors : disk_readp(sector)
    \/ \E p \in DOMAIN Ports : ControllerStep(p)

(* The processor runs the driver and the controller goes on working; *)
(* nobody has to call disk_readp. *)
Spec ==
    /\ Init
    /\ [][Next]_vars
    /\ WF_vars(DriverStep)
    /\ \A p \in DOMAIN Ports : WF_vars(ControllerStep(p))

-----------------------------------------------------------------------------

(* A Read that reports success has put the sector it was asked for, of its  *)
(* own disk, into its buffer: whatever other ports did, however slow the    *)
(* device was and whatever failed before (Port::Read), for the sector       *)
(* numbers that the command can express. *)
ReadDelivers ==
    pc = "returned" /\ result /\ req.sector < LbaLow
        => mem[req.buffer] = Content(cur, req.sector)

(* The controller writes to a buffer only while the Read that named the     *)
(* buffer waits for it: never after Read has returned and its caller looks  *)
(* at the data or another read has cleared the shared buffer (Port::Read's  *)
(* waiting loop). *)
WritesOnlyWhileAwaited ==
    [][\A b \in DOMAIN mem : mem'[b] \notin {mem[b], Zero} => pc = "poll" /\ b = req.buffer]_vars

(* Every Read on a port whose commands have not failed returns, and so the  *)
(* constructor does not wait for ever (Port::Read).  After a failure the    *)
(* controller waits for a restart of the port that never comes, and the     *)
(* next Read, which clears the error first, does wait for ever. *)
ReadsReturn ==
    \A p \in DOMAIN Ports : (pc = "prepare" /\ cur = p /\ ~port[p].halted) ~> (pc = "returned")
=============================================================================
