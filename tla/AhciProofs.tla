----------------------------- MODULE AhciProofs -----------------------------
(***************************************************************************)
(* The theorems about the AHCI driver, for every controller, any number of *)
(* probes and any lengths of the waiting loops.                            *)
(***************************************************************************)
EXTENDS Ahci, FiniteSetTheorems, TLAPS

Buffers == {"probe", "root"}

\* Configuring a port, and working on it.
Configuring == {"stopping", "stopped", "starting", "start"}
Reading == {"prepare", "spin", "poll", "returned"}

TypeOK ==
    /\ port \in [DOMAIN Ports -> HBA_Port]
    /\ cmd \in [DOMAIN Ports -> [lba : Nat, buffer : Buffers]]
    /\ DOMAIN mem = Buffers
    /\ pc \in {"port", "probe", "ready", "astray", "hung"} \cup Configuring \cup Reading
    /\ cur \in Nat
    /\ req \in [sector : Nat, buffer : Buffers]
    /\ Root \in {0} \cup DOMAIN Ports
    /\ result \in BOOLEAN
    /\ pc \in Configuring \cup Reading \cup {"probe"} => cur \in DOMAIN Ports

\* Only the command that Read waits for can be carried out.
OneAwaited ==
    \A p \in DOMAIN Ports :
        /\ port[p].executing => port[p].CommandIssue /\ ~port[p].halted
        /\ port[p].CommandIssue /\ ~port[p].halted => pc = "poll" /\ cur = p

\* An error that Read sees while it waits is an error of its own command.
ErrorsAreNew ==
    /\ pc = "spin" => ~port[cur].TFES
    /\ pc = "poll" /\ port[cur].TFES => port[cur].halted

\* The command table holds the read in progress.
CommandReady ==
    pc \in {"spin", "poll"} => cmd[cur] = [lba |-> Lba(req.sector), buffer |-> req.buffer]

\* CommandIssue is clear again only because the data is there.
DataThere ==
    (pc = "poll" /\ ~port[cur].CommandIssue) \/ (pc = "returned" /\ result)
        => mem[req.buffer] = Content(cur, Lba(req.sector))

\* A port that is read is not stopped: neither the one in hand nor the root,
\* which lies before the one in hand until the constructor is done.
NotStopped ==
    /\ pc \in Reading \cup {"probe"} => port[cur].ST
    /\ Root # 0 => port[Root].ST
    /\ pc \in Configuring \cup {"port"} => Root < cur
    /\ pc \in Reading \cup {"probe"} /\ req.buffer = "probe" => Root <= cur
    /\ pc \in Configuring \cup {"port", "probe"} => req.buffer = "probe"

\* The inductive invariant.
IInv == TypeOK /\ OneAwaited /\ ErrorsAreNew /\ CommandReady /\ DataThere /\ NotStopped

-----------------------------------------------------------------------------

\* The positions in Ports count from 1.
LEMMA PortPositions == DOMAIN Ports \subseteq Nat \ {0}
<1> DEFINE last == 32
<1>1. IsFiniteSet(1 .. last)
  <2>1. 1 \in Int /\ last \in Int
    OBVIOUS
  <2> HIDE DEF last
  <2> QED
    BY <2>1, FS_Interval
<1>2. Disks \subseteq DOMAIN Hba
  BY DEF Disks
<1>3. Cardinality(Disks) \in Nat
  BY <1>1, <1>2, PortsAssumption, FS_Subset, FS_CardinalityType
<1> QED
  BY <1>3 DEF Ports

\* A sector number that LBA0 to LBA2 can hold arrives as it is.
LEMMA LbaSmall ==
  ASSUME NEW n \in Nat, n < LbaLow
  PROVE  Lba(n) = n
<1>1. LbaLow \in Nat /\ LbaHigh \in Nat /\ n < LbaHigh /\ 0 < LbaLow
  BY BoundsAssumption
<1>2. n % LbaLow = n /\ n \div LbaHigh = 0 /\ 0 % LbaLow = 0
  BY <1>1, SMTT(30)
<1> QED
  BY <1>1, <1>2 DEF Lba

\* The sector number of a command is a number.
LEMMA LbaType ==
  ASSUME NEW n \in Nat
  PROVE  Lba(n) \in Nat
<1>1. n % LbaLow \in Nat /\ n \div LbaHigh \in Nat /\ (n \div LbaHigh) % LbaLow \in Nat
  BY BoundsAssumption, SMTT(30)
<1> QED
  BY <1>1, BoundsAssumption DEF Lba

\* What changing fields of one port's record does.
LEMMA PortUpdate ==
  ASSUME port \in [DOMAIN Ports -> HBA_Port], NEW q \in DOMAIN Ports, NEW r \in HBA_Port,
         port' = [port EXCEPT ![q] = r]
  PROVE  /\ port' \in [DOMAIN Ports -> HBA_Port]
         /\ \A p \in DOMAIN Ports : port'[p] = IF p = q THEN r ELSE port[p]
  OBVIOUS

\* The driver starts in a state that satisfies the invariant.
LEMMA InitInv == Init => IInv
<1> SUFFICES ASSUME Init PROVE IInv
  OBVIOUS
<1>1. \A s \in PortStates : s \in HBA_Port /\ ~s.CommandIssue /\ ~s.executing
  BY DEF PortStates
<1> USE DEF Init
<1>2. port \in [DOMAIN Ports -> HBA_Port]
  BY <1>1, Zenon
<1>3. TypeOK
  BY Zenon, <1>2 DEF TypeOK, Buffers, Configuring, Reading
<1>4. OneAwaited
  BY <1>1 DEF OneAwaited
<1>5. ErrorsAreNew /\ CommandReady /\ DataThere
  BY DEF ErrorsAreNew, CommandReady, DataThere
<1>6. NotStopped
  BY DEF NotStopped, Configuring, Reading
<1> QED
  BY <1>3, <1>4, <1>5, <1>6 DEF IInv

\* Every step of the driver keeps the invariant.
LEMMA DriverInv == IInv /\ DriverStep => IInv'
<1> SUFFICES ASSUME IInv, DriverStep PROVE IInv'
  OBVIOUS
<1> USE PortPositions DEF IInv, TypeOK, OneAwaited, ErrorsAreNew, CommandReady, DataThere,
        NotStopped, Buffers, Configuring, Reading
<1>1. CASE StopCommand
  <2>1. CASE cur \notin DOMAIN Ports
    BY <1>1, <2>1 DEF StopCommand
  <2>2. CASE cur \in DOMAIN Ports
    <3> DEFINE r == [port[cur] EXCEPT !.ST = FALSE, !.FRE = FALSE]
    <3>1. cur \in DOMAIN Ports /\ port[cur] \in HBA_Port
      BY <1>1, <2>2 DEF StopCommand
    <3>2. r \in HBA_Port
      BY Zenon, <3>1 DEF HBA_Port
    <3>3. /\ r.ST = FALSE /\ r.CommandIssue = port[cur].CommandIssue /\ r.TFES = port[cur].TFES
          /\ r.executing = port[cur].executing /\ r.halted = port[cur].halted
      BY <3>1 DEF HBA_Port
    <3>4. port' = [port EXCEPT ![cur] = r]
      BY Zenon, <1>1, <2>2 DEF StopCommand
    <3> HIDE DEF r
    <3>5. port' \in [DOMAIN Ports -> HBA_Port]
          /\ \A p \in DOMAIN Ports : port'[p] = IF p = cur THEN r ELSE port[p]
      BY <3>1, <3>2, <3>4, PortUpdate
    <3> QED
      BY <1>1, <2>2, <3>1, <3>3, <3>5 DEF StopCommand
  <2> QED
    BY <2>1, <2>2
<1>2. CASE Await("stopping", port[cur].FR \/ port[cur].CR, "stopped")
  BY <1>2 DEF Await
<1>3. CASE SetUpLists
  BY <1>3 DEF SetUpLists
<1>4. CASE Await("starting", port[cur].CR, "start")
  BY <1>4 DEF Await
<1>5. CASE StartCommand
  <2> DEFINE r == [port[cur] EXCEPT !.ST = TRUE, !.FRE = TRUE]
  <2>1. cur \in DOMAIN Ports /\ port[cur] \in HBA_Port
    BY <1>5 DEF StartCommand
  <2>2. r \in HBA_Port
    BY Zenon, <2>1 DEF HBA_Port
  <2>3. /\ r.ST = TRUE /\ r.CommandIssue = port[cur].CommandIssue /\ r.TFES = port[cur].TFES
        /\ r.executing = port[cur].executing /\ r.halted = port[cur].halted
    BY <2>1 DEF HBA_Port
  <2>4. port' = [port EXCEPT ![cur] = r]
    BY Zenon, <1>5 DEF StartCommand
  <2> HIDE DEF r
  <2>5. port' \in [DOMAIN Ports -> HBA_Port]
        /\ \A p \in DOMAIN Ports : port'[p] = IF p = cur THEN r ELSE port[p]
    BY <2>1, <2>2, <2>4, PortUpdate
  <2> QED
    BY <1>5, <2>1, <2>3, <2>5 DEF StartCommand
<1>6. CASE ProbeCall
  BY <1>6 DEF ProbeCall
<1>7. CASE ProbeReturn
  BY <1>7 DEF ProbeReturn
<1>8. CASE disk_readpReturn
  BY <1>8 DEF disk_readpReturn
<1>9. CASE Prepare
  <2> DEFINE r == [port[cur] EXCEPT !.TFES = FALSE]
  <2>1. cur \in DOMAIN Ports /\ port[cur] \in HBA_Port
    BY <1>9 DEF Prepare
  <2>2. r \in HBA_Port
    BY Zenon, <2>1 DEF HBA_Port
  <2>3. /\ r.ST = port[cur].ST /\ r.CommandIssue = port[cur].CommandIssue /\ r.TFES = FALSE
        /\ r.executing = port[cur].executing /\ r.halted = port[cur].halted
    BY <2>1 DEF HBA_Port
  <2>4. port' = [port EXCEPT ![cur] = r]
    BY <1>9 DEF Prepare
  <2> HIDE DEF r
  <2>5. port' \in [DOMAIN Ports -> HBA_Port]
        /\ \A p \in DOMAIN Ports : port'[p] = IF p = cur THEN r ELSE port[p]
    BY <2>1, <2>2, <2>4, PortUpdate
  <2> QED
    BY <1>9, <2>1, <2>3, <2>5, LbaType DEF Prepare
<1>10. CASE SpinRound
  BY <1>10 DEF SpinRound
<1>11. CASE SpinEnd
  <2>1. CASE Spin = SpinGiveUp
    BY Zenon, <1>11, <2>1 DEF SpinEnd
  <2>2. CASE Spin # SpinGiveUp
    <3> DEFINE r == [port[cur] EXCEPT !.CommandIssue = TRUE]
    <3>1. cur \in DOMAIN Ports /\ port[cur] \in HBA_Port
      BY <1>11, <2>2 DEF SpinEnd
    <3>2. r \in HBA_Port
      BY Zenon, <3>1 DEF HBA_Port
    <3>3. /\ r.ST = port[cur].ST /\ r.CommandIssue = TRUE /\ r.TFES = port[cur].TFES
          /\ r.executing = port[cur].executing /\ r.halted = port[cur].halted
      BY <3>1 DEF HBA_Port
    <3>4. port' = [port EXCEPT ![cur] = r]
      BY <1>11, <2>2 DEF SpinEnd
    <3> HIDE DEF r
    <3>5. port' \in [DOMAIN Ports -> HBA_Port]
          /\ \A p \in DOMAIN Ports : port'[p] = IF p = cur THEN r ELSE port[p]
      BY <3>1, <3>2, <3>4, PortUpdate
    <3> QED
      BY <1>11, <2>2, <3>1, <3>3, <3>5 DEF SpinEnd
  <2> QED
    BY <2>1, <2>2
<1>12. CASE Poll
  BY Zenon, <1>12 DEF Poll
<1> QED
  BY Zenon, <1>1, <1>2, <1>3, <1>4, <1>5, <1>6, <1>7, <1>8, <1>9, <1>10, <1>11, <1>12 DEF DriverStep

\* A call of disk_readp keeps the invariant.
LEMMA disk_readpInv ==
  ASSUME IInv, NEW sector \in Sectors, disk_readp(sector)
  PROVE  IInv'
<1>1. sector \in Nat
  BY BoundsAssumption
<1> QED
  BY <1>1, PortPositions
  DEF disk_readp, IInv, TypeOK, OneAwaited, ErrorsAreNew, CommandReady, DataThere, NotStopped,
      Buffers, Configuring, Reading

\* What the controller may do to a port's record: it carries out only what was
\* issued, an error halts the port, and CommandIssue is cleared by the end of
\* the transfer or because the port is stopped.
PortMoves(q, r) ==
    /\ r \in HBA_Port
    /\ r.ST = port[q].ST
    /\ r.executing => r.CommandIssue /\ ~r.halted
    /\ r.CommandIssue /\ ~r.halted => port[q].CommandIssue /\ ~port[q].halted
    /\ r.TFES => \/ port[q].TFES /\ (port[q].halted /\ r.ST => r.halted)
                 \/ r.halted /\ port[q].CommandIssue /\ ~port[q].halted
    /\ ~r.CommandIssue /\ r.ST => ~port[q].CommandIssue \/ Transferred(q)

\* Such a change keeps the invariant.
LEMMA PortMovesInv ==
  ASSUME IInv, NEW q \in DOMAIN Ports, NEW r, PortMoves(q, r),
         port' = [port EXCEPT ![q] = r], UNCHANGED <<cmd, mem, driver>>
  PROVE  IInv'
<1>1. /\ port' \in [DOMAIN Ports -> HBA_Port]
      /\ \A p \in DOMAIN Ports : port'[p] = IF p = q THEN r ELSE port[p]
  BY PortUpdate DEF IInv, TypeOK, PortMoves
<1> QED
  BY <1>1, PortPositions
  DEF PortMoves, driver, Transferred, IInv, TypeOK, OneAwaited, ErrorsAreNew, CommandReady,
      DataThere, NotStopped, Buffers, Configuring, Reading

\* Every step of the controller keeps the invariant.
LEMMA ControllerInv ==
  ASSUME IInv, NEW q \in DOMAIN Ports, ControllerStep(q)
  PROVE  IInv'
<1>1. port[q] \in HBA_Port /\ (port[q].executing => port[q].CommandIssue /\ ~port[q].halted)
  BY DEF IInv, TypeOK, OneAwaited
<1>2. CASE EngineFollows(q) /\ UNCHANGED <<cmd, mem, driver>>
  <2>1. CASE port[q].ST
    <3> DEFINE r == [port[q] EXCEPT !.CR = TRUE, !.FR = port[q].FRE]
    <3>1. PortMoves(q, r)
      BY Zenon, <1>1 DEF PortMoves, HBA_Port
    <3>2. port' = [port EXCEPT ![q] = r]
      BY <1>2, <2>1 DEF EngineFollows
    <3> HIDE DEF r
    <3> QED
      BY Zenon, <1>2, <3>1, <3>2, PortMovesInv
  <2>2. CASE ~port[q].ST
    <3> DEFINE r == [port[q] EXCEPT !.CR = FALSE, !.FR = port[q].FRE, !.CommandIssue = FALSE,
                                    !.executing = FALSE, !.halted = FALSE]
    <3>1. PortMoves(q, r)
      BY Zenon, <1>1, <2>2 DEF PortMoves, HBA_Port
    <3>2. port' = [port EXCEPT ![q] = r]
      BY <1>2, <2>2 DEF EngineFollows
    <3> HIDE DEF r
    <3> QED
      BY Zenon, <1>2, <3>1, <3>2, PortMovesInv
  <2> QED
    BY <2>1, <2>2
<1>3. CASE DeviceReady(q) /\ UNCHANGED <<cmd, mem, driver>>
  <2> DEFINE r == [port[q] EXCEPT !.busy = FALSE]
  <2>1. PortMoves(q, r) /\ port' = [port EXCEPT ![q] = r]
    BY Zenon, <1>1, <1>3 DEF PortMoves, HBA_Port, DeviceReady
  <2> HIDE DEF r
  <2> QED
    BY Zenon, <1>3, <2>1, PortMovesInv
<1>4. CASE Begins(q) /\ UNCHANGED <<cmd, mem, driver>>
  <2> DEFINE r == [port[q] EXCEPT !.executing = TRUE, !.busy = TRUE]
  <2>1. PortMoves(q, r) /\ port' = [port EXCEPT ![q] = r]
    BY Zenon, <1>1, <1>4 DEF PortMoves, HBA_Port, Begins
  <2> HIDE DEF r
  <2> QED
    BY Zenon, <1>4, <2>1, PortMovesInv
<1>5. CASE Completes(q) /\ UNCHANGED <<cmd, mem, driver>>
  <2> DEFINE r == [port[q] EXCEPT !.CommandIssue = FALSE, !.executing = FALSE, !.busy = FALSE]
  <2>1. PortMoves(q, r) /\ port' = [port EXCEPT ![q] = r]
    BY Zenon, <1>1, <1>5 DEF PortMoves, HBA_Port, Completes
  <2> HIDE DEF r
  <2> QED
    BY Zenon, <1>5, <2>1, PortMovesInv
<1>6. CASE Fails(q) /\ UNCHANGED <<cmd, mem, driver>>
  <2> DEFINE r == [port[q] EXCEPT !.TFES = TRUE, !.halted = TRUE, !.executing = FALSE,
                                  !.busy = FALSE]
  <2>1. PortMoves(q, r) /\ port' = [port EXCEPT ![q] = r]
    BY Zenon, <1>1, <1>6 DEF PortMoves, HBA_Port, Fails
  <2> HIDE DEF r
  <2> QED
    BY Zenon, <1>6, <2>1, PortMovesInv
<1>7. CASE Transfers(q) /\ UNCHANGED <<port, cmd, driver>>
  BY <1>7, PortPositions
  DEF Transfers, driver, IInv, TypeOK, OneAwaited, ErrorsAreNew, CommandReady, DataThere,
      NotStopped, Buffers, Configuring, Reading
<1> QED
  BY <1>2, <1>3, <1>4, <1>5, <1>6, <1>7 DEF ControllerStep

\* The invariant is inductive.
LEMMA NextInv == IInv /\ [Next]_vars => IInv'
<1> SUFFICES ASSUME IInv, [Next]_vars PROVE IInv'
  OBVIOUS
<1>1. CASE UNCHANGED vars
  BY <1>1 DEF vars, driver, IInv, TypeOK, OneAwaited, ErrorsAreNew, CommandReady, DataThere,
      NotStopped
<1> QED
  BY <1>1, DriverInv, disk_readpInv, ControllerInv DEF Next

\* The invariant holds of the driver and the controller together.
THEOREM Invariance == Spec => []IInv
<1> QED
  BY InitInv, NextInv, PTL DEF Spec

\* Port::Read reports success only when the sector is in the buffer.
THEOREM ReadDeliversHolds == Spec => []ReadDelivers
<1>1. IInv => ReadDelivers
  BY LbaSmall DEF IInv, TypeOK, DataThere, ReadDelivers
<1> QED
  BY <1>1, Invariance, PTL

\* The controller writes to a buffer only while the Read that named it waits.
THEOREM WritesOnlyWhileAwaitedHolds == Spec => WritesOnlyWhileAwaited
<1>1. IInv /\ [Next]_vars =>
        [\A b \in DOMAIN mem : mem'[b] \notin {mem[b], Zero} => pc = "poll" /\ b = req.buffer]_vars
  <2> SUFFICES ASSUME IInv, Next, NEW b \in Buffers, mem'[b] \notin {mem[b], Zero}
               PROVE  pc = "poll" /\ b = req.buffer
    BY DEF IInv, TypeOK
  <2>1. mem' # mem
    OBVIOUS
  <2>2. \E p \in DOMAIN Ports : Transfers(p)
    <3>1. CASE ProbeCall
      BY <3>1 DEF ProbeCall, IInv, TypeOK
    <3>2. ASSUME NEW sector \in Sectors, disk_readp(sector) PROVE FALSE
      BY <3>2 DEF disk_readp, IInv, TypeOK
    <3> QED
      BY <2>1, <3>1, <3>2 DEF Next, DriverStep, ControllerStep, StopCommand, Await, SetUpLists,
         StartCommand, ProbeReturn, disk_readpReturn, Prepare, SpinRound, SpinEnd, Poll
  <2>3. PICK p \in DOMAIN Ports : Transfers(p)
    BY <2>2
  <2>4. pc = "poll" /\ cur = p
    BY <2>3 DEF Transfers, IInv, OneAwaited
  <2>5. cmd[p].buffer = req.buffer
    BY <2>4 DEF IInv, CommandReady
  <2> QED
    BY <2>3, <2>4, <2>5 DEF Transfers, IInv, TypeOK
<1> QED
  BY <1>1, Invariance, PTL DEF Spec, WritesOnlyWhileAwaited
=============================================================================
