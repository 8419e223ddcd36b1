----------------------------- MODULE MCDevices ------------------------------
(* Twelve machines: with no RSDP, without MCFG, with one, two and repeated     *)
(* MCFG tables, with two segments, with one bus, and with lengths that are  *)
(* too small, too large or not a multiple of an entry. *)
EXTENDS Devices

Item(base, first, last) == [BaseAddress |-> base, FirstBusIndex |-> first, LastBusIndex |-> last]
McfgTable(items) == [Signature |-> "MCFG", Length |-> 44 + 16 * Len(items), items |-> items]
Other == [Signature |-> "APIC", Length |-> 100, items |-> <<>>]
Machine(tables) == [rsdp |-> TRUE, length |-> 36 + 8 * Len(tables), tables |-> tables]

Main == McfgTable(<<Item(0, 0, 20)>>)
Segments == McfgTable(<<Item(0, 0, 3), Item(8192, 2, 5)>>)

MCMachines ==
    { [Machine(<<Main>>) EXCEPT !.rsdp = FALSE],
      Machine(<<>>),
      Machine(<<Other>>),
      Machine(<<Other, Main, Other>>),
      Machine(<<Main, Main>>),
      Machine(<<Segments, Other, Main>>),
      Machine(<<McfgTable(<<>>), Main>>),
      Machine(<<McfgTable(<<Item(0, 0, 0)>>)>>),
      [Machine(<<Main>>) EXCEPT !.length = 35],
      [Machine(<<Main>>) EXCEPT !.length = 60],
      Machine(<<[Main EXCEPT !.Length = 36]>>),
      Machine(<<[Main EXCEPT !.Length = 91]>>) }

(* Bridges at function 0 of bus 0, 1, 3 and 19; bus 2 begins empty. *)
MCConfig(m, page) ==
    IF page \in {31 * 8 + 2, 256, 256 + 5 * 8 + 7, 512 + 8, 19 * 256 + 8, 20 * 256 + 8,
                 8192 + 2 * 256 + 8, 8192 + 5 * 256} THEN "ahci"
    ELSE IF page \in {0, 31 * 8, 256 + 5 * 8, 3 * 256, 19 * 256, 20 * 256, 8192 + 2 * 256}
    THEN "other" ELSE "none"
=============================================================================
