------------------------------- MODULE MCPtm -------------------------------
(***************************************************************************)
(* Tables of four entries and 256 virtual pages, laid out as the kernel's  *)
(* are: physical memory at the bottom and again at the middle, kernel and  *)
(* heap in neighbouring top-level slots, system data just below the heap.  *)
(* One map has pages to spare, one runs out while the heap grows, one      *)
(* while CreatePTM runs, and one has no memory to speak of.                *)
(***************************************************************************)
EXTENDS Ptm

MapEntry(base, length, usable) == [base |-> base, length |-> length, usable |-> usable]

MCMaps == {
    <<MapEntry(0, 2, FALSE), MapEntry(2, 52, TRUE), MapEntry(57, 2, FALSE)>>,
    <<MapEntry(0, 20, TRUE), MapEntry(20, 2, FALSE), MapEntry(22, 14, TRUE)>>,
    <<MapEntry(0, 9, TRUE), MapEntry(10, 6, FALSE), MapEntry(16, 4, TRUE)>>,
    <<MapEntry(0, 1, TRUE), MapEntry(1, 3, FALSE)>> }
MCDevices == {5, 60}
=============================================================================
