------------------------------- MODULE MCPmm -------------------------------
(* Maps of six pages of two words: the stack at the top of memory, in the   *)
(* middle, and at page 0; and one without usable memory.                    *)
EXTENDS Pmm

Entry(base, length, usable) == [base |-> base, length |-> length, usable |-> usable]

MCMaps == {
    <<Entry(0, 2, TRUE), Entry(2, 1, FALSE), Entry(3, 3, TRUE)>>,
    <<Entry(0, 1, FALSE), Entry(1, 1, TRUE), Entry(2, 2, TRUE), Entry(4, 1, FALSE),
      Entry(5, 1, TRUE)>>,
    <<Entry(0, 4, TRUE), Entry(5, 1, TRUE)>>,
    <<Entry(1, 1, TRUE), Entry(3, 1, TRUE)>>,
    <<Entry(0, 3, FALSE)>> }
MCValues == {1}
=============================================================================
