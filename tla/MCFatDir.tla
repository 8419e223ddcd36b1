------------------------------ MODULE MCFatDir ------------------------------
(***************************************************************************)
(* Two entries to a sector, and an index of four bits.  A FAT16 volume     *)
(* with a fixed root table, full to its last entry, and a subdirectory of  *)
(* two clusters, full as well, with a deleted entry in the last place, or  *)
(* with a free one there; a FAT32 volume whose root is a chain of          *)
(* two-sector clusters, with a cluster number that needs the high word and *)
(* one that is out of range; and one whose directory chain is circular.    *)
(***************************************************************************)
EXTENDS FatDir, TLC

F(name) == Entry(name, "file", 0, 0)
Dir(name, hi, lo) == Entry(name, "dir", hi, lo)
Label(name) == Entry(name, "vol", 0, 0)
Sector(a, b) == 0 :> a @@ 1 :> b

EndOfChain == 15

Fat16(last) ==
    [fat32 |-> FALSE, csize |-> 1, n_rootdir |-> 4, n_fatent |-> 6, dirbase |-> 3, database |-> 5,
     fat |-> 2 :> 4 @@ 3 :> 0 @@ 4 :> EndOfChain @@ 5 :> 1,
     sectors |-> 3 :> Sector(Label("A"), Dir("SUB", 1, 2)) @@ 4 :> Sector(F("Deleted"), F("A"))
              @@ 5 :> Sector(Dir("Dot", 0, 2), F("B")) @@ 7 :> Sector(F("Deleted"), last)]

Fat32 ==
    [fat32 |-> TRUE, csize |-> 2, n_rootdir |-> 0, n_fatent |-> 7, dirbase |-> 6, database |-> 10,
     fat |-> 2 :> EndOfChain @@ 3 :> EndOfChain @@ 4 :> EndOfChain @@ 5 :> EndOfChain @@ 6 :> 3,
     sectors |-> 18 :> Sector(F("B"), Label("SUB")) @@ 19 :> Sector(F("Deleted"), Dir("SUB", 1, 1))
              @@ 12 :> Sector(Dir("A", 2, 0), EndMark) @@ 13 :> Sector(EndMark, EndMark)
              @@ 16 :> Sector(Dir("Dot", 0, 0), F("A")) @@ 17 :> Sector(EndMark, F("B"))]

Circular ==
    [fat32 |-> TRUE, csize |-> 1, n_rootdir |-> 0, n_fatent |-> 4, dirbase |-> 2, database |-> 8,
     fat |-> 2 :> 3 @@ 3 :> 2,
     sectors |-> 8 :> Sector(F("Deleted"), F("B")) @@ 9 :> Sector(Dir("SUB", 0, 2), F("Deleted"))]

MCVolumes == {Fat16(F("A")), Fat16(F("Deleted")), Fat16(EndMark), Fat32, Circular}

MCPaths == {<< >>, <<"A">>, <<"SUB">>, <<"SUB", "A">>, <<"B", "A">>, <<"A", "B">>, <<"SUB", "C">>}
=============================================================================
