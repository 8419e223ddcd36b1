------------------------------ MODULE FileSpec ------------------------------
(***************************************************************************)
(* What an open file promises: a position that only reads and seeks move,  *)
(* reads that deliver the next bytes of the file and stop at its end, and  *)
(* failures that close it.  Nothing here knows about clusters, sectors or  *)
(* the table that links them.                                              *)
(***************************************************************************)
EXTENDS Integers, Sequences

CONSTANTS
    Files,          \* the files that can be opened
    None,           \* stands for no open file
    Size(_),        \* the size of a file in bytes
    Byte(_, _)      \* the byte of a file at a position

VARIABLES
    file,           \* the open file, or None
    pos,            \* the file position
    want,           \* the bytes the read in progress still has to deliver
    got             \* what it has delivered

vars == <<file, pos, want, got>>

Smaller(a, b) == IF a <= b THEN a ELSE b

Init == file = None /\ pos = 0 /\ want = 0 /\ got = << >>

Open == file' \in Files /\ pos' = 0 /\ want' = 0 /\ UNCHANGED got

(* An operation that fails leaves no file open, and reads nothing more. *)
Fail == file' = None /\ pos' = 0 /\ want' = 0 /\ got' \in {got, << >>}

BeginRead ==
    /\ file # None
    /\ want = 0
    /\ want' \in 0 .. Size(file) - pos
    /\ got' = << >>
    /\ UNCHANGED <<file, pos>>

Deliver ==
    /\ file # None
    /\ \E k \in 1 .. want :
           /\ got' = got \o [i \in 1 .. k |-> Byte(file, pos + i - 1)]
           /\ pos' = pos + k
           /\ want' = want - k
    /\ UNCHANGED file

Seek ==
    /\ file # None
    /\ want = 0
    /\ pos' \in 0 .. Size(file)
    /\ UNCHANGED <<file, want, got>>

Next == Open \/ Fail \/ BeginRead \/ Deliver \/ Seek

Spec == Init /\ [][Next]_vars
=============================================================================
