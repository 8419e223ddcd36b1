------------------------------ MODULE MCHeap ------------------------------
(* A heap of pages of eight words.  The sizes: zero, two that need rounding, *)
(* a page, and two that wrap, in ExpandHeap's rounding and in malloc's.      *)
EXTENDS Heap

MCSizes == {0, 1, 3, 8, SizeMod - 3, SizeMod - 1}
MCValues == {1}
=============================================================================
