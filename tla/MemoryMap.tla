----------------------------- MODULE MemoryMap -----------------------------
(***************************************************************************)
(* The bootloader's memory map and the loops that scan it.  An entry is a  *)
(* record [base, length, usable], base and length counted in pages.  The   *)
(* bootloader aligns usable entries to pages; of any other entry the page  *)
(* it ends in counts as covered, as MapMemory's loop treats it.            *)
(***************************************************************************)
EXTENDS Integers, Sequences

NULL == 0

Entries(MaxFrame) == [base : 0 .. MaxFrame, length : 0 .. MaxFrame, usable : BOOLEAN]

\* What the boot protocol promises: entries by ascending base, not overlapping.
WellFormed(m, MaxFrame) ==
    /\ m \in Seq(Entries(MaxFrame))
    /\ \A i \in DOMAIN m : m[i].base + m[i].length <= MaxFrame + 1
    /\ \A i, j \in DOMAIN m : i < j => m[i].base + m[i].length <= m[j].base

PagesOf(entry) == entry.base .. (entry.base + entry.length - 1)

UsableEntries(m) == {i \in DOMAIN m : m[i].usable}

UsablePages(m) == UNION {PagesOf(m[i]) : i \in UsableEntries(m)}

\* CreatePMM's loop: the base of the first of the longest usable entries.
LargestBase(m) ==
    LET found == {i \in UsableEntries(m) : m[i].length > 0}
        longest == {i \in found : \A j \in found : m[j].length <= m[i].length}
    IN IF found = {} THEN NULL
       ELSE m[CHOOSE i \in longest : \A j \in longest : i <= j].base

\* AllocatePage's loops: the pages above last in entry order, then page order.
Above(m, i, last) == {p \in PagesOf(m[i]) : p > last}

\* Faulty: looks at the first usable entry only.
SomePageAboveInFirst(m, last) ==
    \E i \in UsableEntries(m) : /\ \A j \in UsableEntries(m) : i <= j
                                /\ Above(m, i, last) # {}

SomePageAbove(m, last) == \E i \in UsableEntries(m) : Above(m, i, last) # {}

FirstPageAbove(m, last) ==
    LET candidates == {i \in UsableEntries(m) : Above(m, i, last) # {}}
        first == CHOOSE i \in candidates : \A j \in candidates : i <= j
    IN CHOOSE p \in Above(m, first, last) : \A q \in Above(m, first, last) : p <= q

\* Faulty: one page short.
FullSizeOneShort(m) ==
    LET lasts == {m[i].base + m[i].length - 1 : i \in DOMAIN m} \cup {0}
    IN CHOOSE e \in lasts : \A f \in lasts : f <= e

\* GetFullSizeOfMemory: the end of the highest entry.
GetFullSizeOfMemory(m) ==
    LET ends == {m[i].base + m[i].length : i \in DOMAIN m} \cup {0}
    IN CHOOSE e \in ends : \A f \in ends : f <= e
=============================================================================
