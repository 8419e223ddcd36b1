-------------------------------- MODULE Pmm --------------------------------
(***************************************************************************)
(* The physical page allocator: kernel/Memory/Paging/Pmm/Pmm.cpp.          *)
(*                                                                         *)
(* Pages given back are kept on a stack of addresses that lies in ordinary *)
(* memory, at the start of the longest usable entry of the memory map;     *)
(* pages never given out come from a scan of the map.  Nothing reserves    *)
(* the pages the stack lies in, so memory is modelled with its contents: W *)
(* words a page, each holding a page number.  A page's holder may fill it  *)
(* at any time.                                                            *)
(***************************************************************************)
EXTENDS MemoryMap

CONSTANTS
    W,          \* 512: words in a page
    MaxFrame,   \* the highest page of physical memory
    Maps,       \* the memory maps the bootloader may report
    Values      \* what a page's holder writes

Frame == 0 .. MaxFrame
Slot == 0 .. (W - 1)
EmptyPage == [i \in Slot |-> 0]

ASSUME PmmAssumption ==
    /\ W \in Nat \ {0} /\ MaxFrame \in Nat
    /\ Values \subseteq Frame
    /\ \A m \in Maps : WellFormed(m, MaxFrame)

\* A stack that holds every page below it still ends inside memory.
ASSUME ListFits ==
    \A m \in Maps : LargestBase(m) + (LargestBase(m) \div W) <= MaxFrame

VARIABLES
    map,            \* MemoryMapRequest.response
    mem,            \* contents of physical memory
    FreeList,       \* page at which the stack starts
    FreeListLength,
    LastAddress,    \* the page the scan gave out last
    pc,             \* "boot", "up" or "done"
    out,            \* history: how many holders a page has
    late            \* history: FreePage has written to a page given out before

vars == <<map, mem, FreeList, FreeListLength, LastAddress, pc, out, late>>

\* The k-th word of the stack, counting from 0.
SlotPage(k) == FreeList + (k \div W)
Stacked(k) == mem[SlotPage(k)][k % W]

Held(p) == out[p] > 0

Init ==
    /\ map \in Maps
    /\ mem = [p \in Frame |-> EmptyPage]
    /\ FreeList = NULL /\ FreeListLength = 0 /\ LastAddress = 0
    /\ pc = "boot"
    /\ out = [p \in Frame |-> 0]
    /\ late = FALSE

CreatePMM ==
    /\ pc = "boot"
    /\ FreeList' = LargestBase(map)
    /\ pc' = "up"
    /\ UNCHANGED <<map, mem, FreeListLength, LastAddress, out, late>>

\* Faulty: memset runs on into the page behind.
GiveOutClearsTwo(p, empty) ==
    /\ out' = [out EXCEPT ![p] = @ + 1]
    /\ mem' = IF empty
              THEN [q \in Frame |-> IF q \in {p, p + 1} THEN EmptyPage ELSE mem[q]]
              ELSE mem

\* AllocatePage returns p; AllocateEmptyPage then clears it.
GiveOut(p, empty) ==
    /\ out' = [out EXCEPT ![p] = @ + 1]
    /\ mem' = IF empty THEN [mem EXCEPT ![p] = EmptyPage] ELSE mem

\* Faulty: the page stays on the stack.
AllocateStackedKeeps(empty) ==
    /\ pc = "up"
    /\ FreeListLength > 0
    /\ GiveOut(Stacked(FreeListLength - 1), empty)
    /\ UNCHANGED <<map, FreeList, FreeListLength, LastAddress, pc, late>>

\* AllocatePage takes the page on top of the stack.
AllocateStacked(empty) ==
    /\ pc = "up"
    /\ FreeListLength > 0
    /\ FreeListLength' = FreeListLength - 1
    /\ GiveOut(Stacked(FreeListLength - 1), empty)
    /\ UNCHANGED <<map, FreeList, LastAddress, pc, late>>

\* Faulty: LastAddress moves past the page behind as well.
AllocateScannedSkips(empty) ==
    /\ pc = "up"
    /\ FreeListLength = 0
    /\ SomePageAbove(map, LastAddress)
    /\ LastAddress' = FirstPageAbove(map, LastAddress) + 1
    /\ GiveOut(FirstPageAbove(map, LastAddress), empty)
    /\ UNCHANGED <<map, FreeList, FreeListLength, pc, late>>

\* AllocatePage scans the map for the first page above LastAddress.
AllocateScanned(empty) ==
    /\ pc = "up"
    /\ FreeListLength = 0
    /\ SomePageAbove(map, LastAddress)
    /\ LastAddress' = FirstPageAbove(map, LastAddress)
    /\ GiveOut(FirstPageAbove(map, LastAddress), empty)
    /\ UNCHANGED <<map, FreeList, FreeListLength, pc, late>>

\* AllocatePage finds nothing, reports it and calls done().
AllocateFails ==
    /\ pc = "up"
    /\ FreeListLength = 0
    /\ ~SomePageAbove(map, LastAddress)
    /\ pc' = "done"
    /\ UNCHANGED <<map, mem, FreeList, FreeListLength, LastAddress, out, late>>

\* FreePage(p) by a holder of p.
FreePage(p) ==
    /\ pc = "up"
    /\ Held(p)
    /\ FreeListLength' = FreeListLength + 1
    /\ mem' = [mem EXCEPT ![SlotPage(FreeListLength)][FreeListLength % W] = p]
    /\ out' = [out EXCEPT ![p] = @ - 1]
    /\ late' = (late \/ SlotPage(FreeListLength) \in 1 .. LastAddress)
    /\ UNCHANGED <<map, FreeList, LastAddress, pc>>

\* A holder fills its page.
HolderWrite(p, v) ==
    /\ pc = "up"
    /\ Held(p)
    /\ mem' = [mem EXCEPT ![p] = [i \in Slot |-> v]]
    /\ UNCHANGED <<map, FreeList, FreeListLength, LastAddress, pc, out, late>>

\* done() halts for ever.
Done == pc = "done" /\ UNCHANGED vars

AllocatorStep ==
    \/ CreatePMM
    \/ \E empty \in BOOLEAN : AllocateStacked(empty) \/ AllocateScanned(empty)
    \/ AllocateFails
    \/ \E p \in Frame : FreePage(p)

HolderStep == \E p \in Frame, v \in Values : HolderWrite(p, v)

Next == AllocatorStep \/ HolderStep \/ Done

Spec == Init /\ [][Next]_vars
-----------------------------------------------------------------------------
\* Every variable keeps its type (the globals at Pmm.cpp:40-42).
TypeOK ==
    /\ map \in Maps
    /\ mem \in [Frame -> [Slot -> Frame]]
    /\ FreeList \in Frame /\ FreeListLength \in Nat
    /\ LastAddress \in Frame
    /\ pc \in {"boot", "up", "done"}
    /\ out \in [Frame -> Nat]
    /\ late \in BOOLEAN

OnStack == {Stacked(k) : k \in 0 .. (FreeListLength - 1)}

\* No page has two holders, none is both held and on the stack, and none is on
\* the stack twice, as long as FreePage has not written to a page that was
\* given out: the kernel never calls FreePage (Pmm.cpp:65-95, :104-108).
NoPageSharedOrStale ==
    ~late => /\ \A p \in Frame : out[p] <= 1
             /\ \A p \in OnStack : out[p] = 0
             /\ \A j, k \in 0 .. (FreeListLength - 1) :
                  j # k => Stacked(j) # Stacked(k)

\* A page with a holder is a usable page other than page 0, and page 0 never
\* gets on the stack: AllocatePage's nullptr stays free to mean failure.
OnlyUsablePagesOut ==
    ~late => \A p \in Frame : (Held(p) \/ p \in OnStack) =>
                                 p \in UsablePages(map) /\ p # 0

\* The scan and the stack lose nothing: a usable page the scan has passed has
\* a holder or is on the stack (the scan skips by address, Pmm.cpp:83).
NoPageLost ==
    ~late => \A p \in UsablePages(map) :
               (1 <= p /\ p <= LastAddress) => Held(p) \/ p \in OnStack

\* "Out of memory" is reported only when every usable page has a holder
\* (page 0 apart, which the scan cannot give out).
HaltsOnlyWhenExhausted ==
    (pc = "done" /\ ~late) => \A p \in UsablePages(map) \ {0} : Held(p)

\* No step of the allocator changes a page under its holder: neither the
\* stack's writes nor AllocateEmptyPage's memset reach a held page.
HeldPagesIntact ==
    [][(AllocatorStep /\ ~late') =>
         \A p \in Frame : Held(p) /\ out'[p] > 0 => mem'[p] = mem[p]]_vars
=============================================================================
