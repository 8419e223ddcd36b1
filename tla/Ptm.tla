-------------------------------- MODULE Ptm --------------------------------
(***************************************************************************)
(* The page tables: kernel/Memory/Paging/Ptm/Ptm.cpp, with the calls that  *)
(* CreateHeap, ExpandHeap and the AHCI driver make of it.                  *)
(*                                                                         *)
(* Addresses count pages.  A table is a physical page whose words are      *)
(* entries; a page the kernel uses for something else may hold anything,   *)
(* so a walk that strayed into it would be noticed.  Pages come from the   *)
(* scan of the memory map (Pmm; the kernel gives none back).  MapMemory is *)
(* modelled one iteration of its loop at a time.  Fanout entries to a      *)
(* table make a virtual address space of Fanout^4 pages, the part of an    *)
(* address that GetPageTableIndex looks at.                                *)
(***************************************************************************)
EXTENDS MemoryMap

CONSTANTS
    Fanout,             \* 512: entries in a table
    MaxFrame,           \* the highest page of physical memory
    Maps,               \* the memory maps the bootloader may report
    HHDM_Offset,        \* page at which the bootloader maps physical memory
    VirtualKernelStart, PhysicalKernelStart, KernelSize,
    SystemData,         \* 0xFFFFFFFFBFFFF000, the page below the heap
    HeapStart,          \* 0xffffffffC0000000
    InitHeap,           \* 512: pages CreateHeap maps before anything else runs
    MaxHeap,            \* bound: pages of heap
    Devices             \* pages of device registers and buffers

Frame == 0 .. MaxFrame
Index == 0 .. (Fanout - 1)
VPage == 0 .. (Fanout * Fanout * Fanout * Fanout - 1)
Absent == -1
EmptyTable == [i \in Index |-> Absent]
Junk == [i \in Index |-> 0]

HeapArea == HeapStart .. (HeapStart + MaxHeap - 1)
KernelArea == VirtualKernelStart .. (VirtualKernelStart + KernelSize - 1)
HhdmArea(m) == HHDM_Offset .. (HHDM_Offset + GetFullSizeOfMemory(m) - 1)
LowArea(m) == (0 .. (GetFullSizeOfMemory(m) - 1)) \cup Devices

\* The memory map is sorted, and the five ranges of virtual addresses the
\* kernel uses do not meet: x86-64 keeps them terabytes apart, SystemData aside.
ASSUME PtmAssumption ==
    /\ Fanout \in Nat \ {0} /\ MaxFrame \in Nat
    /\ InitHeap \in Nat /\ MaxHeap \in Nat /\ KernelSize \in Nat
    /\ {HHDM_Offset, VirtualKernelStart, PhysicalKernelStart, HeapStart} \subseteq Nat
    /\ PhysicalKernelStart + KernelSize <= MaxFrame + 1
    /\ Devices \subseteq Frame
    /\ HeapArea \cup KernelArea \cup {SystemData} \subseteq VPage
    /\ HeapArea \cap KernelArea = {} /\ SystemData \notin HeapArea \cup KernelArea
    /\ \A m \in Maps :
         /\ WellFormed(m, MaxFrame)
         /\ HhdmArea(m) \cup LowArea(m) \subseteq VPage
         /\ HhdmArea(m) \cap LowArea(m) = {}
         /\ (HhdmArea(m) \cup LowArea(m)) \cap
               (HeapArea \cup KernelArea \cup {SystemData}) = {}

VARIABLES
    map,                    \* MemoryMapRequest.response
    tab,                    \* contents of physical memory, as tables
    LastAddress,            \* the page the scan gave out last
    Pml4,
    CurrentVirtualPage, CurrentPhysicalPage, end,   \* of the MapMemory running
    pc,         \* "boot", the three calls of CreatePTM "identity", "kernel" and
                \* "hhdm", "up" once cr3 is loaded, "done"
    heapPages,  \* pages of heap, once CreateHeap has run; -1 before
    want,       \* history: the translations asked for
    data        \* history: pages given out for anything but tables

vars == <<map, tab, LastAddress, Pml4, CurrentVirtualPage, CurrentPhysicalPage, end,
          pc, heapPages, want, data>>
call == <<CurrentVirtualPage, CurrentPhysicalPage, end>>
-----------------------------------------------------------------------------
(* Physical memory and the allocator, as the record [tab, last, ok]; ok is   *)
(* FALSE once AllocatePage has found nothing and called done().              *)

\* Faulty: the page is not recorded as given out.
AllocateSamePage(s) ==
    IF s.ok /\ SomePageAbove(map, s.last)
    THEN LET p == FirstPageAbove(map, s.last)
         IN [page |-> p, s |-> [s EXCEPT !.tab = [s.tab EXCEPT ![p] = EmptyTable]]]
    ELSE [page |-> NULL, s |-> [s EXCEPT !.ok = FALSE]]

AllocateEmptyPage(s) ==
    IF s.ok /\ SomePageAbove(map, s.last)
    THEN LET p == FirstPageAbove(map, s.last)
         IN [page |-> p, s |-> [tab |-> [s.tab EXCEPT ![p] = EmptyTable],
                                last |-> p, ok |-> TRUE]]
    ELSE [page |-> NULL, s |-> [s EXCEPT !.ok = FALSE]]

GetPageTableIndex(v, Level) ==
    (v \div (CASE Level = 1 -> 1
               [] Level = 2 -> Fanout
               [] Level = 3 -> Fanout * Fanout
               [] Level = 4 -> Fanout * Fanout * Fanout)) % Fanout

\* Faulty: a new table every time.
GetNewPageLevel(r, index) ==
    LET a == AllocateEmptyPage(r.s)
    IN IF a.s.ok
       THEN [a EXCEPT !.s.tab = [a.s.tab EXCEPT ![r.page][index] = a.page]]
       ELSE a

\* The table an entry of r.page leads to, made if there is none.
GetNextPageLevel(r, index) ==
    IF r.s.ok /\ r.s.tab[r.page][index] = Absent
    THEN LET a == AllocateEmptyPage(r.s)
         IN IF a.s.ok
            THEN [a EXCEPT !.s.tab = [a.s.tab EXCEPT ![r.page][index] = a.page]]
            ELSE a
    ELSE [r EXCEPT !.page = IF r.s.ok THEN r.s.tab[r.page][index] ELSE NULL]

\* One iteration of MapMemory's loop.
MapPage(s, root, v, p) ==
    LET l3 == GetNextPageLevel([page |-> root, s |-> s], GetPageTableIndex(v, 4))
        l2 == GetNextPageLevel(l3, GetPageTableIndex(v, 3))
        l1 == GetNextPageLevel(l2, GetPageTableIndex(v, 2))
    IN IF l1.s.ok
       THEN [l1.s EXCEPT !.tab = [l1.s.tab EXCEPT
                                    ![l1.page][GetPageTableIndex(v, 1)] = p]]
       ELSE l1.s

Machine == [tab |-> tab, last |-> LastAddress, ok |-> TRUE]

\* The machine goes on as s, or halts there.
Becomes(s, next) ==
    /\ tab' = s.tab
    /\ LastAddress' = s.last
    /\ pc' = IF s.ok THEN next ELSE "done"
-----------------------------------------------------------------------------
Init ==
    /\ map \in Maps
    /\ tab = [p \in Frame |-> Junk]
    /\ LastAddress = 0
    /\ Pml4 = NULL
    /\ CurrentVirtualPage = 0 /\ CurrentPhysicalPage = 0 /\ end = 0
    /\ pc = "boot"
    /\ heapPages = -1
    /\ want = [v \in VPage |-> Absent]
    /\ data = {}

\* MapMemory is called.
StartMapping(v, p, size) ==
    /\ CurrentVirtualPage' = v
    /\ CurrentPhysicalPage' = p
    /\ end' = p + size

\* CreatePTM up to its first MapMemory.  Without the bootloader's answers it
\* halts.
CreatePTM(answered) ==
    /\ pc = "boot"
    /\ IF answered
       THEN LET a == AllocateEmptyPage(Machine)
            IN /\ Becomes(a.s, "identity")
               /\ Pml4' = a.page
               /\ StartMapping(0, 0, GetFullSizeOfMemory(map))
       ELSE /\ pc' = "done"
            /\ UNCHANGED <<tab, LastAddress, Pml4, call>>
    /\ UNCHANGED <<map, heapPages, want, data>>

Mapping == pc \in {"identity", "kernel", "hhdm"}

\* MapMemory maps one page and goes to the next.
MapMemoryIterate ==
    /\ Mapping
    /\ CurrentPhysicalPage < end
    /\ LET s == MapPage(Machine, Pml4, CurrentVirtualPage, CurrentPhysicalPage)
       IN /\ Becomes(s, pc)
          /\ want' = IF s.ok THEN [want EXCEPT ![CurrentVirtualPage] = CurrentPhysicalPage]
                             ELSE want
          /\ IF s.ok
             THEN /\ CurrentVirtualPage' = CurrentVirtualPage + 1
                  /\ CurrentPhysicalPage' = CurrentPhysicalPage + 1
             ELSE UNCHANGED <<CurrentVirtualPage, CurrentPhysicalPage>>
    /\ UNCHANGED <<map, Pml4, end, heapPages, data>>

\* MapMemory returns to CreatePTM, which calls it again or loads cr3.
MapMemoryReturn ==
    /\ Mapping
    /\ CurrentPhysicalPage >= end
    /\ \/ /\ pc = "identity"
          /\ pc' = "kernel"
          /\ StartMapping(VirtualKernelStart, PhysicalKernelStart, KernelSize)
       \/ /\ pc = "kernel"
          /\ pc' = "hhdm"
          /\ StartMapping(HHDM_Offset, 0, GetFullSizeOfMemory(map))
       \/ /\ pc = "hhdm"
          /\ pc' = "up"
          /\ UNCHANGED call
    /\ UNCHANGED <<map, tab, LastAddress, Pml4, heapPages, want, data>>

\* Faulty: maps the page allocated last instead of a new one.
MapStale(v) ==
    LET s == MapPage(Machine, Pml4, v, LastAddress)
    IN /\ Becomes(s, "up")
       /\ want' = IF s.ok THEN [want EXCEPT ![v] = LastAddress] ELSE want
       /\ data' = data

\* MapMemory(Pml4, v, AllocateEmptyPage(), 4096), the allocation coming first.
MapFresh(v) ==
    LET a == AllocateEmptyPage(Machine)
        s == IF a.s.ok THEN MapPage(a.s, Pml4, v, a.page) ELSE a.s
    IN /\ Becomes(s, "up")
       /\ want' = IF s.ok THEN [want EXCEPT ![v] = a.page] ELSE want
       /\ data' = IF a.s.ok THEN data \cup {a.page} ELSE data

\* CreateHeap() maps the page of system data; then it and ExpandHeap map the
\* heap, page after page.
MapSystemData ==
    /\ pc = "up" /\ heapPages = -1
    /\ MapFresh(SystemData)
    /\ heapPages' = IF pc' = "up" THEN 0 ELSE heapPages
    /\ UNCHANGED <<map, Pml4, call>>

\* Faulty: the heap starts one page early.
MapHeapPageEarly ==
    /\ pc = "up" /\ heapPages \in 0 .. (MaxHeap - 1)
    /\ MapFresh(HeapStart + heapPages - 1)
    /\ heapPages' = IF pc' = "up" THEN heapPages + 1 ELSE heapPages
    /\ UNCHANGED <<map, Pml4, call>>

MapHeapPage ==
    /\ pc = "up" /\ heapPages \in 0 .. (MaxHeap - 1)
    /\ MapFresh(HeapStart + heapPages)
    /\ heapPages' = IF pc' = "up" THEN heapPages + 1 ELSE heapPages
    /\ UNCHANGED <<map, Pml4, call>>

\* The AHCI driver maps its registers and buffers where they are.
MapDevice(p) ==
    /\ pc = "up" /\ heapPages >= InitHeap
    /\ LET s == MapPage(Machine, Pml4, p, p)
       IN /\ Becomes(s, "up")
          /\ want' = IF s.ok THEN [want EXCEPT ![p] = p] ELSE want
    /\ UNCHANGED <<map, Pml4, call, heapPages, data>>

\* Pages for the ACPI data, the AHCI structures and the disk buffer.
AllocateBuffer ==
    /\ pc = "up" /\ heapPages >= InitHeap
    /\ LET a == AllocateEmptyPage(Machine)
       IN /\ Becomes(a.s, "up")
          /\ data' = IF a.s.ok THEN data \cup {a.page} ELSE data
    /\ UNCHANGED <<map, Pml4, call, heapPages, want>>

\* A page that is not a table is written.
WriteData(p) ==
    /\ pc = "up"
    /\ p \in data
    /\ tab' = [tab EXCEPT ![p] = Junk]
    /\ UNCHANGED <<map, LastAddress, Pml4, call, pc, heapPages, want, data>>

\* done() halts for ever.
Done == pc = "done" /\ UNCHANGED vars

Next ==
    \/ \E answered \in BOOLEAN : CreatePTM(answered)
    \/ MapMemoryIterate
    \/ MapMemoryReturn
    \/ MapSystemData
    \/ MapHeapPage
    \/ \E p \in Devices : MapDevice(p)
    \/ AllocateBuffer
    \/ \E p \in data : WriteData(p)
    \/ Done

Spec == Init /\ [][Next]_vars
-----------------------------------------------------------------------------

\* How the processor translates v.
Entry(table, index) == IF table = Absent THEN Absent ELSE tab[table][index]
Translate(v) ==
    LET l3 == Entry(Pml4, GetPageTableIndex(v, 4))
        l2 == Entry(l3, GetPageTableIndex(v, 3))
        l1 == Entry(l2, GetPageTableIndex(v, 2))
    IN Entry(l1, GetPageTableIndex(v, 1))

\* The tables say what MapMemory was asked to make them say, for every address
\* and at every moment, halfway through a call and after running out of memory
\* included: the tables that calls share are extended, never replaced.
TranslationsAsAsked == Pml4 # NULL => \A v \in VPage : Translate(v) = want[v]

Links(tables) == {e \in tables \X Index : tab[e[1]][e[2]] # Absent}
Down(tables) == {tab[e[1]][e[2]] : e \in Links(tables)}

\* The tables form a tree: no page is a table in two places or at two levels,
\* none is page 0, unusable, or given out for heap, buffers or system data.
TablesApart ==
    Pml4 # NULL =>
        LET T4 == {Pml4}
            T3 == Down(T4)
            T2 == Down(T3)
            T1 == Down(T2)
            upper == T4 \cup T3 \cup T2
            all == upper \cup T1
        IN /\ T4 \cap T3 = {} /\ T4 \cap T2 = {} /\ T4 \cap T1 = {}
           /\ T3 \cap T2 = {} /\ T3 \cap T1 = {} /\ T2 \cap T1 = {}
           /\ \A e, f \in Links(upper) : e # f => tab[e[1]][e[2]] # tab[f[1]][f[2]]
           /\ all \subseteq UsablePages(map) \ {0}
           /\ all \cap data = {}

\* No two pages of heap and system data share a page of memory.
HeapPagesApart ==
    LET area == HeapArea \cup {SystemData}
    IN \A u, v \in area : (u # v /\ want[u] # Absent) => want[u] # want[v]

\* From the moment cr3 is loaded the kernel can reach, at its physical address,
\* every page the allocator may give it (AllocateEmptyPage and GetNextPageLevel
\* write to pages by physical address), and its own image.
KernelKeepsItsGround ==
    pc = "up" =>
        /\ \A p \in UsablePages(map) : Translate(p) = p /\ Translate(HHDM_Offset + p) = p
        /\ \A i \in 0 .. (KernelSize - 1) :
              Translate(VirtualKernelStart + i) = PhysicalKernelStart + i

\* Once cr3 is loaded no translation that exists ever changes: MapMemory never
\* flushes the TLB, so the processor could still be using the old one.
LiveTranslationsStay ==
    [][pc = "up" => \A v \in VPage : Translate(v) # Absent => Translate(v)' = Translate(v)]_vars
=============================================================================
