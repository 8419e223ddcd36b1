------------------------------- MODULE Heap -------------------------------
(***************************************************************************)
(* The kernel heap: kernel/Memory/Heap/Heap.cpp.                           *)
(*                                                                         *)
(* Addresses and lengths count 8-byte words, so the 0x10-byte granule is   *)
(* two words and a HeapSegmentHeader four: Length, Next, Last and IsFree,  *)
(* one word each.  Memory is one function from words to values, headers,   *)
(* payloads and the words at address 0 alike: a header is whatever its     *)
(* four words hold, and a client's write may land on any word of its own   *)
(* block.  malloc is modelled one loop iteration at a time, free and       *)
(* ExpandHeap whole (nothing runs between their statements: the kernel has *)
(* one thread and its interrupt handlers do not use the heap).             *)
(***************************************************************************)
EXTENDS Integers

CONSTANTS
    PageSize,   \* 4096 bytes, in words
    InitPages,  \* 512: pages CreateHeap() gives the heap
    HeapStart,  \* 0xffffffffC0000000, in words
    MaxPages,   \* most pages the physical allocator can have at CreateHeap
    MaxCalls,   \* bound: calls of malloc in one behaviour
    SizeMod,    \* 2^64 bytes, in words: size_t arithmetic wraps here
    Sizes,      \* sizes the clients ask for
    Values      \* what the clients write

NULL == 0
Align == 2      \* 0x10 bytes
HdrSize == 4    \* sizeof(HeapSegmentHeader)

\* The offsets of HeapSegmentHeader's fields.
LENGTH == 0
NEXT == 1
LAST == 2
ISFREE == 3

Top == HeapStart + MaxPages * PageSize   \* first word the heap cannot reach
Addr == 0 .. (Top - 1)

ASSUME GeometryAssumption ==
    /\ PageSize \in Nat /\ PageSize % Align = 0 /\ PageSize >= HdrSize + Align
    /\ InitPages \in Nat \ {0}
    /\ MaxPages \in Nat /\ MaxCalls \in Nat
    /\ HeapStart \in Nat /\ HeapStart % Align = 0 /\ HeapStart >= HdrSize

ASSUME SizeAssumption ==
    /\ SizeMod \in Nat /\ SizeMod % PageSize = 0
    /\ SizeMod > Top      \* physical memory ends before the address space does
    /\ Sizes \subseteq 0 .. (SizeMod - 1)
    /\ Values \subseteq Nat

VARIABLES
    heap,       \* [mem, last, segs]: memory, LastHeapHDR and, as history,
                \* the set of headers that have been linked and not merged away
    HeapEnd,    \* HeapEnd
    frames,     \* pages the heap can still get from the physical allocator (those
                \* its page tables take are not counted), in words
    pc,         \* "boot", "idle", "malloc" (inside the loop), "done" (halted)
    Size,       \* malloc's Size, rounded
    Current,    \* malloc's Current
    calls,      \* calls of malloc left
    asked,      \* history: the Size malloc was called with
    req,        \* history: req[p] = words asked for at p, 0 unless p is in use
    grown,      \* history: ExpandHeap calls of the malloc call in progress
    pristine    \* history: free and ExpandHeap have never run

vars == <<heap, HeapEnd, frames, pc, Size, Current, calls, asked, req, grown, pristine>>

HLength(m, HDR) == m[HDR + LENGTH]
HNext(m, HDR)   == m[HDR + NEXT]
HLast(m, HDR)   == m[HDR + LAST]
HIsFree(m, HDR) == m[HDR + ISFREE] # 0

Live == {p \in Addr : req[p] # 0}
-----------------------------------------------------------------------------
(* The operations on segment headers. *)

\* Faulty variants of the operations stand before the operations they vary;
\* the properties are known to notice them.  This one swallows any segment.
CombineForwardAny(h, HDR) ==
    LET next == HNext(h.mem, HDR)
        after == HNext(h.mem, next)
    IN IF next = NULL
       THEN h
       ELSE [mem |-> [h.mem EXCEPT
                        ![after + LAST] = IF after # NULL THEN HDR ELSE @,
                        ![HDR + LENGTH] = @ + HLength(h.mem, next) + HdrSize,
                        ![HDR + NEXT] = after],
             last |-> IF next = h.last THEN HDR ELSE h.last,
             segs |-> h.segs \ {next}]

\* Faulty: the swallowed header's own words are lost.
CombineForwardLosesHeader(h, HDR) ==
    LET next == HNext(h.mem, HDR)
        after == HNext(h.mem, next)
    IN IF next = NULL \/ ~HIsFree(h.mem, next)
       THEN h
       ELSE [mem |-> [h.mem EXCEPT
                        ![after + LAST] = IF after # NULL THEN HDR ELSE @,
                        ![HDR + LENGTH] = @ + HLength(h.mem, next),
                        ![HDR + NEXT] = after],
             last |-> IF next = h.last THEN HDR ELSE h.last,
             segs |-> h.segs \ {next}]

\* SegmentHeaderCombineForward: swallow the segment after HDR if it is free.
SegmentHeaderCombineForward(h, HDR) ==
    LET next == HNext(h.mem, HDR)
        after == HNext(h.mem, next)
        relinked == IF after # NULL THEN [h.mem EXCEPT ![after + LAST] = HDR]
                                    ELSE h.mem
    IN IF next = NULL \/ ~HIsFree(h.mem, next)
       THEN h
       ELSE [mem |-> [relinked EXCEPT
                        ![HDR + LENGTH] = @ + HLength(h.mem, next) + HdrSize,
                        ![HDR + NEXT] = after],
             last |-> IF next = h.last THEN HDR ELSE h.last,
             segs |-> h.segs \ {next}]

\* SegmentHeaderCombineBackward: let the segment before HDR swallow it.
SegmentHeaderCombineBackward(h, HDR) ==
    LET prev == HLast(h.mem, HDR)
    IN IF prev # NULL /\ HIsFree(h.mem, prev)
       THEN SegmentHeaderCombineForward(h, prev)
       ELSE h

\* Faulty: LastHeapHDR stays.
SplitForgetsLast(h, HDR, Length) ==
    LET SplitSegmentLength == HLength(h.mem, HDR) - Length - HdrSize
        NewHDR == HDR + Length + HdrSize
        next == HNext(h.mem, HDR)
    IN IF Length < Align \/ SplitSegmentLength < Align
       THEN h
       ELSE [mem |-> [h.mem EXCEPT
                        ![next + LAST] = NewHDR,
                        ![NewHDR + NEXT] = next,
                        ![HDR + NEXT] = NewHDR,
                        ![NewHDR + LAST] = HDR,
                        ![NewHDR + LENGTH] = SplitSegmentLength,
                        ![NewHDR + ISFREE] = h.mem[HDR + ISFREE],
                        ![HDR + LENGTH] = Length],
             last |-> h.last,
             segs |-> h.segs \cup {NewHDR}]

\* SegmentHeaderSplit: cut HDR down to Length words, the rest becoming a
\* segment of its own.  Line 136 writes through HDR->Next even when it is
\* null: the word at address NULL + LAST.
SegmentHeaderSplit(h, HDR, Length) ==
    LET SplitSegmentLength == HLength(h.mem, HDR) - Length - HdrSize
        NewHDR == HDR + Length + HdrSize
        next == HNext(h.mem, HDR)
    IN IF Length < Align \/ SplitSegmentLength < Align
       THEN h
       ELSE [mem |-> [h.mem EXCEPT
                        ![next + LAST] = NewHDR,
                        ![NewHDR + NEXT] = next,
                        ![HDR + NEXT] = NewHDR,
                        ![NewHDR + LAST] = HDR,
                        ![NewHDR + LENGTH] = SplitSegmentLength,
                        ![NewHDR + ISFREE] = h.mem[HDR + ISFREE],
                        ![HDR + LENGTH] = Length],
             last |-> IF h.last = HDR THEN NewHDR ELSE h.last,
             segs |-> h.segs \cup {NewHDR}]

\* ExpandHeap's new pages, zeroed, become one free segment behind LastHeapHDR.
AppendSegment(h, end, bytes) ==
    LET mapped == [a \in Addr |-> IF end <= a /\ a < end + bytes THEN 0 ELSE h.mem[a]]
    IN [mem |-> [mapped EXCEPT
                   ![end + ISFREE] = 1,
                   ![end + LAST] = h.last,
                   ![h.last + NEXT] = end,
                   ![end + NEXT] = NULL,
                   ![end + LENGTH] = bytes - HdrSize],
        last |-> end,
        segs |-> h.segs \cup {end}]

\* Rounding a size_t up to a multiple of unit; the addition may wrap to 0.
RoundUp(n, unit) ==
    IF n % unit > 0 THEN (n - (n % unit) + unit) % SizeMod ELSE n
-----------------------------------------------------------------------------
Init ==
    /\ heap = [mem |-> [a \in Addr |-> 0], last |-> NULL, segs |-> {}]
    /\ HeapEnd = HeapStart
    /\ frames \in {n * PageSize : n \in 0 .. MaxPages}
    /\ pc = "boot"
    /\ Size = 0 /\ Current = NULL /\ asked = 0
    /\ calls = MaxCalls
    /\ req = [p \in Addr |-> 0]
    /\ grown = 0
    /\ pristine = TRUE

\* The pages run out: AllocatePage prints "Out of memory" and calls done().
OutOfPages ==
    /\ pc' = "done"
    /\ frames' = 0

\* CreateHeap(): one page for the global system data, then InitPages pages
\* holding a single free segment.
CreateHeap ==
    /\ pc = "boot"
    /\ \/ /\ frames >= InitPages * PageSize + PageSize
          /\ frames' = frames - (InitPages * PageSize + PageSize)
          /\ HeapEnd' = HeapStart + InitPages * PageSize
          /\ heap' = [mem |-> [heap.mem EXCEPT
                                 ![HeapStart + LENGTH] = InitPages * PageSize - HdrSize,
                                 ![HeapStart + NEXT] = NULL,
                                 ![HeapStart + LAST] = NULL,
                                 ![HeapStart + ISFREE] = 1],
                      last |-> HeapStart,
                      segs |-> {HeapStart}]
          /\ pc' = "idle"
       \/ /\ frames < InitPages * PageSize + PageSize
          /\ OutOfPages
          /\ UNCHANGED <<heap, HeapEnd>>
    /\ UNCHANGED <<Size, Current, calls, asked, req, grown, pristine>>

\* Faulty: the walk starts at the last segment.
MallocCallAtLast(n) ==
    /\ pc = "idle"
    /\ calls > 0
    /\ calls' = calls - 1
    /\ RoundUp(n, Align) # 0
    /\ pc' = "malloc"
    /\ Size' = RoundUp(n, Align)
    /\ Current' = heap.last
    /\ asked' = n
    /\ grown' = 0
    /\ UNCHANGED <<heap, HeapEnd, frames, req, pristine>>

\* malloc up to the loop: a Size that rounds to 0 is reported as out of memory.
MallocCall(n) ==
    /\ pc = "idle"
    /\ calls > 0
    /\ calls' = calls - 1
    /\ IF RoundUp(n, Align) = 0
       THEN /\ pc' = "done"
            /\ UNCHANGED <<Size, Current, asked, grown>>
       ELSE /\ pc' = "malloc"
            /\ Size' = RoundUp(n, Align)
            /\ Current' = HeapStart
            /\ asked' = n
            /\ grown' = 0
    /\ UNCHANGED <<heap, HeapEnd, frames, req, pristine>>

\* Faulty: counts the header as part of the room.
FitsWithHeader(HDR) == HIsFree(heap.mem, HDR) /\ HLength(heap.mem, HDR) + HdrSize >= Size

Fits(HDR) == HIsFree(heap.mem, HDR) /\ HLength(heap.mem, HDR) >= Size

\* Faulty: a segment that had to be split stays marked free.
MallocTakeStaysFree ==
    /\ pc = "malloc"
    /\ Fits(Current)
    /\ heap' = IF HLength(heap.mem, Current) > Size
               THEN SegmentHeaderSplit(heap, Current, Size)
               ELSE [heap EXCEPT !.mem = [heap.mem EXCEPT ![Current + ISFREE] = 0]]
    /\ req' = [req EXCEPT ![Current + HdrSize] = asked]
    /\ pc' = "idle"
    /\ Size' = 0 /\ Current' = NULL /\ asked' = 0
    /\ UNCHANGED <<HeapEnd, frames, calls, grown, pristine>>

\* The loop body finds a free segment that is long enough and returns it.
MallocTake ==
    /\ pc = "malloc"
    /\ Fits(Current)
    /\ LET h == IF HLength(heap.mem, Current) > Size
                THEN SegmentHeaderSplit(heap, Current, Size)
                ELSE heap
       IN heap' = [h EXCEPT !.mem = [h.mem EXCEPT ![Current + ISFREE] = 0]]
    /\ req' = [req EXCEPT ![Current + HdrSize] = asked]
    /\ pc' = "idle"
    /\ Size' = 0 /\ Current' = NULL /\ asked' = 0
    /\ UNCHANGED <<HeapEnd, frames, calls, grown, pristine>>

\* Faulty: the walk stays where it is.
MallocNextStays ==
    /\ pc = "malloc"
    /\ ~Fits(Current)
    /\ HNext(heap.mem, Current) # NULL
    /\ UNCHANGED vars

\* The loop body passes to the next segment.
MallocNext ==
    /\ pc = "malloc"
    /\ ~Fits(Current)
    /\ HNext(heap.mem, Current) # NULL
    /\ Current' = HNext(heap.mem, Current)
    /\ UNCHANGED <<heap, HeapEnd, frames, pc, Size, calls, asked, req, grown, pristine>>

\* ExpandHeap(Length): a new segment at HeapEnd, which the segment before it
\* swallows if that one is free too.
ExpandHeap(Length) ==
    LET bytes == RoundUp(Length, PageSize)
    IN \/ /\ 0 < bytes /\ bytes <= frames
          /\ frames' = frames - bytes
          /\ HeapEnd' = HeapEnd + bytes
          /\ heap' = SegmentHeaderCombineBackward(
                        AppendSegment(heap, HeapEnd, bytes), HeapEnd)
          /\ pc' = pc
       \/ /\ bytes > frames
          /\ OutOfPages
          /\ HeapEnd' = HeapEnd + frames
          /\ heap' = heap
       \/ /\ bytes = 0             \* the rounding wrapped: the header write
          /\ pc' = "done"          \* faults on the unmapped page at HeapEnd
          /\ UNCHANGED <<heap, HeapEnd, frames>>

\* No segment fits: expand and call malloc again, which starts over.
MallocExpand ==
    /\ pc = "malloc"
    /\ ~Fits(Current)
    /\ HNext(heap.mem, Current) = NULL
    /\ ExpandHeap(Size)
    /\ Current' = HeapStart
    /\ grown' = grown + 1
    /\ pristine' = FALSE
    /\ UNCHANGED <<Size, calls, asked, req>>

MallocStep == MallocTake \/ MallocNext \/ MallocExpand

\* Faulty: free merges forward only.
FreeForwardOnly(p) ==
    /\ pc = "idle"
    /\ p \in Live
    /\ heap' = SegmentHeaderCombineForward(
                   [heap EXCEPT !.mem = [heap.mem EXCEPT ![p - HdrSize + ISFREE] = 1]],
                   p - HdrSize)
    /\ req' = [req EXCEPT ![p] = 0]
    /\ pristine' = FALSE
    /\ UNCHANGED <<HeapEnd, frames, pc, Size, Current, calls, asked, grown>>

\* free(Address).  Callers pass a block malloc returned, once.
Free(p) ==
    /\ pc = "idle"
    /\ p \in Live
    /\ LET HDR == p - HdrSize
           marked == [heap EXCEPT !.mem = [heap.mem EXCEPT ![HDR + ISFREE] = 1]]
           forward == SegmentHeaderCombineForward(marked, HDR)
       IN heap' = SegmentHeaderCombineBackward(forward, HDR)
    /\ req' = [req EXCEPT ![p] = 0]
    /\ pristine' = FALSE
    /\ UNCHANGED <<HeapEnd, frames, pc, Size, Current, calls, asked, grown>>

\* A client fills the words it asked for.
ClientWrite(p, v) ==
    /\ pc = "idle"
    /\ p \in Live
    /\ heap' = [heap EXCEPT !.mem =
                   [a \in Addr |-> IF p <= a /\ a < p + req[p] THEN v ELSE heap.mem[a]]]
    /\ UNCHANGED <<HeapEnd, frames, pc, Size, Current, calls, asked, req, grown, pristine>>

\* done() halts for ever; a kernel whose clients have made all their calls
\* rests too.
Done ==
    /\ \/ pc = "done"
       \/ pc = "idle" /\ calls = 0
    /\ UNCHANGED vars

ClientStep == \E p \in Addr, v \in Values : ClientWrite(p, v)

HeapStep ==
    \/ CreateHeap
    \/ \E n \in Sizes : MallocCall(n)
    \/ MallocTake
    \/ MallocNext
    \/ MallocExpand
    \/ \E p \in Addr : Free(p)

Next == HeapStep \/ ClientStep \/ Done

\* The loop runs on the only CPU with nothing to preempt it: it keeps going.
Spec == Init /\ [][Next]_vars /\ WF_vars(MallocStep)
-----------------------------------------------------------------------------
Up == pc \in {"idle", "malloc"}

\* Every variable keeps its type (the globals of Heap.cpp and malloc's locals).
TypeOK ==
    /\ heap \in [mem : [Addr -> Nat], last : Addr, segs : SUBSET Addr]
    /\ HeapEnd \in HeapStart .. Top
    /\ frames \in Nat
    /\ pc \in {"boot", "idle", "malloc", "done"}
    /\ Size \in 0 .. (SizeMod - 1)
    /\ Current \in Addr
    /\ asked \in 0 .. (SizeMod - 1)
    /\ req \in [Addr -> 0 .. (SizeMod - 1)]
    /\ calls \in 0 .. MaxCalls
    /\ grown \in Nat
    /\ pristine \in BOOLEAN

\* First word after the segment of HDR.
SegEnd(m, HDR) == HDR + HdrSize + HLength(m, HDR)

Tiled(h, end) ==
    /\ HeapStart \in h.segs /\ h.last \in h.segs
    /\ SegEnd(h.mem, h.last) = end
    /\ HLast(h.mem, HeapStart) = NULL
    /\ \A s \in h.segs :
         /\ HeapStart <= s
         /\ HLength(h.mem, s) >= Align
         /\ SegEnd(h.mem, s) <= end
         /\ h.mem[s + ISFREE] \in {0, 1}
         /\ SegEnd(h.mem, s) = end => HNext(h.mem, s) = NULL
         /\ SegEnd(h.mem, s) # end =>
              /\ HNext(h.mem, s) = SegEnd(h.mem, s)
              /\ SegEnd(h.mem, s) \in h.segs
              /\ HLast(h.mem, SegEnd(h.mem, s)) = s
         /\ s # HeapStart =>
              /\ HLast(h.mem, s) \in h.segs
              /\ SegEnd(h.mem, HLast(h.mem, s)) = s
    /\ \A s, t \in h.segs : s < t => SegEnd(h.mem, s) <= t

\* The header list and the memory agree: the segments tile the heap from
\* HeapStart to HeapEnd with no gap and no overlap, Next leads from each to the
\* one that begins where it ends (null in the last), Last leads back, and
\* LastHeapHDR is the one that ends at HeapEnd (Split, CombineForward and
\* ExpandHeap each rewire up to four of these words).
ListIntegrity == Up => Tiled(heap, HeapEnd)

BlocksMatch(h, r) ==
    /\ \A p \in Addr : r[p] # 0 => p - HdrSize \in h.segs
    /\ \A s \in h.segs :
         /\ HIsFree(h.mem, s) => r[s + HdrSize] = 0
         /\ ~HIsFree(h.mem, s) => r[s + HdrSize] \in 1 .. HLength(h.mem, s)

\* The blocks in use are exactly the segments marked used, each at least as
\* long as was asked for (malloc and free keep IsFree and the callers agreed).
BlocksAreUsedSegments == Up => BlocksMatch(heap, req)

\* No two blocks in use share a word, none covers a header word, and all of
\* them lie in mapped heap (malloc's return values, Heap.cpp:65 and :70).
LiveBlocksDisjoint ==
    Up => \A p \in Live :
            /\ HeapStart + HdrSize <= p /\ p + req[p] <= HeapEnd
            /\ \A q \in Live : p < q => p + req[p] <= q - HdrSize
            /\ \A s \in heap.segs : p + req[p] <= s \/ s + HdrSize <= p

Coalesced(h, end) ==
    \A s \in h.segs : (HIsFree(h.mem, s) /\ SegEnd(h.mem, s) # end)
                          => ~HIsFree(h.mem, SegEnd(h.mem, s))

\* free and ExpandHeap leave no two neighbouring free segments, so free memory
\* never stays cut into pieces (Heap.cpp:84, :85 and :109).
NoAdjacentFree == Up => Coalesced(heap, HeapEnd)

\* Once everything has been freed the heap is a single free segment again:
\* no header survives its block and no memory is lost between blocks.
NothingLeaks ==
    (Up /\ Live = {}) => /\ heap.segs = {HeapStart}
                         /\ SegEnd(heap.mem, HeapStart) = HeapEnd
                         /\ HIsFree(heap.mem, HeapStart)

\* Memory malloc hands out is zero as long as nothing was freed and the heap
\* never grew; AhciDriver counts its ports up from such a word without setting
\* it first (Ahci.cpp:150-168).
FreshMemoryIsZero ==
    (Up /\ pristine) =>
        \A s \in heap.segs : HIsFree(heap.mem, s) =>
            \A a \in (s + HdrSize) .. (SegEnd(heap.mem, s) - 1) : heap.mem[a] = 0

\* The walk has passed over no segment that would have fitted, so ExpandHeap
\* runs only when the heap cannot serve the request (Heap.cpp:57-76).
WalkSkipsNoFit ==
    pc = "malloc" => /\ Current \in heap.segs
                     /\ \A s \in heap.segs : s < Current => ~Fits(s)

\* A call of malloc expands the heap at most twice: a first expansion may fall
\* short of Size by the header it has to hold, a second cannot.
AtMostTwoExpansions == grown <= 2

\* No step of the allocator changes a word of a block that stays in use, and
\* no client's write changes a word outside its block (Heap.cpp:136 and :119
\* write through pointers taken from memory).
BlocksIntact ==
    [][HeapStep => \A p \in Live : (req'[p] # 0) =>
           \A a \in p .. (p + req[p] - 1) : heap'.mem[a] = heap.mem[a]]_vars

\* malloc always returns or halts the machine: the recursion at Heap.cpp:77
\* cannot repeat for ever.
MallocTerminates == (pc = "malloc") ~> (pc \in {"idle", "done"})

Allocator == INSTANCE AllocatorSpec WITH
    ArenaStart <- HeapStart,
    block <- req,
    arenaEnd <- HeapEnd,
    status <- CASE pc = "boot" -> "closed"
                [] pc = "done" -> "stopped"
                [] OTHER -> "open"

\* The heap implements the allocator its callers see.
ImplementsAllocator == Allocator!Spec
=============================================================================
