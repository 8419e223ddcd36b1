---------------------------- MODULE HeapProofs ----------------------------
(***************************************************************************)
(* The theorems about the kernel heap, for every page size, heap size,     *)
(* amount of physical memory and every sequence of requests.               *)
(***************************************************************************)
EXTENDS HeapLemmas

USE DEF NULL, Align, HdrSize, LENGTH, NEXT, LAST, ISFREE,
        HLength, HNext, HLast, HIsFree, SegEnd

(* The inductive invariant, and why CreateHeap and every step of malloc keep  *)
(* it.                                                                        *)

\* How far the expansions of one malloc call have brought the last segment.
ExpansionProgress ==
    pc = "malloc" =>
      /\ grown >= 1 => /\ HIsFree(heap.mem, heap.last)
                       /\ HLength(heap.mem, heap.last) + HdrSize >= Size
      /\ grown >= 2 => HLength(heap.mem, heap.last) >= Size

\* The inductive invariant.
IInv ==
    /\ TypeOK
    /\ HeapEnd + frames <= Top
    /\ ListIntegrity
    /\ BlocksAreUsedSegments
    /\ NoAdjacentFree
    /\ pc = "boot" => req = [p \in Addr |-> 0] /\ HeapEnd = HeapStart
    /\ pc = "malloc" => Size >= 2 /\ asked \in 1 .. Size
    /\ WalkSkipsNoFit
    /\ ExpansionProgress
    /\ AtMostTwoExpansions

\* While the heap is up it is well-formed.
LEMMA UpGood ==
  ASSUME IInv, Up
  PROVE  /\ GoodHeap(heap, HeapEnd) /\ BlocksMatch(heap, req)
         /\ CoalescedBut(heap, HeapEnd, {}) /\ req \in [Addr -> Nat]
         /\ HeapEnd \in Nat /\ frames \in Nat
<1>1. heap \in HeapType /\ HeapEnd \in HeapStart .. Top
  BY Zenon DEF IInv, TypeOK, HeapType
<1>2. Tiled(heap, HeapEnd) /\ BlocksMatch(heap, req) /\ Coalesced(heap, HeapEnd)
  BY Zenon DEF IInv, ListIntegrity, BlocksAreUsedSegments, NoAdjacentFree
<1>3. req \in [Addr -> Nat] /\ frames \in Nat
  BY SizeAssumption DEF IInv, TypeOK
<1> QED
  BY <1>1, <1>2, <1>3, CoalescedFlat, TopType DEF GoodHeap

\* The state before CreateHeap satisfies the invariant.
LEMMA InitInv == Init => IInv
<1> SUFFICES ASSUME Init
             PROVE  IInv
  BY Zenon
<1>1. Top \in Nat /\ HeapStart \in Nat /\ HeapStart >= 4 /\ HeapStart <= Top
  BY Zenon, TopType
<1>2. frames \in Nat /\ HeapStart + frames <= Top
  <2>1. PICK n \in 0 .. MaxPages : frames = n * PageSize
    BY Zenon DEF Init
  <2>2. n * PageSize <= MaxPages * PageSize /\ n * PageSize \in Nat
    BY GeometryAssumption, MulMono
  <2>3. MaxPages * PageSize \in Nat
    BY GeometryAssumption
  <2> QED
    BY <1>1, <2>1, <2>2, <2>3 DEF Top
<1>3. 0 \in Addr /\ SizeMod \in Nat /\ SizeMod > 0
  BY <1>1, SizeAssumption DEF Addr
<1>4. heap \in [mem : [Addr -> Nat], last : Addr, segs : SUBSET Addr]
  BY Zenon, <1>3 DEF Init
<1>5. req \in [Addr -> 0 .. (SizeMod - 1)]
  BY <1>3 DEF Init
<1>6. TypeOK
  BY <1>1, <1>4, <1>5, GeometryAssumption DEF Init, TypeOK
<1> QED
  BY <1>2, <1>6
  DEF Init, IInv, ListIntegrity, BlocksAreUsedSegments, NoAdjacentFree, Up, WalkSkipsNoFit,
      ExpansionProgress, AtMostTwoExpansions

\* CreateHeap establishes the invariant's structural part.
LEMMA CreateHeapInv == IInv /\ CreateHeap => IInv'
<1> SUFFICES ASSUME IInv, CreateHeap
             PROVE  IInv'
  BY Zenon
<1> DEFINE L == InitPages * PageSize
<1>1. L \in Nat /\ L >= PageSize /\ PageSize \in Nat /\ PageSize >= 6
  <2>1. InitPages \in Nat /\ 1 <= InitPages /\ PageSize \in Nat /\ PageSize >= 6
    BY GeometryAssumption
  <2>2. 1 * PageSize <= L /\ 1 * PageSize = PageSize
    BY <2>1, MulMono
  <2>3. L \in Nat
    BY <2>1, MulMono
  <2> QED
    BY Zenon, <2>1, <2>2, <2>3
<1>2. Top \in Nat /\ HeapStart \in Nat /\ HeapStart >= 4 /\ HeapStart <= Top
  BY Zenon, TopType
<1>3. TypeOK /\ HeapEnd = HeapStart /\ HeapEnd + frames <= Top /\ AtMostTwoExpansions
      /\ req = [p \in Addr |-> 0] /\ frames \in Nat
  BY Zenon DEF IInv, CreateHeap, TypeOK
<1>4. CASE frames < L + PageSize
  <2>1. pc' = "done" /\ frames' = 0 /\ UNCHANGED <<heap, HeapEnd, Size, Current, calls, asked, req, grown, pristine>>
    BY <1>1, <1>3, <1>4 DEF CreateHeap, OutOfPages
  <2>2. TypeOK'
    BY Zenon, <1>3, <2>1 DEF TypeOK
  <2>3. (HeapEnd + frames <= Top)' /\ AtMostTwoExpansions'
    BY <1>2, <1>3, <2>1 DEF AtMostTwoExpansions
  <2> QED
    BY Zenon, <2>1, <2>2, <2>3
    DEF IInv, ListIntegrity, BlocksAreUsedSegments, NoAdjacentFree, Up, WalkSkipsNoFit,
        ExpansionProgress
<1>5. CASE frames >= L + PageSize
  <2> DEFINE s == HeapStart
             e == HeapStart + L
             m == heap.mem
             k == [m EXCEPT ![s] = L - 4, ![s + 1] = 0, ![s + 2] = 0, ![s + 3] = 1]
  <2>1. /\ frames' = frames - (L + PageSize)
        /\ HeapEnd' = e
        /\ heap' = [mem |-> k, last |-> s, segs |-> {s}]
        /\ pc' = "idle"
        /\ UNCHANGED <<Size, Current, calls, asked, req, grown, pristine>>
    <3>1. s + 0 = s
      BY <1>2
    <3> QED
      BY <3>1, <1>1, <1>3, <1>5 DEF CreateHeap
  <2>2. e \in Nat /\ e + (frames - (L + PageSize)) <= Top /\ e + 6 <= Top /\ e >= s + 6
        /\ frames - (L + PageSize) \in Nat
    BY <1>1, <1>2, <1>3, <1>5
  <2>3. s \in Addr /\ s + 1 \in Addr /\ s + 2 \in Addr /\ s + 3 \in Addr /\ s + 4 \in Addr
    BY <1>2, <2>2 DEF Addr
  <2>4. m \in [Addr -> Nat] /\ L - 4 \in Nat /\ L - 4 >= 2
    BY <1>1, <1>3 DEF TypeOK
  <2>5. k \in [Addr -> Nat] /\ k[s] = L - 4 /\ k[s + 1] = 0 /\ k[s + 2] = 0 /\ k[s + 3] = 1
    BY <2>3, <2>4, <1>2
  <2> HIDE DEF k, m
  <2>6. heap' \in HeapType /\ heap'.mem = k /\ heap'.last = s /\ heap'.segs = {s}
    BY Zenon, <2>1, <2>3, <2>5 DEF HeapType
  <2>7. s + 4 + k[s] = e
    BY <1>1, <1>2, <2>5
  <2>8. Tiled(heap', e)
    <3>1. SegOK(k, {s}, e, s)
      BY <2>4, <2>5, <2>7, <1>2 DEF SegOK
    <3>2. \A t, u \in {s} : t < u => t + 4 + k[t] <= u
      BY <1>2
    <3> HIDE DEF e
    <3> QED
      BY Zenon, <3>1, <3>2, <2>5, <2>6, <2>7, TiledFlat
  <2>9. GoodHeap(heap', HeapEnd')
    BY <2>1, <2>2, <2>6, <2>8, <1>2 DEF GoodHeap
  <2>10. BlocksMatch(heap', req')
    BY <1>3, <2>1, <2>3, <2>5 DEF BlocksMatch
  <2>11. CoalescedBut(heap', HeapEnd', {})
    BY Zenon, <2>1, <2>5, <2>6, <2>7 DEF CoalescedBut
  <2>12. TypeOK'
    BY <1>3, <2>1, <2>2, <2>6, <1>2 DEF TypeOK, HeapType
  <2>13. (HeapEnd + frames <= Top)' /\ AtMostTwoExpansions'
    BY Zenon, <1>3, <2>1, <2>2 DEF AtMostTwoExpansions
  <2>14. Coalesced(heap', HeapEnd')
    BY Zenon, <2>6, <2>11, CoalescedFlat
  <2> QED
    BY Zenon, <2>1, <2>8, <2>10, <2>12, <2>13, <2>14
    DEF IInv, ListIntegrity, BlocksAreUsedSegments, NoAdjacentFree, Up, WalkSkipsNoFit,
        ExpansionProgress
<1> QED
  BY <1>1, <1>3, <1>4, <1>5

\* A call of malloc starts its walk at HeapStart.
LEMMA MallocCallInv == IInv /\ (\E n \in Sizes : MallocCall(n)) => IInv'
<1> SUFFICES ASSUME IInv, NEW n \in Sizes, MallocCall(n)
             PROVE  IInv'
  BY Zenon
<1>1. n \in 0 .. (SizeMod - 1)
  BY Zenon, SizeAssumption
<1>2. /\ RoundUp(n, Align) \in 0 .. (SizeMod - 1)
      /\ RoundUp(n, Align) # 0 => n \in 1 .. RoundUp(n, Align) /\ RoundUp(n, Align) >= 2
  BY Zenon, <1>1, RoundToAlign
<1>3. TypeOK /\ Up /\ HeapEnd + frames <= Top /\ AtMostTwoExpansions
  BY Zenon DEF IInv, MallocCall, Up
<1>4. HeapStart \in heap.segs /\ HeapStart \in Addr /\ \A s \in heap.segs : ~(s < HeapStart)
  <2>1. GoodHeap(heap, HeapEnd) /\ HeapStart \in heap.segs
    BY Zenon, <1>3, UpGood DEF GoodHeap, Tiled
  <2>2. \A s \in heap.segs : s \in Nat /\ s >= HeapStart /\ s \in Addr
    BY Zenon, <2>1, HeaderWords
  <2> QED
    BY <2>1, <2>2
<1>5. calls' \in 0 .. MaxCalls /\ UNCHANGED <<heap, HeapEnd, frames, req, pristine>>
  BY <1>3, GeometryAssumption DEF MallocCall, TypeOK
<1>6. CASE RoundUp(n, Align) = 0
  <2>1. pc' = "done" /\ UNCHANGED <<Size, Current, asked, grown>>
    BY Zenon, <1>6 DEF MallocCall
  <2>2. TypeOK'
    BY Zenon, <1>3, <1>5, <2>1 DEF TypeOK
  <2> QED
    BY Zenon, <1>3, <1>5, <2>1, <2>2
    DEF IInv, ListIntegrity, BlocksAreUsedSegments, NoAdjacentFree, Up, WalkSkipsNoFit,
        ExpansionProgress, AtMostTwoExpansions
<1>7. CASE RoundUp(n, Align) # 0
  <2>1. /\ pc' = "malloc" /\ Size' = RoundUp(n, Align) /\ Current' = HeapStart
        /\ asked' = n /\ grown' = 0
    BY Zenon, <1>7 DEF MallocCall
  <2>2. TypeOK'
    BY Zenon, <1>1, <1>2, <1>3, <1>4, <1>5, <2>1 DEF TypeOK
  <2>3. Size' >= 2 /\ asked' \in 1 .. Size'
    BY Zenon, <1>2, <1>7, <2>1
  <2>4. WalkSkipsNoFit'
    BY Zenon, <1>4, <1>5, <2>1 DEF WalkSkipsNoFit
  <2>5. ListIntegrity' /\ BlocksAreUsedSegments' /\ NoAdjacentFree'
    BY Zenon, <1>3, <1>5 DEF IInv, ListIntegrity, BlocksAreUsedSegments, NoAdjacentFree
  <2>6. ExpansionProgress' /\ AtMostTwoExpansions'
    BY <2>1 DEF ExpansionProgress, AtMostTwoExpansions
  <2> QED
    BY Zenon, <1>3, <1>5, <2>1, <2>2, <2>3, <2>4, <2>5, <2>6 DEF IInv
<1> QED
  BY Zenon, <1>6, <1>7

\* malloc takes a segment.
LEMMA MallocTakeInv ==
  ASSUME IInv, MallocTake
  PROVE  IInv' /\ SamePayload(heap.mem, heap'.mem, req)
<1> DEFINE s == Current
           g == IF heap.mem[s] > Size THEN SegmentHeaderSplit(heap, s, Size) ELSE heap
           c == [g EXCEPT !.mem = [g.mem EXCEPT ![s + ISFREE] = 0]]
<1>1. TypeOK /\ Up /\ HeapEnd + frames <= Top /\ AtMostTwoExpansions
      /\ Size >= 2 /\ asked \in 1 .. Size /\ s \in heap.segs
  BY Zenon DEF IInv, MallocTake, Up, WalkSkipsNoFit
<1>2. /\ GoodHeap(heap, HeapEnd) /\ BlocksMatch(heap, req)
      /\ CoalescedBut(heap, HeapEnd, {}) /\ req \in [Addr -> Nat]
  BY Zenon, <1>1, UpGood
<1>3. s + 0 = s /\ s + 4 \in Addr /\ 0 \in Addr
  BY <1>1, <1>2, HeaderWords, TopType DEF Addr
<1>4. heap.mem[s + 3] # 0 /\ heap.mem[s] >= Size /\ Size \in Nat
  BY <1>1, <1>3 DEF MallocTake, Fits, TypeOK
<1>5. /\ heap' = c
      /\ req' = [req EXCEPT ![s + 4] = asked]
      /\ pc' = "idle" /\ Size' = 0 /\ Current' = 0 /\ asked' = 0
      /\ UNCHANGED <<HeapEnd, frames, calls, grown, pristine>>
  BY Zenon, <1>3 DEF MallocTake
<1>6. /\ GoodHeap(c, HeapEnd) /\ BlocksMatch(c, [req EXCEPT ![s + 4] = asked])
      /\ CoalescedBut(c, HeapEnd, {})
      /\ SamePayload(heap.mem, c.mem, req)
  <2> DEFINE e == HeapEnd
  <2> HIDE DEF g, c, s, e
  <2>1. g = IF heap.mem[s] > Size THEN SegmentHeaderSplit(heap, s, Size) ELSE heap
    BY Zenon DEF g
  <2>2. c = [g EXCEPT !.mem = [g.mem EXCEPT ![s + ISFREE] = 0]]
    BY Zenon DEF c
  <2> QED
    BY Zenon, <1>1, <1>2, <1>4, <2>1, <2>2, TakeAll
<1> HIDE DEF c, g, s
<1>7. Tiled(c, HeapEnd) /\ Coalesced(c, HeapEnd) /\ c \in HeapType
  BY Zenon, <1>6, CoalescedFlat DEF GoodHeap
<1>8. TypeOK'
  <2>1. req' \in [Addr -> 0 .. (SizeMod - 1)]
    BY Zenon, <1>1, <1>3, <1>5 DEF TypeOK
  <2> QED
    BY <1>1, <1>3, <1>5, <1>7, SizeAssumption DEF TypeOK, HeapType
<1>9. IInv'
  BY Zenon, <1>1, <1>5, <1>6, <1>7, <1>8
  DEF IInv, ListIntegrity, BlocksAreUsedSegments, NoAdjacentFree, Up, WalkSkipsNoFit,
      ExpansionProgress, AtMostTwoExpansions
<1> QED
  BY Zenon, <1>5, <1>6, <1>9

\* malloc passes to the next segment.
LEMMA MallocNextInv == IInv /\ MallocNext => IInv'
<1> SUFFICES ASSUME IInv, MallocNext
             PROVE  IInv'
  BY Zenon
<1> DEFINE s == Current
           n == heap.mem[s + 1]
<1>1. TypeOK /\ Up /\ s \in heap.segs /\ \A t \in heap.segs : t < s => ~Fits(t)
  BY Zenon DEF IInv, MallocNext, Up, WalkSkipsNoFit
<1>2. GoodHeap(heap, HeapEnd)
  BY Zenon, <1>1, UpGood
<1>3. n # 0 /\ Current' = n /\ ~Fits(s)
      /\ UNCHANGED <<heap, HeapEnd, frames, pc, Size, calls, asked, req, grown, pristine>>
  BY Zenon DEF MallocNext
<1>4. n \in heap.segs /\ n = s + 4 + heap.mem[s] /\ n \in Addr
  BY <1>1, <1>2, <1>3, NextSegment, HeaderWords
<1>5. \A t \in heap.segs : t < n => ~Fits(t)
  <2> SUFFICES ASSUME NEW t \in heap.segs, t < n
               PROVE  ~Fits(t)
    BY Zenon
  <2>1. t \in Nat /\ s \in Nat
    BY Zenon, <1>1, <1>2, HeaderWords
  <2>2. s < t => s + 4 + heap.mem[s] <= t
    BY Zenon, <1>1, <1>2, TiledFlat DEF GoodHeap
  <2>3. t = s \/ t < s
    BY <2>2, <1>4, HeaderWords, <1>1, <1>2
  <2> QED
    BY Zenon, <2>3, <1>1, <1>3
<1>6. TypeOK'
  BY Zenon, <1>1, <1>3, <1>4 DEF TypeOK
<1>7. WalkSkipsNoFit'
  BY Zenon, <1>3, <1>4, <1>5 DEF WalkSkipsNoFit, Fits
<1> QED
  BY Zenon, <1>3, <1>6, <1>7
  DEF IInv, ListIntegrity, BlocksAreUsedSegments, NoAdjacentFree, Up, ExpansionProgress,
      AtMostTwoExpansions

\* Linking ExpandHeap's segment: the blocks stay as they are, and only the old
\* last segment may now have a free segment after it.
LEMMA AppendAll ==
  ASSUME NEW h, NEW e, GoodHeap(h, e), NEW r \in [Addr -> Nat], BlocksMatch(h, r),
         CoalescedBut(h, e, {}), NEW b \in Nat, b >= 6, e + b <= Top,
         NEW c, c = AppendSegment(h, e, b)
  PROVE  /\ GoodHeap(c, e + b) /\ BlocksMatch(c, r)
         /\ CoalescedBut(c, e + b, {c.mem[e + 2]})
         /\ SamePayload(h.mem, c.mem, r)
<1> DEFINE m == h.mem
           k == c.mem
           l == h.last
<1>1. /\ c.segs = h.segs \cup {e} /\ c.last = e
      /\ k[e] = b - 4 /\ k[e + 2] = l /\ k[e + 3] = 1
      /\ \A t \in h.segs : k[t] = m[t] /\ k[t + 3] = m[t + 3]
      /\ \A a \in Addr : a < e /\ a # l + 1 => k[a] = m[a]
  <2>1. AppendOutcome(h, e, b, c)
    BY Zenon, AppendEffect
  <2> QED
    BY Zenon, <2>1 DEF AppendOutcome, m, k, l
<1>2. GoodHeap(c, e + b)
  BY Zenon, AppendGood
<1>3. l \in h.segs /\ l + 4 + m[l] = e /\ \A t \in h.segs : SegOK(m, h.segs, e, t)
  BY Zenon, TiledFlat DEF GoodHeap
<1>4. \A t \in h.segs : t \in Nat /\ t + 0 = t /\ t + 6 <= e /\ e \in Nat /\ m[t] \in Nat
  BY HeaderWords
<1>5. e \notin h.segs /\ e \in Nat /\ e + 0 = e
  BY <1>3, <1>4
<1>6. r[e + 4] = 0
  <2>1. e + 4 \in Addr
    <3>1. e \in c.segs
      BY Zenon, <1>1
    <3> QED
      BY Zenon, <3>1, <1>2, HeaderWords
  <2>2. (e + 4) - 4 = e
    BY <1>5
  <2> QED
    BY Zenon, <2>1, <2>2, <1>5 DEF BlocksMatch
<1> HIDE DEF m, k, l
<1>7. BlocksMatch(c, r)
  <2>1. \A p \in Addr : r[p] # 0 => p - 4 \in c.segs
    BY Zenon, <1>1 DEF BlocksMatch
  <2>2. \A t \in c.segs : /\ k[t + 3] # 0 => r[t + 4] = 0
                          /\ ~(k[t + 3] # 0) => r[t + 4] \in 1 .. k[t]
    <3> SUFFICES ASSUME NEW t \in c.segs
                 PROVE  /\ k[t + 3] # 0 => r[t + 4] = 0
                        /\ ~(k[t + 3] # 0) => r[t + 4] \in 1 .. k[t]
      BY Zenon
    <3>1. CASE t = e
      BY <3>1, <1>1, <1>6
    <3>2. CASE t # e
      <4>1. t \in h.segs /\ k[t] = m[t] /\ k[t + 3] = m[t + 3] /\ t + 0 = t
        BY Zenon, <3>2, <1>1, <1>4
      <4> QED
        BY Zenon, <4>1 DEF BlocksMatch, m
    <3> QED
      BY Zenon, <3>1, <3>2
  <2>3. \A t \in c.segs : t + 0 = t
    BY Zenon, <1>1, <1>4, <1>5
  <2> QED
    BY Zenon, <2>1, <2>2, <2>3 DEF BlocksMatch, k
<1>8. CoalescedBut(c, e + b, {k[e + 2]})
  <2> SUFFICES ASSUME NEW t \in c.segs, t # l, k[t + 3] # 0, t + 4 + k[t] # e + b
               PROVE  k[t + 4 + k[t] + 3] = 0
    BY Zenon, <1>1 DEF CoalescedBut, k
  <2>1. t # e
    BY <1>1, <1>5
  <2>2. t \in h.segs /\ k[t] = m[t] /\ m[t + 3] # 0
    BY Zenon, <2>1, <1>1
  <2>3. t + 4 + m[t] # e
    BY SMTT(30), <2>2, <1>3, <1>4, SegmentsApart DEF m
  <2>4. t + 4 + m[t] \in h.segs /\ m[t + 4 + m[t] + 3] = 0
    BY Zenon, <2>2, <2>3, <1>3 DEF CoalescedBut, SegOK, m
  <2> QED
    BY Zenon, <2>2, <2>4, <1>1
<1>9. ASSUME NEW p \in Addr, r[p] # 0, NEW a \in p .. (p + r[p] - 1)
      PROVE  k[a] = m[a]
  <2>1. a \in Addr /\ p + r[p] <= e /\ (a < l \/ a >= l + 4)
    BY Zenon, <1>9, <1>3, PayloadHasNoHeader
  <2>2. a \in Nat /\ l \in Nat /\ p \in Nat /\ r[p] \in Nat
    BY SMTT(30), <2>1, <1>3, <1>4 DEF Addr
  <2>3. a < e /\ a # l + 1
    BY <2>1, <2>2, <1>5
  <2> QED
    BY Zenon, <2>1, <2>3, <1>1
<1>10. SamePayload(m, k, r)
  BY <1>9, Zenon DEF SamePayload
<1> QED
  BY Zenon, <1>2, <1>7, <1>8, <1>10 DEF m, k

\* How long the last segment is after ExpandHeap.
LEMMA ExpandLength ==
  ASSUME NEW h, NEW e, GoodHeap(h, e), NEW b \in Nat, b >= 6, e + b <= Top,
         NEW c, c = SegmentHeaderCombineBackward(AppendSegment(h, e, b), e)
  PROVE  /\ c.mem[c.last + 3] # 0 /\ c.last + 0 = c.last
         /\ c.mem[c.last] + 4 >= b
         /\ h.mem[h.last + 3] # 0 => c.mem[c.last] >= b
<1> DEFINE a == AppendSegment(h, e, b)
           l == h.last
<1>1. /\ GoodHeap(a, e + b) /\ a.segs = h.segs \cup {e} /\ a.last = e
      /\ a.mem[e] = b - 4 /\ a.mem[e + 2] = l /\ a.mem[e + 3] = 1
      /\ \A t \in h.segs : /\ a.mem[t] = h.mem[t] /\ a.mem[t + 3] = h.mem[t + 3]
                           /\ a.mem[t + 1] = IF t = l THEN e ELSE h.mem[t + 1]
  <2>1. AppendOutcome(h, e, b, a)
    BY Zenon, AppendEffect
  <2>2. GoodHeap(a, e + b)
    BY Zenon, AppendGood
  <2> HIDE DEF a
  <2> QED
    BY Zenon, <2>1, <2>2 DEF AppendOutcome
<1>2. l \in h.segs
  BY Zenon DEF GoodHeap, Tiled
<1>3. l \in Nat /\ l # 0 /\ e # 0 /\ e \in Nat /\ h.mem[l] \in Nat /\ l + 0 = l /\ e + 0 = e
  BY SMTT(30), <1>2, HeaderWords, TopType
<1> HIDE DEF a
<1>4. CASE h.mem[l + 3] # 0
  <2>1. l \in a.segs /\ a.mem[l + 3] # 0 /\ a.mem[l + 1] = e /\ a.mem[l] = h.mem[l]
    BY Zenon, <1>1, <1>2, <1>4
  <2>2. c = SegmentHeaderCombineForward(a, l)
    BY Zenon, <2>1, <1>1, <1>3 DEF SegmentHeaderCombineBackward, a
  <2>3. Swallows(a, l)
    BY Zenon, <2>1, <1>1, <1>3 DEF Swallows
  <2>4. /\ c.last = IF e = a.last THEN l ELSE a.last
        /\ c.mem[l] = a.mem[l] + a.mem[e] + 4
        /\ c.mem[l + 3] = a.mem[l + 3]
    <3>1. ForwardOutcome(a, l, e, c)
      BY Zenon, <1>1, <2>1, <2>2, <2>3, ForwardEffect
    <3> HIDE DEF l
    <3> QED
      BY Zenon, <3>1 DEF ForwardOutcome
  <2> QED
    BY <1>1, <1>3, <2>1, <2>4
<1>5. CASE h.mem[l + 3] = 0
  <2>1. a.mem[l + 3] = 0
    BY Zenon, <1>1, <1>2, <1>5
  <2>2. c = a
    BY Zenon, <2>1, <1>1 DEF SegmentHeaderCombineBackward, a
  <2> QED
    BY <2>2, <1>1, <1>3, <1>5
<1> QED
  BY Zenon, <1>4, <1>5

\* malloc expands the heap.
LEMMA MallocExpandInv ==
  ASSUME IInv, MallocExpand
  PROVE  IInv' /\ SamePayload(heap.mem, heap'.mem, req)
<1> DEFINE e == HeapEnd
           b == RoundUp(Size, PageSize)
           l == heap.last
           a == AppendSegment(heap, e, b)
           c == SegmentHeaderCombineBackward(a, e)
<1>1. TypeOK /\ Up /\ e + frames <= Top /\ AtMostTwoExpansions
      /\ Size >= 2 /\ asked \in 1 .. Size /\ Current \in heap.segs /\ pc = "malloc"
  BY Zenon DEF IInv, MallocExpand, Up, WalkSkipsNoFit
<1>2. /\ GoodHeap(heap, e) /\ BlocksMatch(heap, req)
      /\ CoalescedBut(heap, e, {}) /\ req \in [Addr -> Nat] /\ e \in Nat /\ frames \in Nat
  BY Zenon, <1>1, UpGood
<1>3. /\ ~Fits(Current) /\ heap.mem[Current + 1] = 0
      /\ Current' = HeapStart /\ grown' = grown + 1 /\ pristine' = FALSE
      /\ UNCHANGED <<Size, calls, asked, req>>
  BY Zenon DEF MallocExpand
<1>4. Current = l /\ l \in heap.segs
  <2>1. /\ l \in heap.segs /\ l + 4 + heap.mem[l] = e
        /\ \A t \in heap.segs : SegOK(heap.mem, heap.segs, e, t)
    BY Zenon, <1>2, TiledFlat DEF GoodHeap
  <2>2. \A t \in heap.segs : t \in Nat /\ heap.mem[t] \in Nat /\ heap.mem[t] >= 2
                             /\ t + 4 + heap.mem[t] <= e
    BY Zenon, <1>2, HeaderWords
  <2>3. Current + 4 + heap.mem[Current] = e
    BY <1>1, <1>3, <2>1, <2>2 DEF SegOK
  <2>4. CASE Current # l
    <3>1. Current + 4 + heap.mem[Current] <= l \/ l + 4 + heap.mem[l] <= Current
      BY Zenon, <1>1, <1>2, <2>1, <2>4, SegmentsApart
    <3> QED
      BY SMTT(30), <3>1, <2>1, <2>2, <2>3, <1>1
  <2> QED
    BY Zenon, <2>1, <2>4
<1>5. b \in Nat /\ (b > 0 => b >= PageSize /\ b >= Size) /\ PageSize >= 6 /\ PageSize \in Nat
      /\ Size \in Nat
  <2>1. Size \in 0 .. (SizeMod - 1)
    BY Zenon, <1>1 DEF TypeOK
  <2> QED
    BY <2>1, RoundToPage, GeometryAssumption
<1>6. l \in Nat /\ l + 0 = l /\ heap.mem[l] \in Nat /\ heap.mem[l + 3] \in {0, 1}
  BY <1>2, <1>4, HeaderWords
<1>7. ~(heap.mem[l + 3] # 0 /\ heap.mem[l] >= Size)
  BY Zenon, <1>3, <1>4, <1>6 DEF Fits
<1>8. grown \in Nat /\ grown <= 1 /\ (grown = 1 => heap.mem[l + 3] # 0)
  BY <1>1, <1>6, <1>7 DEF IInv, ExpansionProgress, TypeOK
<1> HIDE DEF b, a, c
<1>9. ExpandHeap(Size)
  BY Zenon DEF MallocExpand
<1>10. \/ /\ 0 < b /\ b <= frames
          /\ frames' = frames - b
          /\ HeapEnd' = e + b
          /\ heap' = c
          /\ pc' = pc
       \/ /\ b > frames
          /\ pc' = "done" /\ frames' = 0
          /\ HeapEnd' = e + frames
          /\ heap' = heap
       \/ /\ b = 0
          /\ pc' = "done"
          /\ UNCHANGED <<heap, HeapEnd, frames>>
  BY Zenon, <1>9 DEF ExpandHeap, OutOfPages, a, b, c
<1>11. HeapStart \in Addr /\ HeapStart \in heap.segs /\ HeapStart \in Nat
  <2>1. HeapStart \in heap.segs
    BY Zenon, <1>2 DEF GoodHeap, Tiled
  <2> QED
    BY Zenon, <2>1, <1>2, HeaderWords
<1>0. /\ grown' \in Nat /\ pristine' \in BOOLEAN /\ Current' \in Addr
      /\ Size' \in 0 .. (SizeMod - 1) /\ calls' \in 0 .. MaxCalls
      /\ asked' \in 0 .. (SizeMod - 1) /\ req' \in [Addr -> 0 .. (SizeMod - 1)]
  <2>1. pristine' \in BOOLEAN
    BY <1>3, Zenon
  <2>2. grown' \in Nat /\ Current' \in Addr
    BY SMTT(30), <1>3, <1>8, <1>11
  <2> QED
    BY Zenon, <2>1, <2>2, <1>1, <1>3 DEF TypeOK
<1>12. CASE pc' = "done" /\ heap' = heap
  <2>1. HeapEnd' \in HeapStart .. Top /\ frames' \in Nat /\ HeapEnd' + frames' <= Top
    BY <1>1, <1>10, <1>12, TopType DEF TypeOK
  <2>2. TypeOK'
    BY Zenon, <1>0, <1>1, <1>12, <2>1 DEF TypeOK
  <2>3. SamePayload(heap.mem, heap'.mem, req)
    BY Zenon, <1>12 DEF SamePayload
  <2> QED
    BY SMTT(30), <1>3, <1>8, <1>12, <2>1, <2>2, <2>3
       DEF IInv, ListIntegrity, BlocksAreUsedSegments, NoAdjacentFree, Up,
           WalkSkipsNoFit, ExpansionProgress, AtMostTwoExpansions
<1>13. CASE /\ 0 < b /\ b <= frames
            /\ frames' = frames - b
            /\ HeapEnd' = e + b
            /\ heap' = c
            /\ pc' = pc
  <2>1. b >= 6 /\ b >= Size /\ e + b <= Top /\ (e + b) + (frames - b) <= Top
        /\ frames - b \in Nat
    BY SMTT(30), <1>1, <1>2, <1>5, <1>13, TopType
  <2>2. /\ GoodHeap(a, e + b) /\ BlocksMatch(a, req)
        /\ CoalescedBut(a, e + b, {a.mem[e + 2]})
        /\ SamePayload(heap.mem, a.mem, req)
    BY Zenon, <1>2, <1>5, <2>1, AppendAll DEF a
  <2>3. e \in a.segs /\ a.mem[e + 3] # 0
    <3>1. AppendOutcome(heap, e, b, a)
      BY Zenon, <1>2, <1>5, <2>1, AppendEffect DEF a
    <3> HIDE DEF a
    <3> QED
      BY <3>1 DEF AppendOutcome
  <2>4. /\ GoodHeap(c, e + b) /\ BlocksMatch(c, req) /\ CoalescedBut(c, e + b, {})
        /\ SamePayload(a.mem, c.mem, req)
    BY Zenon, <1>2, <2>2, <2>3, BackwardAll DEF c
  <2>5. SamePayload(heap.mem, heap'.mem, req)
    BY Zenon, <1>13, <2>2, <2>4, SamePayloadTrans
  <2>6. Tiled(c, e + b) /\ Coalesced(c, e + b) /\ c \in HeapType /\ e + b \in HeapStart .. Top
    BY Zenon, <2>4, CoalescedFlat DEF GoodHeap
  <2>7. /\ c.mem[c.last + 3] # 0 /\ c.last + 0 = c.last
        /\ c.mem[c.last] + 4 >= b
        /\ heap.mem[l + 3] # 0 => c.mem[c.last] >= b
    BY Zenon, <1>2, <1>5, <2>1, ExpandLength DEF a, c
  <2>8. c.mem[c.last] \in Nat
    BY Zenon, <2>4, HeaderWords DEF GoodHeap, Tiled
  <2>9. ExpansionProgress'
    <3>1. c.mem[c.last] + 4 >= Size
      BY <2>1, <2>7, <2>8, <1>5
    <3>2. grown + 1 >= 2 => c.mem[c.last] >= Size
      BY SMTT(30), <2>1, <2>7, <2>8, <1>5, <1>8
    <3> QED
      BY Zenon, <3>1, <3>2, <2>7, <1>3, <1>13 DEF ExpansionProgress
  <2>10. TypeOK'
    BY Zenon, <1>0, <1>1, <1>13, <2>1, <2>6 DEF TypeOK, HeapType
  <2>11. WalkSkipsNoFit'
    <3>1. HeapStart \in c.segs /\ \A t \in c.segs : t \in Nat /\ t >= HeapStart
      BY Zenon, <2>4, <2>6, HeaderWords DEF Tiled
    <3>2. \A t \in c.segs : ~(t < HeapStart)
      BY SMTT(30), <3>1
    <3> QED
      BY Zenon, <3>1, <3>2, <1>3, <1>13 DEF WalkSkipsNoFit
  <2>12. ListIntegrity' /\ BlocksAreUsedSegments' /\ NoAdjacentFree'
    BY Zenon, <1>3, <1>13, <2>4, <2>6 DEF ListIntegrity, BlocksAreUsedSegments, NoAdjacentFree
  <2>13. (HeapEnd + frames <= Top)' /\ AtMostTwoExpansions'
    BY <1>3, <1>8, <1>13, <2>1 DEF AtMostTwoExpansions
  <2>14. pc' = "malloc" /\ Size' >= 2 /\ asked' \in 1 .. Size'
    BY Zenon, <1>1, <1>3, <1>13
  <2> QED
    BY Zenon, <2>5, <2>9, <2>10, <2>11, <2>12, <2>13, <2>14 DEF IInv
<1> QED
  BY Zenon, <1>10, <1>12, <1>13
-----------------------------------------------------------------------------
(* free, the clients, and the theorems. *)

\* free gives a block back.
LEMMA FreeInv ==
  ASSUME IInv, NEW p \in Addr, Free(p)
  PROVE  IInv' /\ SamePayload(heap.mem, heap'.mem, req')
<1> DEFINE e == HeapEnd
           s == p - 4
           r == [req EXCEPT ![p] = 0]
           g == [heap EXCEPT !.mem = [heap.mem EXCEPT ![s + ISFREE] = 1]]
           f == SegmentHeaderCombineForward(g, s)
           c == SegmentHeaderCombineBackward(f, s)
           q == g.mem[s + 2]
<1>1. TypeOK /\ Up /\ e + frames <= Top /\ AtMostTwoExpansions /\ req[p] # 0 /\ pc = "idle"
  BY Zenon DEF IInv, Free, Up, Live
<1>2. /\ GoodHeap(heap, e) /\ BlocksMatch(heap, req)
      /\ CoalescedBut(heap, e, {}) /\ req \in [Addr -> Nat]
  BY Zenon, <1>1, UpGood
<1>3. s \in heap.segs /\ p = s + 4 /\ s \in Nat
  <2>1. s \in heap.segs
    BY Zenon, <1>1, <1>2 DEF BlocksMatch
  <2>2. p \in Nat
    BY DEF Addr
  <2> QED
    BY <2>1, <2>2, <1>2, HeaderWords
<1>4. /\ heap' = c /\ req' = r /\ pristine' = FALSE
      /\ UNCHANGED <<HeapEnd, frames, pc, Size, Current, calls, asked, grown>>
  BY Zenon DEF Free
<1>5. r \in [Addr -> Nat] /\ r \in [Addr -> 0 .. (SizeMod - 1)]
      /\ \A u \in Addr : r[u] = IF u = p THEN 0 ELSE req[u]
  BY <1>1, SizeAssumption DEF TypeOK
<1> HIDE DEF g, f, c, q, r, s, e
<1>6. /\ GoodHeap(g, e) /\ g.segs = heap.segs
      /\ \A t \in heap.segs : /\ g.mem[t] = heap.mem[t]
                              /\ g.mem[t + 1] = heap.mem[t + 1]
                              /\ g.mem[t + 2] = heap.mem[t + 2]
                              /\ g.mem[t + 3] = IF t = s THEN 1 ELSE heap.mem[t + 3]
      /\ \A a \in Addr : a # s + 3 => g.mem[a] = heap.mem[a]
  <2>1. g = [heap EXCEPT !.mem = [heap.mem EXCEPT ![s + ISFREE] = 1]]
    BY Zenon DEF g
  <2>2. 1 \in {0, 1}
    BY Zenon
  <2>3. GoodHeap(g, e) /\ MarkOutcome(heap, s, 1, g)
    BY Zenon, <1>2, <1>3, <2>1, <2>2, MarkGood
  <2> QED
    BY Zenon, <2>3 DEF MarkOutcome
<1>7. \A t \in heap.segs : t \in Nat /\ t + 0 = t /\ t + 4 \in Addr /\ heap.mem[t] \in Nat
  BY <1>2, HeaderWords
<1>8. BlocksMatch(g, r)
  <2>1. \A u \in Addr : r[u] # 0 => u - 4 \in g.segs
    BY Zenon, <1>2, <1>5, <1>6 DEF BlocksMatch
  <2>2. \A t \in g.segs : /\ g.mem[t + 3] # 0 => r[t + 4] = 0
                          /\ ~(g.mem[t + 3] # 0) => r[t + 4] \in 1 .. g.mem[t]
    <3> SUFFICES ASSUME NEW t \in g.segs
                 PROVE  /\ g.mem[t + 3] # 0 => r[t + 4] = 0
                        /\ ~(g.mem[t + 3] # 0) => r[t + 4] \in 1 .. g.mem[t]
      BY Zenon
    <3>1. t \in heap.segs /\ g.mem[t] = heap.mem[t] /\ t + 0 = t /\ t + 4 \in Addr /\ t \in Nat
      BY Zenon, <1>6, <1>7
    <3>2. CASE t = s
      BY <3>2, <1>3, <1>5, <1>6
    <3>3. CASE t # s
      <4>1. r[t + 4] = req[t + 4] /\ g.mem[t + 3] = heap.mem[t + 3]
        BY <3>1, <3>3, <1>3, <1>5, <1>6
      <4> QED
        BY Zenon, <4>1, <3>1, <1>2 DEF BlocksMatch
    <3> QED
      BY Zenon, <3>2, <3>3
  <2>3. \A t \in g.segs : t + 0 = t
    BY Zenon, <1>6, <1>7
  <2> QED
    BY Zenon, <2>1, <2>2, <2>3 DEF BlocksMatch
<1>9. CoalescedBut(g, e, {s, q})
  <2> SUFFICES ASSUME NEW t \in g.segs, t # s, t # q, g.mem[t + 3] # 0, t + 4 + g.mem[t] # e
               PROVE  g.mem[t + 4 + g.mem[t] + 3] = 0
    BY Zenon DEF CoalescedBut
  <2>1. t \in heap.segs /\ g.mem[t] = heap.mem[t] /\ heap.mem[t + 3] # 0
    BY Zenon, <1>6
  <2>2. SegOK(heap.mem, heap.segs, e, t)
    BY Zenon, <2>1, <1>2, TiledFlat DEF GoodHeap
  <2>3. /\ t + 4 + heap.mem[t] \in heap.segs
        /\ heap.mem[t + 4 + heap.mem[t] + 2] = t
        /\ heap.mem[t + 4 + heap.mem[t] + 3] = 0
    BY Zenon, <2>1, <2>2, <1>2 DEF CoalescedBut, SegOK
  <2>4. t + 4 + heap.mem[t] # s
    BY Zenon, <2>3, <1>3, <1>6 DEF q
  <2> QED
    BY <2>3, <2>4, <1>6
<1>10. /\ s \in g.segs /\ g.mem[s + 3] # 0 /\ q # s
       /\ g.mem[s + 1] # 0 => g.mem[s + 1] \notin {s, q}
  <2>1. s \in g.segs /\ g.mem[s + 3] # 0
    BY <1>3, <1>6
  <2>2. q # 0 => q \in g.segs /\ q # s /\ q + 4 + g.mem[q] = s
    BY <2>1, <1>6, LastSegment DEF q
  <2>3. g.mem[s + 1] # 0 => g.mem[s + 1] = s + 4 + g.mem[s]
    BY <2>1, <1>6, NextSegment
  <2>4. \A t \in g.segs : t \in Nat /\ t >= 4 /\ g.mem[t] \in Nat
    BY <1>6, HeaderWords, TopType
  <2>5. q # s
    BY <2>1, <2>2, <2>4
  <2>6. g.mem[s + 1] # 0 => g.mem[s + 1] # s /\ g.mem[s + 1] # q
    BY <2>1, <2>2, <2>3, <2>4
  <2> QED
    BY Zenon, <2>1, <2>5, <2>6
<1>11. /\ GoodHeap(f, e) /\ BlocksMatch(f, r) /\ SamePayload(g.mem, f.mem, r)
       /\ f.mem[s + 3] # 0 /\ s \in f.segs /\ f.mem[s + 2] = q
  <2>1. GoodHeap(f, e)
    BY Zenon, <1>6, <1>10, ForwardGood DEF f
  <2>2. /\ BlocksMatch(f, r)
        /\ f.mem[s + 3] # 0 /\ s \in f.segs /\ f.mem[s + 2] = g.mem[s + 2]
        /\ SamePayload(g.mem, f.mem, r)
    <3> HIDE DEF q, f
    <3>1. f = SegmentHeaderCombineForward(g, s)
      BY Zenon DEF f
    <3>2. KeepsBlocks(g, r, s, f)
      BY Zenon, <3>1, <1>5, <1>6, <1>8, <1>10, ForwardBlocks
    <3> QED
      BY Zenon, <3>2 DEF KeepsBlocks
  <2> QED
    BY Zenon, <2>1, <2>2 DEF q
<1>12. CoalescedBut(f, e, {f.mem[s + 2]})
  <2>1. CoalescedBut(f, e, {s, q} \ {s})
    BY Zenon, <1>6, <1>9, <1>10, ForwardCoalesces DEF f
  <2>2. {s, q} \ {s} = {q}
    BY Zenon, <1>10
  <2> QED
    BY Zenon, <2>1, <2>2, <1>11
<1>13. /\ GoodHeap(c, e) /\ BlocksMatch(c, r) /\ CoalescedBut(c, e, {})
       /\ SamePayload(f.mem, c.mem, r)
  BY Zenon, <1>5, <1>11, <1>12, BackwardAll DEF c
<1>14. SamePayload(heap.mem, g.mem, r)
  <2>1. ASSUME NEW u \in Addr, r[u] # 0, NEW a \in u .. (u + r[u] - 1)
        PROVE  g.mem[a] = heap.mem[a]
    <3>1. req[u] # 0 /\ a \in u .. (u + req[u] - 1)
      BY Zenon, <2>1, <1>5
    <3>2. a \in Addr /\ (a < s \/ a >= s + 4)
      BY Zenon, <3>1, <1>2, <1>3, PayloadHasNoHeader
    <3>3. a \in Nat
      BY <3>2 DEF Addr
    <3>4. a # s + 3
      BY <3>2, <1>3
    <3> QED
      BY Zenon, <3>2, <3>4, <1>6
  <2> QED
    BY <2>1, Zenon DEF SamePayload
<1>15. SamePayload(heap.mem, c.mem, r)
  BY Zenon, <1>11, <1>13, <1>14, SamePayloadTrans
<1>16. Tiled(c, e) /\ Coalesced(c, e) /\ c \in HeapType
  BY Zenon, <1>13, CoalescedFlat DEF GoodHeap
<1>17. TypeOK'
  <2>1. pristine' \in BOOLEAN
    BY <1>4, Zenon
  <2> QED
    BY Zenon, <2>1, <1>1, <1>4, <1>5, <1>16 DEF TypeOK, HeapType, e
<1>18. IInv'
  BY Zenon, <1>1, <1>4, <1>13, <1>16, <1>17
     DEF IInv, ListIntegrity, BlocksAreUsedSegments, NoAdjacentFree, Up,
         WalkSkipsNoFit, ExpansionProgress, AtMostTwoExpansions, e
<1> QED
  BY Zenon, <1>4, <1>15, <1>18

\* A client writes into its block.
LEMMA ClientWriteInv == IInv /\ ClientStep => IInv'
<1> SUFFICES ASSUME IInv, NEW p \in Addr, NEW v \in Values, ClientWrite(p, v)
             PROVE  IInv'
  BY Zenon DEF ClientStep
<1> DEFINE e == HeapEnd
           k == [a \in Addr |-> IF p <= a /\ a < p + req[p] THEN v ELSE heap.mem[a]]
           c == [heap EXCEPT !.mem = k]
<1>1. TypeOK /\ Up /\ e + frames <= Top /\ AtMostTwoExpansions /\ req[p] # 0 /\ pc = "idle"
  BY Zenon DEF IInv, ClientWrite, Up, Live
<1>2. /\ GoodHeap(heap, e) /\ BlocksMatch(heap, req)
      /\ CoalescedBut(heap, e, {}) /\ req \in [Addr -> Nat]
  BY Zenon, <1>1, UpGood
<1>3. heap' = c /\ UNCHANGED <<HeapEnd, frames, pc, Size, Current, calls, asked, req, grown, pristine>>
  BY Zenon DEF ClientWrite
<1>4. heap \in HeapType /\ heap.mem \in [Addr -> Nat] /\ v \in Nat
  BY Zenon, <1>1, SizeAssumption DEF TypeOK, HeapType
<1>5. k \in [Addr -> Nat]
  BY Zenon, <1>4
<1>6. \A a \in Addr : ~(p <= a /\ a < p + req[p]) => k[a] = heap.mem[a]
  BY Zenon
<1> HIDE DEF k
<1>7. ASSUME NEW t \in heap.segs
      PROVE  /\ k[t] = heap.mem[t] /\ k[t + 1] = heap.mem[t + 1]
             /\ k[t + 2] = heap.mem[t + 2] /\ k[t + 3] = heap.mem[t + 3]
             /\ k[t + 3] \in {0, 1} /\ t + 0 = t
  <2> DEFINE u == p - 4
  <2>1. p \in Nat /\ req[p] \in Nat /\ u \in heap.segs /\ p = u + 4
    BY SMTT(30), <1>1, <1>2 DEF BlocksMatch, Addr
  <2>2. /\ t \in Nat /\ t \in Addr /\ t + 1 \in Addr /\ t + 2 \in Addr /\ t + 3 \in Addr
        /\ heap.mem[t + 3] \in {0, 1} /\ heap.mem[t] \in Nat
        /\ u \in Nat /\ heap.mem[u] \in Nat
    BY Zenon, <1>2, <2>1, HeaderWords
  <2>3. req[p] <= heap.mem[u]
    <3>1. u + 0 = u /\ u + 4 = p
      BY <2>2
    <3> QED
      BY SMTT(30), <2>2, <1>2 DEF BlocksMatch
  <2>4. t # u => t + 4 + heap.mem[t] <= u \/ u + 4 + heap.mem[u] <= t
    BY Zenon, <1>2, <2>1, SegmentsApart
  <2> HIDE DEF u
  <2>5. t + 4 <= p \/ p + req[p] <= t
    BY SMTT(30), <2>1, <2>2, <2>3, <2>4
  <2> QED
    BY SMTT(30), <2>1, <2>2, <2>5, <1>6
<1>8. GoodHeap(c, e)
  BY <1>2, <1>5, <1>7, SameLinks
<1>9. c.mem = k /\ c.segs = heap.segs /\ c \in HeapType
  BY Zenon, <1>4, <1>8 DEF HeapType, GoodHeap
<1>10. BlocksMatch(c, req)
  BY <1>2, <1>7 DEF BlocksMatch
<1>11. CoalescedBut(c, e, {})
  <2>1. \A t \in heap.segs : SegOK(heap.mem, heap.segs, e, t)
    BY Zenon, <1>2, TiledFlat DEF GoodHeap
  <2>2. ASSUME NEW t \in heap.segs, k[t + 3] # 0, t + 4 + k[t] # e
        PROVE  k[t + 4 + k[t] + 3] = 0
    <3>1. heap.mem[t + 3] # 0 /\ k[t] = heap.mem[t]
      BY Zenon, <2>2, <1>7
    <3>2. t + 4 + heap.mem[t] \in heap.segs /\ heap.mem[t + 4 + heap.mem[t] + 3] = 0
      BY Zenon, <3>1, <2>1, <2>2, <1>2 DEF SegOK, CoalescedBut
    <3> QED
      BY Zenon, <3>1, <3>2, <1>7
  <2> QED
    BY Zenon, <2>2, <1>9 DEF CoalescedBut
<1>12. Tiled(c, e) /\ Coalesced(c, e)
  BY Zenon, <1>8, <1>9, <1>11, CoalescedFlat DEF GoodHeap
<1>13. TypeOK'
  BY Zenon, <1>1, <1>3, <1>9 DEF TypeOK, HeapType
<1> HIDE DEF c
<1> QED
  BY Zenon, <1>1, <1>3, <1>10, <1>12, <1>13
  DEF IInv, ListIntegrity, BlocksAreUsedSegments, NoAdjacentFree, Up, WalkSkipsNoFit,
      ExpansionProgress, AtMostTwoExpansions
-----------------------------------------------------------------------------
(* The theorems. *)

\* Every step preserves the inductive invariant.
LEMMA NextInv == IInv /\ [Next]_vars => IInv'
<1> SUFFICES ASSUME IInv, [Next]_vars
             PROVE  IInv'
  BY Zenon
<1>1. CASE CreateHeap
  BY Zenon, <1>1, CreateHeapInv
<1>2. CASE \E n \in Sizes : MallocCall(n)
  BY Zenon, <1>2, MallocCallInv
<1>3. CASE MallocTake
  BY Zenon, <1>3, MallocTakeInv
<1>4. CASE MallocNext
  BY Zenon, <1>4, MallocNextInv
<1>5. CASE MallocExpand
  BY Zenon, <1>5, MallocExpandInv
<1>6. CASE \E p \in Addr : Free(p)
  BY Zenon, <1>6, FreeInv
<1>7. CASE ClientStep
  BY Zenon, <1>7, ClientWriteInv
<1>8. CASE UNCHANGED vars
  BY Zenon, <1>8
  DEF vars, IInv, TypeOK, ListIntegrity, BlocksAreUsedSegments, NoAdjacentFree, Up, WalkSkipsNoFit,
      ExpansionProgress, AtMostTwoExpansions, Fits
<1> QED
  BY Zenon, <1>1, <1>2, <1>3, <1>4, <1>5, <1>6, <1>7, <1>8 DEF Next, HeapStep, Done

\* The inductive invariant holds in every reachable state.
THEOREM Invariance == Spec => []IInv
<1>1. Init => IInv
  BY Zenon, InitInv
<1>2. IInv /\ [Next]_vars => IInv'
  BY Zenon, NextInv
<1> QED
  BY <1>1, <1>2, PTL DEF Spec

\* Type correctness of the heap's globals and malloc's locals.
THEOREM TypeCorrect == Spec => []TypeOK
<1>1. IInv => TypeOK
  BY Zenon DEF IInv
<1> QED
  BY <1>1, Invariance, PTL

\* The header list always tiles the heap (SegmentHeaderSplit,
\* SegmentHeaderCombineForward and ExpandHeap keep it).
THEOREM ListIntegrityHolds == Spec => []ListIntegrity
<1>1. IInv => ListIntegrity
  BY Zenon DEF IInv
<1> QED
  BY <1>1, Invariance, PTL

\* free and ExpandHeap never leave two neighbouring free segments.
THEOREM NoAdjacentFreeHolds == Spec => []NoAdjacentFree
<1>1. IInv => NoAdjacentFree
  BY Zenon DEF IInv
<1> QED
  BY <1>1, Invariance, PTL

\* malloc expands the heap at most twice per call, for every page size.
THEOREM AtMostTwoExpansionsHolds == Spec => []AtMostTwoExpansions
<1>1. IInv => AtMostTwoExpansions
  BY Zenon DEF IInv
<1> QED
  BY <1>1, Invariance, PTL

\* Blocks in use never overlap each other or a header, and lie in the heap.
THEOREM LiveBlocksDisjointHolds == Spec => []LiveBlocksDisjoint
<1>1. IInv => LiveBlocksDisjoint
  <2> SUFFICES ASSUME IInv, Up, NEW p \in Addr, req[p] # 0
               PROVE  /\ HeapStart + 4 <= p /\ p + req[p] <= HeapEnd
                      /\ \A q \in Live : p < q => p + req[p] <= q - 4
                      /\ \A s \in heap.segs : p + req[p] <= s \/ s + 4 <= p
    BY Zenon DEF LiveBlocksDisjoint, Live
  <2> DEFINE u == p - 4
  <2>1. /\ GoodHeap(heap, HeapEnd) /\ BlocksMatch(heap, req) /\ req \in [Addr -> Nat]
    BY Zenon, UpGood
  <2>2. p \in Nat /\ req[p] \in Nat /\ u \in heap.segs /\ p = u + 4
    BY <2>1 DEF BlocksMatch, Addr
  <2>3. \A s \in heap.segs : /\ s \in Nat /\ heap.mem[s] \in Nat /\ s >= HeapStart
                              /\ s + 4 + heap.mem[s] <= HeapEnd
    BY Zenon, <2>1, HeaderWords
  <2>4. req[p] <= heap.mem[u]
    <3>1. u + 0 = u /\ u + 4 = p
      BY <2>2
    <3> QED
      BY <2>1, <2>2 DEF BlocksMatch
  <2>5. HeapStart \in Nat /\ HeapEnd \in Nat
    BY Zenon, TopType, UpGood
  <2> HIDE DEF u
  <2>6. HeapStart + 4 <= p /\ p + req[p] <= HeapEnd
    BY <2>2, <2>3, <2>4, <2>5
  <2>7. \A s \in heap.segs : p + req[p] <= s \/ s + 4 <= p
    <3> SUFFICES ASSUME NEW s \in heap.segs, s # u
                 PROVE  p + req[p] <= s \/ s + 4 <= p
      BY <2>2
    <3>1. s + 4 + heap.mem[s] <= u \/ u + 4 + heap.mem[u] <= s
      BY Zenon, <2>1, <2>2, SegmentsApart
    <3> QED
      BY <3>1, <2>2, <2>3, <2>4
  <2>8. \A q \in Live : p < q => p + req[p] <= q - 4
    <3> SUFFICES ASSUME NEW q \in Addr, req[q] # 0, p < q
                 PROVE  p + req[p] <= q - 4
      BY Zenon DEF Live
    <3>1. q - 4 \in heap.segs /\ q \in Nat
      BY <2>1 DEF BlocksMatch, Addr
    <3>2. p + req[p] <= q - 4 \/ (q - 4) + 4 <= p
      BY Zenon, <3>1, <2>7
    <3> QED
      BY <3>2, <2>2
  <2> QED
    BY Zenon, <2>6, <2>7, <2>8
<1> QED
  BY <1>1, Invariance, PTL

\* malloc, free and ExpandHeap never change a word of a block that stays in use.
THEOREM BlocksIntactHolds == Spec => BlocksIntact
<1> DEFINE Kept == \A p \in Live : (req'[p] # 0) =>
                     \A a \in p .. (p + req[p] - 1) : heap'.mem[a] = heap.mem[a]
<1>1. ASSUME IInv, HeapStep
      PROVE  Kept
  <2>1. CASE CreateHeap
    <3>1. Live = {}
      BY Zenon, <1>1, <2>1 DEF IInv, CreateHeap, Live
    <3> QED
      BY Zenon, <3>1
  <2>2. CASE \E n \in Sizes : MallocCall(n)
    BY Zenon, <2>2 DEF MallocCall
  <2>3. CASE MallocTake
    <3>1. SamePayload(heap.mem, heap'.mem, req)
      BY Zenon, <1>1, <2>3, MallocTakeInv
    <3> QED
      BY <3>1, Zenon DEF SamePayload, Live
  <2>4. CASE MallocNext
    BY Zenon, <2>4 DEF MallocNext
  <2>5. CASE MallocExpand
    <3>1. SamePayload(heap.mem, heap'.mem, req)
      BY Zenon, <1>1, <2>5, MallocExpandInv
    <3> QED
      BY <3>1, Zenon DEF SamePayload, Live
  <2>6. CASE \E p \in Addr : Free(p)
    <3>1. PICK p \in Addr : Free(p)
      BY Zenon, <2>6
    <3>2. SamePayload(heap.mem, heap'.mem, req')
      BY Zenon, <1>1, <3>1, FreeInv
    <3>3. ASSUME NEW u \in Live, req'[u] # 0
          PROVE  u \in Addr /\ req'[u] = req[u]
      <4>1. req' = [req EXCEPT ![p] = 0] /\ u \in Addr /\ req \in [Addr -> 0 .. (SizeMod - 1)]
        BY Zenon, <1>1, <3>1 DEF Free, Live, IInv, TypeOK
      <4> QED
        BY Zenon, <3>3, <4>1
    <3> QED
      BY <3>2, <3>3, Zenon DEF SamePayload
  <2> QED
    BY Zenon, <1>1, <2>1, <2>2, <2>3, <2>4, <2>5, <2>6 DEF HeapStep
<1>2. IInv /\ [Next]_vars => [HeapStep => Kept]_vars
  BY Zenon, <1>1
<1> QED
  BY <1>2, Invariance, PTL DEF Spec, BlocksIntact

\* Every step of the heap is a step of the allocator its callers see, or none.
LEMMA StepRefines ==
  ASSUME IInv, [Next]_vars
  PROVE  [Allocator!Next]_(Allocator!vars)
<1> DEFINE status == CASE pc = "boot" -> "closed"
                       [] pc = "done" -> "stopped"
                       [] OTHER -> "open"
<1> USE DEF Allocator!vars
<1>0. TypeOK /\ pc \in {"boot", "idle", "malloc", "done"}
  BY Zenon DEF IInv, TypeOK
<1>1. CASE CreateHeap
  <2>1. HeapEnd = HeapStart /\ HeapStart \in Nat /\ InitPages * PageSize \in Nat
        /\ InitPages * PageSize > 0 /\ pc = "boot"
    <3>1. InitPages \in Nat /\ 1 <= InitPages /\ PageSize \in Nat /\ PageSize >= 6
      BY GeometryAssumption
    <3>2. 1 * PageSize <= InitPages * PageSize /\ 1 * PageSize = PageSize
      BY <3>1, MulMono
    <3>3. InitPages * PageSize \in Nat
      BY <3>1, MulMono
    <3> QED
      BY SMTT(30), <1>1, <3>1, TopType DEF IInv, CreateHeap
  <2>2. CASE pc' = "idle" /\ HeapEnd' = HeapStart + InitPages * PageSize
    <3>1. HeapEnd' > HeapEnd
      BY <2>1, <2>2
    <3>2. req' = req
      BY Zenon, <1>1 DEF CreateHeap
    <3> QED
      BY Zenon, <2>1, <2>2, <3>1, <3>2 DEF Allocator!Next, Allocator!Open
  <2>3. CASE pc' = "done" /\ HeapEnd' = HeapEnd
    <3>1. HeapEnd' >= HeapEnd
      BY <2>1, <2>3
    <3>2. req' = req
      BY Zenon, <1>1 DEF CreateHeap
    <3> QED
      BY Zenon, <2>1, <2>3, <3>1, <3>2 DEF Allocator!Next, Allocator!Stop
  <2> QED
    BY Zenon, <1>1, <2>2, <2>3 DEF CreateHeap, OutOfPages
<1>2. CASE \E n \in Sizes : MallocCall(n)
  <2>1. pc = "idle" /\ req' = req /\ HeapEnd' = HeapEnd /\ pc' \in {"done", "malloc"}
    BY Zenon, <1>2 DEF MallocCall
  <2>2. HeapEnd' >= HeapEnd
    BY <2>1, <1>0 DEF TypeOK
  <2>3. CASE pc' = "done"
    BY Zenon, <2>1, <2>2, <2>3 DEF Allocator!Next, Allocator!Stop
  <2>4. CASE pc' = "malloc"
    BY Zenon, <2>1, <2>4
  <2> QED
    BY Zenon, <2>1, <2>3, <2>4
<1>3. CASE MallocTake
  <2> DEFINE s == Current
             p == Current + 4
  <2>1. /\ pc = "malloc" /\ pc' = "idle" /\ HeapEnd' = HeapEnd
        /\ req' = [req EXCEPT ![p] = asked] /\ Up
        /\ s \in heap.segs /\ asked \in 1 .. Size /\ Size \in Nat
        /\ heap.mem[s + 3] # 0 /\ heap.mem[s + 0] >= Size
    BY <1>3 DEF IInv, MallocTake, Fits, WalkSkipsNoFit, TypeOK, Up
  <2>2. GoodHeap(heap, HeapEnd) /\ BlocksMatch(heap, req) /\ req \in [Addr -> Nat]
    BY Zenon, <2>1, UpGood
  <2>3. /\ s \in Nat /\ s >= HeapStart /\ s + 0 = s /\ p \in Addr /\ heap.mem[s] \in Nat
        /\ s + 4 + heap.mem[s] <= HeapEnd /\ HeapEnd \in Nat /\ HeapStart \in Nat
    BY <2>1, <2>2, HeaderWords, TopType
  <2>4. req[p] = 0 /\ req'[p] = asked
    BY Zenon, <2>1, <2>2, <2>3 DEF BlocksMatch
  <2>5. asked > 0 /\ HeapStart <= p /\ p + asked <= HeapEnd /\ asked <= heap.mem[s]
    BY <2>1, <2>3
  <2>6. ASSUME NEW q \in Addr, req[q] # 0
        PROVE  p + asked <= q \/ q + req[q] <= p
    <3> DEFINE u == q - 4
    <3>1. q \in Nat /\ req[q] \in Nat /\ u \in heap.segs /\ q = u + 4
      BY <2>6, <2>2 DEF BlocksMatch, Addr
    <3>2. u \in Nat /\ heap.mem[u] \in Nat /\ u + 0 = u
      BY SMTT(30), <3>1, <2>2, HeaderWords
    <3>3. u # s /\ req[q] <= heap.mem[u]
      <4>1. u + 4 = q
        BY Zenon, <3>1, <3>2
      <4>2. u # s
        BY Zenon, <4>1, <2>4, <2>6
      <4> QED
        BY <4>2, <3>1, <2>2, <2>6 DEF BlocksMatch
    <3>4. s + 4 + heap.mem[s] <= u \/ u + 4 + heap.mem[u] <= s
      BY Zenon, <3>1, <3>3, <2>1, <2>2, SegmentsApart
    <3> HIDE DEF u
    <3> QED
      BY <3>1, <3>2, <3>3, <3>4, <2>1, <2>3
  <2> HIDE DEF p
  <2>7. Allocator!Alloc(p)
    BY Zenon, <2>1, <2>3, <2>4, <2>5, <2>6 DEF Allocator!Alloc, Allocator!InUse, Allocator!Apart
  <2> QED
    BY Zenon, <2>3, <2>7 DEF Allocator!Next
<1>4. CASE MallocNext
  BY Zenon, <1>4 DEF MallocNext
<1>5. CASE MallocExpand
  <2> DEFINE b == RoundUp(Size, PageSize)
  <2>1. pc = "malloc" /\ req' = req /\ HeapEnd \in Nat /\ frames \in Nat /\ b \in Nat
    BY SMTT(30), <1>0, <1>5, TopType, RoundToPage DEF MallocExpand, TypeOK
  <2>2. \/ pc' = pc /\ HeapEnd' = HeapEnd + b /\ b > 0
        \/ pc' = "done" /\ HeapEnd' = HeapEnd + frames
        \/ pc' = "done" /\ HeapEnd' = HeapEnd
    BY Zenon, <1>5 DEF MallocExpand, ExpandHeap, OutOfPages
  <2> HIDE DEF b
  <2>3. CASE pc' = pc /\ HeapEnd' = HeapEnd + b /\ b > 0
    <3>1. HeapEnd' > HeapEnd
      BY <2>1, <2>3
    <3> QED
      BY Zenon, <2>1, <2>3, <3>1 DEF Allocator!Next, Allocator!Grow
  <2>4. CASE pc' = "done" /\ (HeapEnd' = HeapEnd + frames \/ HeapEnd' = HeapEnd)
    <3>1. HeapEnd' >= HeapEnd
      BY <2>1, <2>4
    <3> QED
      BY Zenon, <2>1, <2>4, <3>1 DEF Allocator!Next, Allocator!Stop
  <2> QED
    BY Zenon, <2>2, <2>3, <2>4
<1>6. CASE \E p \in Addr : Free(p)
  <2>1. PICK p \in Addr : Free(p)
    BY Zenon, <1>6
  <2>2. Allocator!Release(p)
    BY Zenon, <2>1 DEF Free, Live, Allocator!Release, Allocator!InUse
  <2> QED
    BY Zenon, <2>2 DEF Allocator!Next
<1>7. CASE ClientStep
  BY Zenon, <1>7 DEF ClientStep, ClientWrite
<1>8. CASE UNCHANGED vars
  BY Zenon, <1>8 DEF vars
<1> QED
  BY Zenon, <1>1, <1>2, <1>3, <1>4, <1>5, <1>6, <1>7, <1>8 DEF Next, HeapStep, Done

\* The heap implements the allocator its callers see, for every geometry.
THEOREM Refinement == Spec => ImplementsAllocator
<1>1. Init => Allocator!Init
  BY Zenon DEF Init, Allocator!Init
<1>2. IInv /\ [Next]_vars => [Allocator!Next]_(Allocator!vars)
  BY Zenon, StepRefines
<1> QED
  BY <1>1, <1>2, Invariance, PTL DEF Spec, ImplementsAllocator, Allocator!Spec

\* The blocks in use are the segments marked used, each long enough.
THEOREM BlocksAreUsedSegmentsHolds == Spec => []BlocksAreUsedSegments
<1>1. IInv => BlocksAreUsedSegments
  BY Zenon DEF IInv
<1> QED
  BY <1>1, Invariance, PTL

\* The walk of malloc never passes over a segment that would have served.
THEOREM WalkSkipsNoFitHolds == Spec => []WalkSkipsNoFit
<1>1. IInv => WalkSkipsNoFit
  BY Zenon DEF IInv
<1> QED
  BY <1>1, Invariance, PTL

\* With no block in use, the heap is one free segment from end to end.
THEOREM NothingLeaksHolds == Spec => []NothingLeaks
<1>1. IInv => NothingLeaks
  <2> SUFFICES ASSUME IInv, Up, \A p \in Addr : req[p] = 0
               PROVE  /\ heap.segs = {HeapStart}
                      /\ HeapStart + 4 + heap.mem[HeapStart + 0] = HeapEnd
                      /\ heap.mem[HeapStart + 3] # 0
    BY Zenon DEF NothingLeaks, Live, SegEnd, HLength, HIsFree
  <2>1. GoodHeap(heap, HeapEnd) /\ BlocksMatch(heap, req)
    BY Zenon, UpGood
  <2>2. HeapStart \in heap.segs
    BY Zenon, <2>1 DEF GoodHeap, Tiled
  <2>3. ASSUME NEW s \in heap.segs
        PROVE  /\ s \in Nat /\ heap.mem[s] \in Nat /\ s >= HeapStart
               /\ s + 4 \in Addr /\ s + 0 = s /\ s + 4 + heap.mem[s] <= HeapEnd
               /\ s + 6 <= HeapEnd
    BY <2>1, HeaderWords
  <2>4. \A s \in heap.segs : heap.mem[s + 3] # 0
    BY SMTT(30), <2>1, <2>3 DEF BlocksMatch
  <2>5. HeapStart + 4 + heap.mem[HeapStart] = HeapEnd
    <3> DEFINE t == HeapStart + 4 + heap.mem[HeapStart]
    <3> SUFFICES ASSUME t # HeapEnd PROVE FALSE
      BY Zenon
    <3>1. HeapStart + 0 = HeapStart
      BY Zenon, <2>2, <2>3
    <3>2. t \in heap.segs
      BY <2>1, <3>1 DEF GoodHeap, Tiled
    <3>3. Coalesced(heap, HeapEnd)
      BY Zenon DEF IInv, NoAdjacentFree
    <3>4. heap.mem[t + 3] = 0
      BY Zenon, <2>2, <2>4, <3>1, <3>3 DEF Coalesced, SegEnd, HLength, HIsFree
    <3> HIDE DEF t
    <3> QED
      BY Zenon, <2>4, <3>2, <3>4
  <2>6. ASSUME NEW s \in heap.segs
        PROVE  s = HeapStart
    <3> SUFFICES ASSUME s # HeapStart PROVE FALSE
      BY Zenon
    <3>1. HeapStart + 4 + heap.mem[HeapStart] <= s \/ s + 4 + heap.mem[s] <= HeapStart
      BY Zenon, <2>1, <2>2, SegmentsApart
    <3>2. HeapStart \in Nat /\ HeapEnd \in Nat
      BY Zenon, TopType, UpGood
    <3> QED
      BY <2>3, <2>5, <3>1, <3>2
  <2> QED
    BY Zenon, <2>2, <2>3, <2>4, <2>5, <2>6
<1> QED
  BY <1>1, Invariance, PTL

\* The payload of every free segment is zero.
FreeZero(h) ==
    \A s \in h.segs : h.mem[s + 3] # 0 =>
        \A a \in Addr : s + 4 <= a /\ a < s + 4 + h.mem[s] => h.mem[a] = 0

\* Cutting a free segment leaves a free segment of zeros.
LEMMA SplitZero ==
  ASSUME NEW h, NEW e, GoodHeap(h, e), FreeZero(h), NEW s \in h.segs, h.mem[s + 3] # 0,
         NEW n \in Nat, Cuts(h, s, n), NEW c, c = SegmentHeaderSplit(h, s, n)
  PROVE  FreeZero(c)
<1> DEFINE N == s + n + 4
           x == h.mem[s + 1]
<1>1. SplitOutcome(h, s, n, N, c)
  BY Zenon, SplitEffect
<1>2. /\ s \in Nat /\ s >= HeapStart /\ h.mem[s] \in Nat /\ h.mem[s] - n - 4 >= 2 /\ n >= 2
      /\ HeapStart \in Nat /\ HeapStart >= 4
  BY Zenon, HeaderWords, TopType DEF Cuts
<1>3. x # 0 => x = s + 4 + h.mem[s] /\ x \in h.segs
  BY NextSegment
<1> SUFFICES ASSUME NEW t \in c.segs, c.mem[t + 3] # 0,
                    NEW a \in Addr, t + 4 <= a, a < t + 4 + c.mem[t]
             PROVE  c.mem[a] = 0
  BY Zenon DEF FreeZero
<1>4. a \in Nat
  BY DEF Addr
<1>5. CASE t = s
  <2>1. c.mem[t] = n
    BY Zenon, <1>1, <1>5 DEF SplitOutcome
  <2>2. h.mem[a] = 0
    BY <1>2, <1>4, <1>5, <2>1 DEF FreeZero
  <2>3. a # s /\ a # s + 1 /\ a # x + 2 /\ a # N /\ a # N + 1 /\ a # N + 2 /\ a # N + 3
    BY <1>2, <1>3, <1>5, <2>1
  <2> QED
    BY Zenon, <1>1, <2>2, <2>3 DEF SplitOutcome
<1>6. CASE t = N
  <2>1. c.mem[t] = h.mem[s] - n - 4
    BY Zenon, <1>1, <1>6 DEF SplitOutcome
  <2>2. h.mem[a] = 0
    <3>1. s + 4 <= a /\ a < s + 4 + h.mem[s]
      BY <1>2, <1>4, <1>6, <2>1
    <3> QED
      BY Zenon, <3>1 DEF FreeZero
  <2>3. a # s /\ a # s + 1 /\ a # x + 2 /\ a # N /\ a # N + 1 /\ a # N + 2 /\ a # N + 3
    BY <1>2, <1>3, <1>6, <2>1
  <2> QED
    BY Zenon, <1>1, <2>2, <2>3 DEF SplitOutcome
<1>7. CASE t # s /\ t # N
  <2>1. t \in h.segs /\ c.mem[t] = h.mem[t] /\ c.mem[t + 3] = h.mem[t + 3]
    BY Zenon, <1>1, <1>7 DEF SplitOutcome
  <2>2. t \in Nat /\ h.mem[t] \in Nat /\ t >= HeapStart
    BY Zenon, <2>1, HeaderWords
  <2>3. h.mem[a] = 0
    BY Zenon, <2>1 DEF FreeZero
  <2>4. s + 4 + h.mem[s] <= t \/ t + 4 + h.mem[t] <= s
    BY Zenon, <1>7, <2>1, SegmentsApart
  <2>5. a # x + 2
    <3>1. CASE x = 0
      BY <2>2, <3>1
    <3>2. CASE x # 0 /\ x # t
      <4>1. x + 4 + h.mem[x] <= t \/ t + 4 + h.mem[t] <= x
        BY Zenon, <1>3, <2>1, <3>2, SegmentsApart
      <4>2. x \in Nat /\ h.mem[x] \in Nat
        BY Zenon, <1>3, <3>2, HeaderWords
      <4> QED
        BY <2>1, <2>2, <4>1, <4>2
    <3>3. CASE x = t
      BY <2>2, <3>3
    <3> QED
      BY Zenon, <3>1, <3>2, <3>3
  <2>6. a # s /\ a # s + 1 /\ a # N /\ a # N + 1 /\ a # N + 2 /\ a # N + 3
    BY <1>2, <2>1, <2>2, <2>4
  <2> QED
    BY Zenon, <1>1, <2>3, <2>5, <2>6 DEF SplitOutcome
<1> QED
  BY Zenon, <1>5, <1>6, <1>7

\* Taking a segment changes no word of a free one.
LEMMA MarkZero ==
  ASSUME NEW h, NEW e, GoodHeap(h, e), FreeZero(h), NEW s \in h.segs,
         NEW c, c = [h EXCEPT !.mem = [h.mem EXCEPT ![s + ISFREE] = 0]]
  PROVE  FreeZero(c)
<1>1. /\ c.segs = h.segs
      /\ \A t \in h.segs : /\ c.mem[t] = h.mem[t]
                           /\ c.mem[t + 3] = IF t = s THEN 0 ELSE h.mem[t + 3]
      /\ \A a \in Addr : a # s + 3 => c.mem[a] = h.mem[a]
  <2>1. 0 \in {0, 1}
    BY Zenon
  <2>2. MarkOutcome(h, s, 0, c)
    BY Zenon, <2>1, MarkGood
  <2> QED
    BY Zenon, <2>2 DEF MarkOutcome
<1> SUFFICES ASSUME NEW t \in h.segs, t # s, h.mem[t + 3] # 0,
                    NEW a \in Addr, t + 4 <= a, a < t + 4 + h.mem[t]
             PROVE  c.mem[a] = 0
  BY <1>1 DEF FreeZero
<1>2. s + 4 + h.mem[s] <= t \/ t + 4 + h.mem[t] <= s
  BY Zenon, SegmentsApart
<1>3. s \in Nat /\ t \in Nat /\ h.mem[s] \in Nat /\ h.mem[t] \in Nat /\ a \in Nat
  BY HeaderWords DEF Addr
<1>4. a # s + 3
  BY <1>2, <1>3
<1> QED
  BY Zenon, <1>1, <1>4 DEF FreeZero

\* As long as nothing was freed and the heap never grew, what is free is zero;
\* before CreateHeap every page is.
FreshInv ==
    /\ pc = "boot" => \A a \in Addr : heap.mem[a] = 0
    /\ Up /\ pristine => FreeZero(heap)

\* malloc and the clients keep what is free zero.
LEMMA FreshStep == IInv /\ FreshInv /\ [Next]_vars => FreshInv'
<1> SUFFICES ASSUME IInv, FreshInv, [Next]_vars, Up', pristine'
             PROVE  FreeZero(heap')
  BY Zenon DEF FreshInv, Next, HeapStep, ClientStep, CreateHeap, MallocCall, MallocTake, MallocNext,
         MallocExpand, ExpandHeap, OutOfPages, Free, ClientWrite, Done, vars
<1>1. CASE CreateHeap
  <2>1. /\ heap'.segs = {HeapStart}
        /\ heap'.mem = [heap.mem EXCEPT ![HeapStart + LENGTH] = InitPages * PageSize - HdrSize,
                                        ![HeapStart + NEXT] = NULL,
                                        ![HeapStart + LAST] = NULL,
                                        ![HeapStart + ISFREE] = 1]
    BY <1>1 DEF CreateHeap, OutOfPages, Up
  <2>2. \A a \in Addr : heap.mem[a] = 0
    BY Zenon, <1>1 DEF CreateHeap, FreshInv
  <2>3. heap.mem \in [Addr -> Nat] /\ HeapStart \in Nat /\ HeapStart + 0 = HeapStart
    BY TopType DEF IInv, TypeOK
  <2>4. ASSUME NEW a \in Addr, HeapStart + 4 <= a
        PROVE  heap'.mem[a] = 0
    <3>1. a \in Nat /\ a # HeapStart /\ a # HeapStart + 1 /\ a # HeapStart + 2 /\ a # HeapStart + 3
      BY <2>3, <2>4 DEF Addr
    <3> QED
      BY Zenon, <2>1, <2>2, <2>3, <3>1
  <2> QED
    BY Zenon, <2>1, <2>4 DEF FreeZero
<1>2. CASE MallocTake
  <2> DEFINE s == Current
             g == IF heap.mem[s] > Size THEN SegmentHeaderSplit(heap, s, Size) ELSE heap
  <2>1. Up /\ pristine /\ s \in heap.segs /\ Size \in Nat
    BY <1>2 DEF MallocTake, IInv, TypeOK, WalkSkipsNoFit, Up
  <2>2. GoodHeap(heap, HeapEnd) /\ FreeZero(heap)
    BY Zenon, <2>1, UpGood DEF FreshInv
  <2>3. s \in Nat /\ s + 0 = s /\ heap.mem[s] \in Nat
    BY <2>1, <2>2, HeaderWords
  <2>4. heap.mem[s + 3] # 0 /\ heap' = [g EXCEPT !.mem = [g.mem EXCEPT ![s + ISFREE] = 0]]
    BY Zenon, <1>2, <2>3 DEF MallocTake, Fits
  <2>5. FreeZero(g) /\ GoodHeap(g, HeapEnd) /\ s \in g.segs
    <3>1. CASE heap.mem[s] > Size /\ Cuts(heap, s, Size)
      <4>1. SplitOutcome(heap, s, Size, s + Size + 4, SegmentHeaderSplit(heap, s, Size))
        BY Zenon, <2>1, <2>2, <3>1, SplitEffect
      <4> QED
        <5>1. g = SegmentHeaderSplit(heap, s, Size)
          BY Zenon, <3>1
        <5>2. FreeZero(SegmentHeaderSplit(heap, s, Size))
          BY Zenon, <2>1, <2>2, <2>4, <3>1, SplitZero
        <5>3. GoodHeap(SegmentHeaderSplit(heap, s, Size), HeapEnd)
          BY Zenon, <2>1, <2>2, SplitGood
        <5>4. s \in SegmentHeaderSplit(heap, s, Size).segs
          BY Zenon, <2>1, <4>1 DEF SplitOutcome
        <5> QED
          BY Zenon, <5>1, <5>2, <5>3, <5>4
    <3>2. CASE ~Cuts(heap, s, Size)
      <4>1. SegmentHeaderSplit(heap, s, Size) = heap
        BY <2>1, <2>3, <3>2 DEF SegmentHeaderSplit, Cuts
      <4> QED
        BY Zenon, <2>1, <2>2, <4>1
    <3>3. CASE ~(heap.mem[s] > Size)
      BY Zenon, <2>1, <2>2, <3>3
    <3> QED
      BY Zenon, <3>1, <3>2, <3>3
  <2> HIDE DEF g, s
  <2> QED
    BY Zenon, <2>4, <2>5, MarkZero
<1>3. CASE ClientStep
  <2>1. PICK p \in Addr, v \in Values : ClientWrite(p, v)
    BY Zenon, <1>3 DEF ClientStep
  <2>2. /\ heap' = [heap EXCEPT !.mem =
                      [a \in Addr |-> IF p <= a /\ a < p + req[p] THEN v ELSE heap.mem[a]]]
        /\ req[p] # 0 /\ Up /\ pristine
    BY Zenon, <2>1 DEF ClientWrite, Live, Up
  <2>3. /\ GoodHeap(heap, HeapEnd) /\ BlocksMatch(heap, req) /\ req \in [Addr -> Nat]
        /\ FreeZero(heap) /\ heap \in HeapType
    BY Zenon, <2>2, UpGood DEF FreshInv, GoodHeap
  <2>4. p \in Nat /\ req[p] \in Nat
    BY <2>3 DEF Addr
  <2>5. /\ heap'.segs = heap.segs
        /\ \A a \in Addr : heap'.mem[a] = IF p <= a /\ a < p + req[p] THEN v ELSE heap.mem[a]
    BY Zenon, <2>2, <2>3 DEF HeapType
  <2> SUFFICES ASSUME NEW t \in heap'.segs, heap'.mem[t + 3] # 0,
                      NEW a \in Addr, t + 4 <= a, a < t + 4 + heap'.mem[t]
               PROVE  heap'.mem[a] = 0
    BY Zenon DEF FreeZero
  <2>6. /\ t \in heap.segs /\ t \in Nat /\ t \in Addr /\ t + 3 \in Addr
        /\ heap.mem[t] \in Nat /\ a \in Nat
    <3>1. t \in heap.segs
      BY Zenon, <2>5
    <3>2. t \in Nat /\ t \in Addr /\ t + 3 \in Addr /\ heap.mem[t] \in Nat
      BY Zenon, <2>3, <3>1, HeaderWords
    <3>3. a \in Nat
      BY DEF Addr
    <3> QED
      BY Zenon, <3>1, <3>2, <3>3
  <2>7. heap'.mem[t + 3] = heap.mem[t + 3] /\ heap'.mem[t] = heap.mem[t]
    <3>1. ASSUME NEW b \in Addr, p <= b, b < p + req[p]
          PROVE  b < t \/ b >= t + 4
      <4>1. b \in p .. (p + req[p] - 1)
        BY <2>4, <3>1
      <4> QED
        BY Zenon, <2>2, <2>3, <2>6, <4>1, PayloadHasNoHeader
    <3> QED
      BY <2>5, <2>6, <3>1
  <2>8. ~(p <= a /\ a < p + req[p])
    <3> SUFFICES ASSUME p <= a, a < p + req[p] PROVE FALSE
      BY Zenon
    <3>1. a \in p .. (p + req[p] - 1)
      BY <2>4
    <3>2. heap.mem[p - 4 + 3] = 0 /\ (t # p - 4 => a < t \/ a >= t + 4 + heap.mem[t])
      BY <2>2, <2>3, <3>1, PayloadHasNoHeader
    <3>3. t # p - 4
      BY Zenon, <2>7, <3>2
    <3> QED
      BY <2>6, <2>7, <3>2
  <2> QED
    BY Zenon, <2>3, <2>5, <2>6, <2>7, <2>8 DEF FreeZero
<1>4. CASE (\E n \in Sizes : MallocCall(n)) \/ MallocNext \/ Done \/ UNCHANGED vars
  <2>1. heap' = heap /\ Up /\ pristine
    BY Zenon, <1>4 DEF MallocCall, MallocNext, Done, vars, Up
  <2> QED
    BY Zenon, <2>1 DEF FreshInv
<1>5. CASE MallocExpand \/ (\E p \in Addr : Free(p))
  BY Zenon, <1>5 DEF MallocExpand, Free
<1> QED
  BY Zenon, <1>1, <1>2, <1>3, <1>4, <1>5 DEF Next, HeapStep

\* malloc hands out zeroed memory until something is freed or the heap grows.
THEOREM FreshMemoryIsZeroHolds == Spec => []FreshMemoryIsZero
<1>1. Init => FreshInv
  BY DEF Init, FreshInv, Up
<1>2. IInv /\ FreshInv => FreshMemoryIsZero
  <2> SUFFICES ASSUME IInv, FreshInv, Up, pristine,
                      NEW s \in heap.segs, HIsFree(heap.mem, s),
                      NEW a \in (s + HdrSize) .. (SegEnd(heap.mem, s) - 1)
               PROVE  heap.mem[a] = 0
    BY Zenon DEF FreshMemoryIsZero
  <2>1. GoodHeap(heap, HeapEnd)
    BY Zenon, UpGood
  <2>2. s \in Nat /\ heap.mem[s] \in Nat /\ s + 4 + heap.mem[s] <= HeapEnd
        /\ HeapEnd \in Nat /\ HeapEnd <= Top /\ Top \in Nat
    BY Zenon, <2>1, HeaderWords, TopType
  <2>3. s + 0 = s
    BY <2>2
  <2>4. a \in Addr /\ s + 4 <= a /\ a < s + 4 + heap.mem[s]
    BY <2>2 DEF Addr
  <2> QED
    BY Zenon, <2>4 DEF FreshInv, FreeZero
<1> QED
  BY <1>1, <1>2, FreshStep, Invariance, PTL DEF Spec
=============================================================================
