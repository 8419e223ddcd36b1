---------------------------- MODULE HeapLemmas ----------------------------
(* What the operations on segment headers do to a well-formed heap, to the *)
(* blocks in use and to neighbouring free segments.                        *)
EXTENDS Heap, TLAPS

\* Quotient and remainder.
LEMMA DivMod ==
  ASSUME NEW n \in Nat, NEW p \in Nat, p > 0
  PROVE  /\ n \div p \in Nat /\ n % p \in 0 .. (p - 1)
         /\ n = (n \div p) * p + (n % p)
  BY SMTT(30)

\* Multiplication is monotone.
LEMMA MulMono ==
  ASSUME NEW a \in Nat, NEW b \in Nat, NEW p \in Nat, a <= b
  PROVE  a * p <= b * p /\ a * p \in Nat
  BY SMTT(30)

\* Two multiples of p that differ do so by at least p.
LEMMA MulGap ==
  ASSUME NEW a \in Nat, NEW b \in Nat, NEW p \in Nat, a * p < b * p
  PROVE  a * p + p <= b * p
<1>1. a < b
  <2>1. CASE a >= b
    BY <2>1, MulMono
  <2> QED
    BY <2>1
<1>2. (a + 1) * p <= b * p
  BY <1>1, MulMono
<1>3. (a + 1) * p = a * p + p
  BY SMTT(30)
<1> QED
  BY Zenon, <1>2, <1>3

\* Reducing modulo q what is at most q.
LEMMA ModSmall ==
  ASSUME NEW x \in Nat, NEW q \in Nat, q > 0, x <= q
  PROVE  x % q = IF x = q THEN 0 ELSE x
<1>1. CASE x < q
  BY <1>1, SMTT(30)
<1>2. CASE x = q
  BY <1>2, SMTT(30)
<1> QED
  BY <1>1, <1>2

USE DEF NULL, Align, HdrSize, LENGTH, NEXT, LAST, ISFREE,
        HLength, HNext, HLast, HIsFree, SegEnd

HeapType == [mem : [Addr -> Nat], last : Addr, segs : SUBSET Addr]

\* A well-formed heap that ends at e.
GoodHeap(h, e) == h \in HeapType /\ e \in HeapStart .. Top /\ Tiled(h, e)

\* Top is an address above HeapStart.
LEMMA TopType == Top \in Nat /\ HeapStart \in Nat /\ HeapStart >= 4 /\ HeapStart <= Top
<1>1. MaxPages * PageSize \in Nat
  BY GeometryAssumption
<1> QED
  BY <1>1, GeometryAssumption DEF Top

\* The header and the first payload words of a segment are words of memory.
LEMMA HeaderWords ==
  ASSUME NEW h, NEW e, GoodHeap(h, e), NEW s \in h.segs
  PROVE  /\ s \in Nat /\ s >= HeapStart /\ s + 6 <= e /\ e \in Nat /\ e <= Top
         /\ s \in Addr /\ s + 1 \in Addr /\ s + 2 \in Addr /\ s + 3 \in Addr
         /\ h.mem[s] \in Nat /\ h.mem[s] >= 2 /\ s + 4 + h.mem[s] <= e
         /\ h.mem[s + 1] \in Nat /\ h.mem[s + 2] \in Nat /\ h.mem[s + 3] \in {0, 1}
         /\ s + 4 \in Addr
<1>1. s \in Nat /\ s \in Addr
  BY DEF GoodHeap, HeapType, Addr
<1>2. e \in Nat /\ e <= Top /\ Top \in Nat
  BY TopType DEF GoodHeap
<1>3. h.mem[s] \in Nat
  BY Zenon, <1>1 DEF GoodHeap, HeapType
<1>4. s >= HeapStart /\ h.mem[s] >= 2 /\ s + 4 + h.mem[s] <= e /\ h.mem[s + 3] \in {0, 1}
  BY <1>1 DEF GoodHeap, Tiled
<1>5. s + 1 \in Addr /\ s + 2 \in Addr /\ s + 3 \in Addr /\ s + 4 \in Addr
  BY <1>1, <1>2, <1>3, <1>4 DEF Addr
<1>6. h.mem[s + 1] \in Nat /\ h.mem[s + 2] \in Nat
  BY Zenon, <1>5 DEF GoodHeap, HeapType
<1> QED
  BY <1>1, <1>2, <1>3, <1>4, <1>5, <1>6

\* Distinct segments lie apart, header and payload.
LEMMA SegmentsApart ==
  ASSUME NEW h, NEW e, GoodHeap(h, e), NEW s \in h.segs, NEW t \in h.segs, s # t
  PROVE  s + 4 + h.mem[s] <= t \/ t + 4 + h.mem[t] <= s
<1>1. s < t \/ t < s
  BY HeaderWords
<1> QED
  BY <1>1, HeaderWords DEF GoodHeap, Tiled

\* Swallows(h, s): the condition under which SegmentHeaderCombineForward merges.
Swallows(h, s) == HNext(h.mem, s) # NULL /\ HIsFree(h.mem, HNext(h.mem, s))

\* A segment that has a Next is followed by it.
LEMMA NextSegment ==
  ASSUME NEW h, NEW e, GoodHeap(h, e), NEW s \in h.segs, h.mem[s + 1] # 0
  PROVE  /\ h.mem[s + 1] = s + 4 + h.mem[s]
         /\ h.mem[s + 1] \in h.segs
         /\ h.mem[h.mem[s + 1] + 2] = s
         /\ s + 4 + h.mem[s] # e
<1>1. s \in Nat /\ s + 0 = s
  BY HeaderWords
<1> QED
  BY <1>1 DEF GoodHeap, Tiled

\* The words of the headers after s has swallowed its successor n.
ForwardOutcome(h, s, n, c) ==
    /\ c \in HeapType
    /\ c.segs = h.segs \ {n}
    /\ c.last = IF n = h.last THEN s ELSE h.last
    /\ c.mem[s] = h.mem[s] + h.mem[n] + 4
    /\ c.mem[s + 1] = h.mem[n + 1]
    /\ c.mem[s + 2] = h.mem[s + 2]
    /\ c.mem[s + 3] = h.mem[s + 3]
    /\ \A t \in h.segs \ {s, n} :
         /\ c.mem[t] = h.mem[t]
         /\ c.mem[t + 1] = h.mem[t + 1]
         /\ c.mem[t + 2] = IF t = h.mem[n + 1] THEN s ELSE h.mem[t + 2]
         /\ c.mem[t + 3] = h.mem[t + 3]
    /\ \A a \in Addr : a # s /\ a # s + 1 /\ (h.mem[n + 1] # 0 => a # h.mem[n + 1] + 2)
                         => c.mem[a] = h.mem[a]

\* SegmentHeaderCombineForward has that outcome.
LEMMA ForwardEffect ==
  ASSUME NEW h, NEW e, GoodHeap(h, e), NEW s \in h.segs, Swallows(h, s),
         NEW c, c = SegmentHeaderCombineForward(h, s),
         NEW n, n = h.mem[s + 1]
  PROVE  ForwardOutcome(h, s, n, c)
<1> DEFINE after == h.mem[n + 1]
           m == h.mem
           rel == IF after # 0 THEN [m EXCEPT ![after + 2] = s] ELSE m
           m2 == [rel EXCEPT ![s] = @ + m[n] + 4, ![s + 1] = after]
<1>1. n # 0 /\ n = s + 4 + m[s] /\ n \in h.segs
  BY Zenon, NextSegment DEF Swallows
<1>2. c = [mem |-> m2, last |-> IF n = h.last THEN s ELSE h.last, segs |-> h.segs \ {n}]
  <2>1. h.mem[s + 0] = h.mem[s] /\ s + 0 = s /\ n + 0 = n
    BY HeaderWords
  <2> QED
    BY Zenon, <2>1, <1>1 DEF Swallows, SegmentHeaderCombineForward
<1>3. after # 0 => /\ after = n + 4 + m[n] /\ after \in h.segs
  BY <1>1, NextSegment
<1>4. m \in [Addr -> Nat] /\ h.last \in Addr /\ h.segs \subseteq Addr
  BY Zenon DEF GoodHeap, HeapType
<1>5. rel \in [Addr -> Nat]
  BY Zenon, <1>3, <1>4, HeaderWords
<1>6. /\ s \in Nat /\ n \in Nat /\ m[s] \in Nat /\ m[n] \in Nat /\ after \in Nat
      /\ s \in Addr /\ s + 1 \in Addr /\ s + 2 \in Addr /\ s + 3 \in Addr
      /\ m[s] >= 2 /\ m[n] >= 2
  BY Zenon, <1>1, HeaderWords
<1>7. rel[s] = m[s]
  BY <1>3, <1>6, <1>1
<1>8. m2 \in [Addr -> Nat]
  BY <1>5, <1>6
<1>9. \A a \in Addr : m2[a] = IF a = s + 1 THEN after
                              ELSE IF a = s THEN m[s] + m[n] + 4
                              ELSE IF after # 0 /\ a = after + 2 THEN s ELSE m[a]
  BY Zenon, <1>4, <1>5, <1>6, <1>7
<1>10. \A t \in h.segs \ {s, n} :
              /\ m2[t] = m[t]
              /\ m2[t + 1] = m[t + 1]
              /\ m2[t + 2] = IF t = after THEN s ELSE m[t + 2]
              /\ m2[t + 3] = m[t + 3]
  <2> SUFFICES ASSUME NEW t \in h.segs \ {s, n}
               PROVE  /\ m2[t] = m[t]
                      /\ m2[t + 1] = m[t + 1]
                      /\ m2[t + 2] = IF t = after THEN s ELSE m[t + 2]
                      /\ m2[t + 3] = m[t + 3]
    BY Zenon
  <2>1. /\ t \in Nat /\ t \in Addr /\ t + 1 \in Addr /\ t + 2 \in Addr /\ t + 3 \in Addr
        /\ t >= 4 /\ m[t] \in Nat /\ m[t] >= 2
    BY HeaderWords, TopType
  <2>2. s + 6 <= t \/ t + 6 <= s
    BY <2>1, <1>6, SegmentsApart
  <2>3. (after # 0 /\ t # after) => after + 6 <= t \/ t + 6 <= after
    BY <1>3, SegmentsApart, HeaderWords
  <2> HIDE DEF m2, rel, after, m
  <2> QED
    BY SMTT(30), <1>6, <1>9, <2>1, <2>2, <2>3
<1>11. m2[s + 2] = m[s + 2] /\ m2[s + 3] = m[s + 3]
  <2> HIDE DEF m2, rel
  <2> QED
    BY <1>9, <1>6, <1>3, <1>1
<1> HIDE DEF m2, rel
<1> QED
  BY <1>2, <1>4, <1>6, <1>8, <1>9, <1>10, <1>11 DEF HeapType, ForwardOutcome

(***************************************************************************)
(* Tiled, with the field offsets worked out.                               *)
(***************************************************************************)
SegOK(m, segs, e, s) ==
    /\ HeapStart <= s /\ m[s] >= 2 /\ s + 4 + m[s] <= e /\ m[s + 3] \in {0, 1}
    /\ s + 4 + m[s] = e => m[s + 1] = 0
    /\ s + 4 + m[s] # e => /\ m[s + 1] = s + 4 + m[s]
                           /\ s + 4 + m[s] \in segs
                           /\ m[s + 4 + m[s] + 2] = s
    /\ s # HeapStart => /\ m[s + 2] \in segs
                        /\ m[s + 2] + 4 + m[m[s + 2]] = s

\* The two forms are the same for a heap of the right type.
LEMMA TiledFlat ==
  ASSUME NEW h \in HeapType, NEW e
  PROVE  Tiled(h, e) <=>
           /\ HeapStart \in h.segs /\ h.last \in h.segs
           /\ h.last + 4 + h.mem[h.last] = e
           /\ h.mem[HeapStart + 2] = 0
           /\ \A s \in h.segs : SegOK(h.mem, h.segs, e, s)
           /\ \A s, t \in h.segs : s < t => s + 4 + h.mem[s] <= t
<1>1. \A s \in h.segs : s \in Nat /\ s + 0 = s
  BY DEF HeapType, Addr
<1> QED
  BY <1>1 DEF Tiled, SegOK

\* SegmentHeaderCombineForward keeps the heap well-formed.
LEMMA ForwardGood ==
  ASSUME NEW h, NEW e, GoodHeap(h, e), NEW s \in h.segs
  PROVE  GoodHeap(SegmentHeaderCombineForward(h, s), e)
<1>1. CASE ~Swallows(h, s)
  BY Zenon, <1>1 DEF Swallows, SegmentHeaderCombineForward
<1>2. CASE Swallows(h, s)
  <2> DEFINE c == SegmentHeaderCombineForward(h, s)
             n == h.mem[s + 1]
             m == h.mem
             k == c.mem
  <2>1. /\ c \in HeapType
        /\ c.segs = h.segs \ {n}
        /\ c.last = IF n = h.last THEN s ELSE h.last
        /\ k[s] = m[s] + m[n] + 4
        /\ k[s + 1] = m[n + 1]
        /\ k[s + 2] = m[s + 2]
        /\ k[s + 3] = m[s + 3]
        /\ \A t \in h.segs \ {s, n} :
              /\ k[t] = m[t]
              /\ k[t + 1] = m[t + 1]
              /\ k[t + 2] = IF t = m[n + 1] THEN s ELSE m[t + 2]
              /\ k[t + 3] = m[t + 3]
    <3>1. ForwardOutcome(h, s, n, c)
      BY Zenon, <1>2, ForwardEffect
    <3> HIDE DEF c, n
    <3> QED
      BY Zenon, <3>1 DEF ForwardOutcome, m, k
  <2>2. n \in h.segs /\ n = s + 4 + m[s] /\ m[n + 2] = s /\ n # 0
    BY Zenon, <1>2, NextSegment DEF Swallows
  <2>3. /\ HeapStart \in h.segs /\ h.last \in h.segs
        /\ h.last + 4 + m[h.last] = e
        /\ m[HeapStart + 2] = 0
        /\ \A t \in h.segs : SegOK(m, h.segs, e, t)
        /\ \A t, u \in h.segs : t < u => t + 4 + m[t] <= u
    BY Zenon, TiledFlat DEF GoodHeap
  <2>4. \A t \in h.segs : t \in Nat /\ t >= HeapStart /\ m[t] \in Nat /\ m[t] >= 2
                          /\ m[t + 1] \in Nat /\ m[t + 2] \in Nat
    BY Zenon, HeaderWords
  <2>5. HeapStart \in Nat /\ HeapStart >= 4 /\ e \in Nat
    BY Zenon, TopType, HeaderWords
  <2> HIDE DEF c, k, m, n
  <2>6. HeapStart \in c.segs /\ c.last \in c.segs
    BY <2>1, <2>2, <2>3, <2>4
  <2>7. c.last + 4 + k[c.last] = e
    <3>1. CASE n = h.last
      BY <3>1, <2>1, <2>2, <2>3, <2>4
    <3>2. CASE n # h.last
      <4>1. h.last # s
        BY <2>2, <2>3, <2>4 DEF SegOK
      <4> QED
        BY <3>2, <4>1, <2>1, <2>3
    <3> QED
      BY Zenon, <3>1, <3>2
  <2>8. k[HeapStart + 2] = 0
    <3>1. HeapStart # n /\ (HeapStart = m[n + 1] => FALSE)
      BY <2>2, <2>3, <2>5 DEF SegOK
    <3> QED
      BY Zenon, <3>1, <2>1, <2>3
  <2>9. \A t, u \in c.segs : t < u => t + 4 + k[t] <= u
    <3> SUFFICES ASSUME NEW t \in c.segs, NEW u \in c.segs, t < u
                 PROVE  t + 4 + k[t] <= u
      BY Zenon
    <3>1. CASE t = s
      <4>1. u > n /\ u \in h.segs
        BY <3>1, <2>1, <2>2, <2>3, <2>4
      <4> QED
        BY <2>1, <2>2, <2>3, <2>4
    <3>2. CASE t # s
      BY Zenon, <3>2, <2>1, <2>3
    <3> QED
      BY Zenon, <3>1, <3>2
  <2>10. \A t \in c.segs : SegOK(k, c.segs, e, t)
    <3> SUFFICES ASSUME NEW t \in c.segs
                 PROVE  SegOK(k, c.segs, e, t)
      BY Zenon
    <3>0. t \in h.segs /\ t # n /\ SegOK(m, h.segs, e, t) /\ SegOK(m, h.segs, e, n)
          /\ SegOK(m, h.segs, e, s)
      BY Zenon, <2>1, <2>2, <2>3
    <3>1. CASE t = s
      <4>1. s + 4 + k[s] = n + 4 + m[n]
        BY <2>1, <2>2, <2>4
      <4>2. n + 4 + m[n] # e => /\ n + 4 + m[n] \in h.segs
                                /\ n + 4 + m[n] # s /\ n + 4 + m[n] # n
                                /\ m[n + 1] = n + 4 + m[n]
        BY <3>0, <2>2, <2>4 DEF SegOK
      <4>3. n + 4 + m[n] # e => k[n + 4 + m[n] + 2] = s
        BY Zenon, <4>2, <2>1
      <4>4. k[s] >= 2 /\ HeapStart <= s /\ s + 4 + k[s] <= e /\ k[s + 3] \in {0, 1}
        BY <3>0, <2>1, <2>2, <2>4 DEF SegOK
      <4>5. s # HeapStart => k[s + 2] \in c.segs /\ k[s + 2] + 4 + k[k[s + 2]] = s
        <5> SUFFICES ASSUME s # HeapStart
                     PROVE k[s + 2] \in c.segs /\ k[s + 2] + 4 + k[k[s + 2]] = s
          BY Zenon
        <5>1. k[s + 2] = m[s + 2] /\ m[s + 2] \in h.segs /\ m[s + 2] + 4 + m[m[s + 2]] = s
          BY Zenon, <3>0, <2>1 DEF SegOK
        <5>2. m[s + 2] # n /\ m[s + 2] # s
          BY <5>1, <2>2, <2>4
        <5> QED
          BY <5>1, <5>2, <2>1
      <4> QED
        BY Zenon, <3>1, <3>0, <2>1, <4>1, <4>2, <4>3, <4>4, <4>5 DEF SegOK
    <3>2. CASE t # s
      <4>1. /\ k[t] = m[t] /\ k[t + 1] = m[t + 1] /\ k[t + 3] = m[t + 3]
            /\ k[t + 2] = IF t = m[n + 1] THEN s ELSE m[t + 2]
        BY Zenon, <3>0, <3>2, <2>1
      <4>2. t + 4 + m[t] # n
        BY <3>0, <3>2, <2>2, <2>4 DEF SegOK
      <4>3. t + 4 + m[t] # e => t + 4 + m[t] \in c.segs /\ k[t + 4 + m[t] + 2] = t
        <5> SUFFICES ASSUME t + 4 + m[t] # e
                     PROVE  t + 4 + m[t] \in c.segs /\ k[t + 4 + m[t] + 2] = t
          BY Zenon
        <5>1. t + 4 + m[t] \in h.segs /\ m[t + 4 + m[t] + 2] = t
          BY Zenon, <3>0 DEF SegOK
        <5>2. t + 4 + m[t] # m[n + 1]
          BY <2>1, <2>3, <2>2, <2>5 DEF SegOK
        <5> QED
          BY Zenon, <5>1, <5>2, <4>2, <2>1
      <4>4. t # HeapStart => k[t + 2] \in c.segs /\ k[t + 2] + 4 + k[k[t + 2]] = t
        <5> SUFFICES ASSUME t # HeapStart
                     PROVE  k[t + 2] \in c.segs /\ k[t + 2] + 4 + k[k[t + 2]] = t
          BY Zenon
        <5>1. CASE t = m[n + 1]
          <6>1. t = n + 4 + m[n]
            BY <5>1, <3>0, <2>5 DEF SegOK
          <6>2. k[t + 2] = s
            BY Zenon, <5>1, <4>1
          <6>3. s # n /\ s \in c.segs
            BY <2>1, <2>2, <2>4
          <6>4. s + 4 + k[s] = t
            BY <6>1, <2>1, <2>2, <2>4
          <6> QED
            BY Zenon, <6>2, <6>3, <6>4
        <5>2. CASE t # m[n + 1]
          <6>1. k[t + 2] = m[t + 2] /\ m[t + 2] \in h.segs /\ m[t + 2] + 4 + m[m[t + 2]] = t
            BY Zenon, <5>2, <4>1, <3>0 DEF SegOK
          <6>2. m[t + 2] # n
            <7> SUFFICES ASSUME m[t + 2] = n
                         PROVE  FALSE
              BY Zenon
            <7>1. n + 4 + m[n] = t
              BY Zenon, <6>1
            <7>2. t + 4 + m[t] <= e /\ t \in Nat /\ m[t] \in Nat
              BY Zenon, <3>0, <2>4 DEF SegOK
            <7>3. t # e
              BY <7>2, <2>5
            <7> QED
              BY Zenon, <7>1, <7>3, <5>2, <3>0 DEF SegOK
          <6>3. m[t + 2] # s
            BY Zenon, <6>1, <2>2, <3>0
          <6> QED
            BY <6>1, <6>2, <6>3, <2>1
        <5> QED
          BY Zenon, <5>1, <5>2
      <4> QED
        BY Zenon, <3>0, <4>1, <4>3, <4>4 DEF SegOK
    <3> QED
      BY Zenon, <3>1, <3>2
  <2> QED
    BY Zenon, <2>1, <2>6, <2>7, <2>8, <2>9, <2>10, TiledFlat DEF GoodHeap, c, k
<1> QED
  BY Zenon, <1>1, <1>2

\* Rewriting payload words and IsFree flags keeps the heap well-formed.
LEMMA SameLinks ==
  ASSUME NEW h, NEW e, GoodHeap(h, e), NEW k \in [Addr -> Nat],
         \A t \in h.segs : /\ k[t] = h.mem[t] /\ k[t + 1] = h.mem[t + 1]
                           /\ k[t + 2] = h.mem[t + 2] /\ k[t + 3] \in {0, 1}
  PROVE  GoodHeap([h EXCEPT !.mem = k], e)
<1> DEFINE g == [h EXCEPT !.mem = k]
<1>1. h \in HeapType
  BY Zenon DEF GoodHeap
<1>2. g \in HeapType /\ g.mem = k /\ g.last = h.last /\ g.segs = h.segs
  BY Zenon, <1>1 DEF HeapType
<1>3. /\ HeapStart \in h.segs /\ h.last \in h.segs
      /\ h.last + 4 + h.mem[h.last] = e
      /\ h.mem[HeapStart + 2] = 0
      /\ \A t \in h.segs : SegOK(h.mem, h.segs, e, t)
      /\ \A t, u \in h.segs : t < u => t + 4 + h.mem[t] <= u
  BY Zenon, TiledFlat DEF GoodHeap
<1>4. \A t \in h.segs : SegOK(k, h.segs, e, t)
  BY <1>3 DEF SegOK
<1> HIDE DEF g
<1>5. Tiled(g, e)
  BY <1>2, <1>3, <1>4, TiledFlat
<1> QED
  BY Zenon, <1>2, <1>5 DEF GoodHeap, g

\* What g keeps of h when IsFree of s becomes b.
MarkOutcome(h, s, b, g) ==
    /\ g.segs = h.segs /\ g.last = h.last
    /\ \A t \in h.segs : /\ g.mem[t] = h.mem[t]
                         /\ g.mem[t + 1] = h.mem[t + 1]
                         /\ g.mem[t + 2] = h.mem[t + 2]
                         /\ g.mem[t + 3] = IF t = s THEN b ELSE h.mem[t + 3]
    /\ \A a \in Addr : a # s + 3 => g.mem[a] = h.mem[a]

\* Setting IsFree of one segment.
LEMMA MarkGood ==
  ASSUME NEW h, NEW e, GoodHeap(h, e), NEW s \in h.segs, NEW b \in {0, 1},
         NEW g, g = [h EXCEPT !.mem = [h.mem EXCEPT ![s + ISFREE] = b]]
  PROVE  GoodHeap(g, e) /\ MarkOutcome(h, s, b, g)
<1> DEFINE k == [h.mem EXCEPT ![s + 3] = b]
<1>1. h \in HeapType
  BY Zenon DEF GoodHeap
<1>2. h.mem \in [Addr -> Nat] /\ k \in [Addr -> Nat]
  <2>1. h.mem \in [Addr -> Nat]
    BY Zenon, <1>1 DEF HeapType
  <2>2. b \in Nat
    OBVIOUS
  <2> QED
    BY Zenon, <2>1, <2>2
<1>3. g.mem = k /\ g.segs = h.segs /\ g.last = h.last
  BY Zenon, <1>1 DEF HeapType
<1>4. \A t \in h.segs : /\ k[t] = h.mem[t] /\ k[t + 1] = h.mem[t + 1]
                        /\ k[t + 2] = h.mem[t + 2]
                        /\ k[t + 3] = IF t = s THEN b ELSE h.mem[t + 3]
  <2> SUFFICES ASSUME NEW t \in h.segs
               PROVE  /\ k[t] = h.mem[t] /\ k[t + 1] = h.mem[t + 1]
                      /\ k[t + 2] = h.mem[t + 2]
                      /\ k[t + 3] = IF t = s THEN b ELSE h.mem[t + 3]
    BY Zenon
  <2>1. /\ t \in Nat /\ s \in Nat /\ h.mem[t] >= 2 /\ h.mem[s] >= 2
        /\ h.mem[t] \in Nat /\ h.mem[s] \in Nat
        /\ t \in Addr /\ t + 1 \in Addr /\ t + 2 \in Addr /\ t + 3 \in Addr
        /\ s + 3 \in Addr
    BY Zenon, HeaderWords
  <2>2. t = s \/ t + 6 <= s \/ s + 6 <= t
    BY <2>1, SegmentsApart
  <2> QED
    BY <1>2, <2>1, <2>2
<1>5. \A t \in h.segs : k[t + 3] \in {0, 1}
  BY Zenon, <1>4, HeaderWords
<1>6. GoodHeap([h EXCEPT !.mem = k], e)
  <2> HIDE DEF k
  <2> QED
    BY ZenonT(30), <1>2, <1>4, <1>5, SameLinks
<1>7. g = [h EXCEPT !.mem = k]
  BY Zenon
<1>8. \A a \in Addr : a # s + 3 => k[a] = h.mem[a]
  BY Zenon, <1>2
<1> HIDE DEF k
<1> QED
  BY Zenon, <1>3, <1>4, <1>6, <1>7, <1>8 DEF MarkOutcome

\* Cuts(h, s, n): the condition under which SegmentHeaderSplit cuts.
Cuts(h, s, n) == n >= 2 /\ h.mem[s] - n - 4 >= 2

\* The words of the headers after s has been cut to n words, N being the new one.
SplitOutcome(h, s, n, N, c) ==
    /\ c \in HeapType
    /\ c.segs = h.segs \cup {N}
    /\ c.last = IF s = h.last THEN N ELSE h.last
    /\ c.mem[s] = n /\ c.mem[s + 1] = N
    /\ c.mem[s + 2] = h.mem[s + 2] /\ c.mem[s + 3] = h.mem[s + 3]
    /\ c.mem[N] = h.mem[s] - n - 4 /\ c.mem[N + 1] = h.mem[s + 1]
    /\ c.mem[N + 2] = s /\ c.mem[N + 3] = h.mem[s + 3]
    /\ \A t \in h.segs \ {s} :
         /\ c.mem[t] = h.mem[t]
         /\ c.mem[t + 1] = h.mem[t + 1]
         /\ c.mem[t + 2] = IF t = h.mem[s + 1] THEN N ELSE h.mem[t + 2]
         /\ c.mem[t + 3] = h.mem[t + 3]
    /\ \A a \in Addr : /\ a # s /\ a # s + 1 /\ a # h.mem[s + 1] + 2
                       /\ a # N /\ a # N + 1 /\ a # N + 2 /\ a # N + 3
                       => c.mem[a] = h.mem[a]

\* What the words of the headers are after s has been cut down to n words.  The
\* write through a null Next lands below HeapStart.
LEMMA SplitEffect ==
  ASSUME NEW h, NEW e, GoodHeap(h, e), NEW s \in h.segs, NEW n \in Nat, Cuts(h, s, n),
         NEW c, c = SegmentHeaderSplit(h, s, n),
         NEW N, N = s + n + 4
  PROVE  SplitOutcome(h, s, n, N, c)
<1> DEFINE next == h.mem[s + 1]
           m == h.mem
           r == h.mem[s] - n - 4
           k == [m EXCEPT ![next + 2] = N, ![N + 1] = next, ![s + 1] = N, ![N + 2] = s,
                          ![N] = r, ![N + 3] = m[s + 3], ![s] = n]
<1>1. /\ s \in Nat /\ s >= HeapStart /\ m[s] \in Nat /\ s + 4 + m[s] <= e /\ e <= Top
      /\ s \in Addr /\ s + 1 \in Addr /\ s + 2 \in Addr /\ s + 3 \in Addr
      /\ next \in Nat /\ m[s + 3] \in Nat /\ e \in Nat
  BY HeaderWords
<1>2. HeapStart >= 4 /\ HeapStart \in Nat /\ Top \in Nat
  BY Zenon, TopType
<1>3. r \in Nat /\ r >= 2 /\ n >= 2 /\ N \in Nat /\ N + r + 4 <= e
  BY <1>1 DEF Cuts
<1>4. N \in Addr /\ N + 1 \in Addr /\ N + 2 \in Addr /\ N + 3 \in Addr /\ N + 4 \in Addr
  BY <1>1, <1>2, <1>3 DEF Addr
<1>5. c = [mem |-> k, last |-> IF h.last = s THEN N ELSE h.last, segs |-> h.segs \cup {N}]
  <2>1. s + 0 = s /\ N + 0 = N /\ s + n + 4 = N
    BY <1>1
  <2>2. ~(n < 2) /\ ~(h.mem[s] - n - 4 < 2)
    BY <1>3
  <2> QED
    BY Zenon, <2>1, <2>2 DEF SegmentHeaderSplit
<1>6. m \in [Addr -> Nat] /\ h.last \in Addr /\ h.segs \subseteq Addr
  BY Zenon DEF GoodHeap, HeapType
<1>7. k \in [Addr -> Nat]
  BY Zenon, <1>1, <1>3, <1>6
<1>8. \A a \in Addr : k[a] = IF a = s THEN n
                             ELSE IF a = N + 3 THEN m[s + 3]
                             ELSE IF a = N THEN r
                             ELSE IF a = N + 2 THEN s
                             ELSE IF a = s + 1 THEN N
                             ELSE IF a = N + 1 THEN next
                             ELSE IF a = next + 2 THEN N ELSE m[a]
  BY Zenon, <1>6
<1>9. next # 0 => next = s + 4 + m[s] /\ next \in h.segs
  BY NextSegment
<1>10. \A t \in h.segs \ {s} :
              /\ k[t] = m[t]
              /\ k[t + 1] = m[t + 1]
              /\ k[t + 2] = IF t = next THEN N ELSE m[t + 2]
              /\ k[t + 3] = m[t + 3]
  <2> SUFFICES ASSUME NEW t \in h.segs \ {s}
               PROVE  /\ k[t] = m[t]
                      /\ k[t + 1] = m[t + 1]
                      /\ k[t + 2] = IF t = next THEN N ELSE m[t + 2]
                      /\ k[t + 3] = m[t + 3]
    BY Zenon
  <2>1. /\ t \in Nat /\ t \in Addr /\ t + 1 \in Addr /\ t + 2 \in Addr /\ t + 3 \in Addr
        /\ t >= 4 /\ m[t] \in Nat /\ m[t] >= 2
    BY HeaderWords, TopType
  <2>2. s + 4 + m[s] <= t \/ t + 6 <= s
    BY <2>1, <1>1, SegmentsApart
  <2>3. (next # 0 /\ t # next) => next + 6 <= t \/ t + 6 <= next
    BY <1>9, SegmentsApart, HeaderWords
  <2>4. s + 4 + m[s] = N + r + 4
    BY <1>1
  <2> HIDE DEF k, m, next, r
  <2> QED
    BY SMTT(30), <1>1, <1>3, <1>8, <2>1, <2>2, <2>3, <2>4
<1>11. k[s + 2] = m[s + 2] /\ k[s + 3] = m[s + 3] /\ k[s] = n /\ k[s + 1] = N
  <2>1. s + 4 + m[s] = N + r + 4
    BY <1>1
  <2> HIDE DEF k, m, next, r
  <2> QED
    BY <1>1, <1>2, <1>8, <1>9
<1>12. k[N] = r /\ k[N + 1] = next /\ k[N + 2] = s /\ k[N + 3] = m[s + 3]
  <2> HIDE DEF k, m, next, r
  <2> QED
    BY <1>1, <1>4, <1>8
<1>13. \A a \in Addr : /\ a # s /\ a # s + 1 /\ a # next + 2
                       /\ a # N /\ a # N + 1 /\ a # N + 2 /\ a # N + 3
                       => k[a] = m[a]
  <2> HIDE DEF k, m, next, r
  <2> QED
    BY Zenon, <1>8
<1>14. c \in HeapType /\ c.mem = k /\ c.segs = h.segs \cup {N}
       /\ c.last = IF s = h.last THEN N ELSE h.last
  <2> HIDE DEF k
  <2> QED
    BY <1>4, <1>5, <1>6, <1>7 DEF HeapType
<1> HIDE DEF k
<1> QED
  BY <1>10, <1>11, <1>12, <1>13, <1>14 DEF SplitOutcome

\* SegmentHeaderSplit keeps the heap well-formed.
LEMMA SplitGood ==
  ASSUME NEW h, NEW e, GoodHeap(h, e), NEW s \in h.segs, NEW n \in Nat
  PROVE  GoodHeap(SegmentHeaderSplit(h, s, n), e)
<1>1. CASE ~Cuts(h, s, n)
  <2>1. s + 0 = s /\ h.mem[s] \in Nat
    BY HeaderWords
  <2>2. n < 2 \/ h.mem[s] - n - 4 < 2
    BY SMTT(30), <1>1, <2>1 DEF Cuts
  <2> QED
    BY Zenon, <2>1, <2>2 DEF SegmentHeaderSplit
<1>2. CASE Cuts(h, s, n)
  <2> DEFINE c == SegmentHeaderSplit(h, s, n)
             N == s + n + 4
             next == h.mem[s + 1]
             m == h.mem
             k == c.mem
  <2>1. /\ c \in HeapType
        /\ c.segs = h.segs \cup {N}
        /\ c.last = IF s = h.last THEN N ELSE h.last
        /\ k[s] = n /\ k[s + 1] = N /\ k[s + 2] = m[s + 2] /\ k[s + 3] = m[s + 3]
        /\ k[N] = m[s] - n - 4 /\ k[N + 1] = next /\ k[N + 2] = s /\ k[N + 3] = m[s + 3]
        /\ \A t \in h.segs \ {s} :
              /\ k[t] = m[t]
              /\ k[t + 1] = m[t + 1]
              /\ k[t + 2] = IF t = next THEN N ELSE m[t + 2]
              /\ k[t + 3] = m[t + 3]
    <3>1. SplitOutcome(h, s, n, N, c)
      BY Zenon, <1>2, SplitEffect
    <3> HIDE DEF c, N
    <3> QED
      BY Zenon, <3>1 DEF SplitOutcome, m, k, next
  <2>3. /\ HeapStart \in h.segs /\ h.last \in h.segs
        /\ h.last + 4 + m[h.last] = e
        /\ m[HeapStart + 2] = 0
        /\ \A t \in h.segs : SegOK(m, h.segs, e, t)
        /\ \A t, u \in h.segs : t < u => t + 4 + m[t] <= u
    BY Zenon, TiledFlat DEF GoodHeap
  <2>4. \A t \in h.segs : t \in Nat /\ t >= HeapStart /\ m[t] \in Nat /\ m[t] >= 2
                          /\ m[t + 1] \in Nat /\ m[t + 2] \in Nat
    BY Zenon, HeaderWords
  <2>5. HeapStart \in Nat /\ HeapStart >= 4 /\ e \in Nat
    BY Zenon, TopType, HeaderWords
  <2>6. /\ n >= 2 /\ N = s + n + 4 /\ m[s] - n - 4 >= 2 /\ N \in Nat
        /\ N + 4 + (m[s] - n - 4) = s + 4 + m[s]
        /\ m[s] - n - 4 \in Nat
    BY <1>2, <2>4 DEF Cuts
  <2>7. s + 4 + m[s] # e => next = s + 4 + m[s] /\ next \in h.segs
    BY <2>3 DEF SegOK
  <2>8. N \notin h.segs
    BY <2>3, <2>4, <2>6
  <2> HIDE DEF c, k, m, N, next
  <2>9. HeapStart \in c.segs /\ c.last \in c.segs
    BY Zenon, <2>1, <2>3
  <2>10. c.last + 4 + k[c.last] = e
    <3>1. CASE s = h.last
      BY Zenon, <3>1, <2>1, <2>3, <2>6
    <3>2. CASE s # h.last
      BY <3>2, <2>1, <2>3
    <3> QED
      BY Zenon, <3>1, <3>2
  <2>11. k[HeapStart + 2] = 0
    <3>1. HeapStart # next
      BY <2>3, <2>5 DEF SegOK, next, m
    <3> QED
      BY Zenon, <3>1, <2>1, <2>3
  <2>12. \A t, u \in c.segs : t < u => t + 4 + k[t] <= u
    <3> SUFFICES ASSUME NEW t \in c.segs, NEW u \in c.segs, t < u
                 PROVE  t + 4 + k[t] <= u
      BY Zenon
    <3>1. CASE t = s
      BY <2>1, <2>3, <2>4, <2>6
    <3>2. CASE t = N
      <4>1. u \in h.segs /\ s < u
        BY SMTT(30), <3>2, <2>1, <2>4, <2>6
      <4> QED
        BY SMTT(30), <3>2, <4>1, <2>1, <2>3, <2>6
    <3>3. CASE t # s /\ t # N
      <4>1. t \in h.segs /\ k[t] = m[t]
        BY Zenon, <3>3, <2>1
      <4>2. u = N => t < s
        BY <4>1, <3>3, <2>3, <2>4, <2>6
      <4> QED
        BY SMTT(30), <2>1, <2>3, <2>4, <2>6
    <3> QED
      BY Zenon, <3>1, <3>2, <3>3
  <2>13. SegOK(k, c.segs, e, s)
    <3>1. HeapStart <= s /\ s + 4 + k[s] = N /\ N # e /\ N <= e /\ k[s + 3] \in {0, 1}
      BY <2>1, <2>3, <2>4, <2>6 DEF SegOK
    <3>2. s # HeapStart => k[s + 2] \in c.segs /\ k[s + 2] + 4 + k[k[s + 2]] = s
      <4>1. s # HeapStart => /\ m[s + 2] \in h.segs /\ m[s + 2] + 4 + m[m[s + 2]] = s
                             /\ m[s + 2] # s
        BY <2>3, <2>4 DEF SegOK
      <4> QED
        BY SMTT(30), <4>1, <2>1
    <3> QED
      BY SMTT(30), <3>1, <3>2, <2>1, <2>6 DEF SegOK
  <2>14. SegOK(k, c.segs, e, N)
    <3>1. N + 4 + k[N] = s + 4 + m[s] /\ k[N] >= 2 /\ HeapStart <= N
      BY SMTT(30), <2>1, <2>4, <2>6, <2>5
    <3>2. s + 4 + m[s] <= e /\ k[N + 3] \in {0, 1} /\ (s + 4 + m[s] = e => next = 0)
      BY Zenon, <2>1, <2>3 DEF SegOK, next, m
    <3>3. s + 4 + m[s] # e => /\ next = s + 4 + m[s] /\ next \in h.segs /\ next # s
                              /\ k[next + 2] = N
      BY <2>7, <2>4, <2>1
    <3>4. k[N + 2] = s /\ s \in c.segs /\ s + 4 + k[s] = N
      BY <2>1, <2>6, <2>4
    <3> QED
      BY <3>1, <3>2, <3>3, <3>4, <2>1 DEF SegOK
  <2>15. \A t \in h.segs \ {s} : SegOK(k, c.segs, e, t)
    <3> SUFFICES ASSUME NEW t \in h.segs, t # s
                 PROVE  SegOK(k, c.segs, e, t)
      BY Zenon
    <3>1. SegOK(m, h.segs, e, t) /\ t \in Nat /\ m[t] \in Nat /\ m[t] >= 2
      BY Zenon, <2>3, <2>4
    <3>2. k[t] = m[t] /\ k[t + 1] = m[t + 1] /\ k[t + 3] = m[t + 3]
          /\ k[t + 2] = IF t = next THEN N ELSE m[t + 2]
      BY Zenon, <2>1
    <3>3. t + 4 + m[t] # e => t + 4 + m[t] \in c.segs /\ k[t + 4 + m[t] + 2] = t
      <4> SUFFICES ASSUME t + 4 + m[t] # e
                   PROVE  t + 4 + m[t] \in c.segs /\ k[t + 4 + m[t] + 2] = t
        BY Zenon
      <4>1. t + 4 + m[t] \in h.segs /\ m[t + 4 + m[t] + 2] = t
        BY Zenon, <3>1 DEF SegOK
      <4>2. t + 4 + m[t] # next
        <5>1. next # 0 => next = s + 4 + m[s] /\ m[next + 2] = s
          BY Zenon, <2>3, <2>4 DEF SegOK, next, m
        <5> QED
          BY <4>1, <5>1, <2>4
      <4>3. t + 4 + m[t] = s => k[s + 2] = t
        BY Zenon, <4>1, <2>1
      <4> QED
        BY Zenon, <4>1, <4>2, <4>3, <2>1
    <3>4. t # HeapStart => k[t + 2] \in c.segs /\ k[t + 2] + 4 + k[k[t + 2]] = t
      <4> SUFFICES ASSUME t # HeapStart
                   PROVE  k[t + 2] \in c.segs /\ k[t + 2] + 4 + k[k[t + 2]] = t
        BY Zenon
      <4>1. m[t + 2] \in h.segs /\ m[t + 2] + 4 + m[m[t + 2]] = t
        BY Zenon, <3>1 DEF SegOK
      <4>2. CASE t = next
        <5>1. next # 0 /\ next = s + 4 + m[s]
          BY SMTT(30), <4>2, <2>3, <2>5 DEF SegOK, next, m
        <5>2. k[t + 2] = N /\ N \in c.segs
          BY Zenon, <4>2, <3>2, <2>1
        <5>3. N + 4 + k[N] = t
          BY Zenon, <5>1, <4>2, <2>1, <2>6
        <5> QED
          BY Zenon, <5>2, <5>3
      <4>3. CASE t # next
        <5>1. m[t + 2] # s
          <6> SUFFICES ASSUME m[t + 2] = s
                       PROVE  FALSE
            BY Zenon
          <6>1. s + 4 + m[s] = t /\ t # e
            BY SMTT(30), <3>1 DEF SegOK
          <6> QED
            BY Zenon, <6>1, <4>3, <2>7
        <5> QED
          BY <5>1, <4>1, <4>3, <2>1
      <4> QED
        BY Zenon, <4>2, <4>3
    <3> QED
      BY Zenon, <3>1, <3>2, <3>3, <3>4 DEF SegOK
  <2>16. \A t \in c.segs : SegOK(k, c.segs, e, t)
    BY SMTT(30), <2>1, <2>13, <2>14, <2>15
  <2>17. Tiled(c, e)
    BY SMTT(30), <2>1, <2>9, <2>10, <2>11, <2>12, <2>16, TiledFlat DEF k
  <2>18. e \in HeapStart .. Top
    BY Zenon DEF GoodHeap
  <2> QED
    BY Zenon, <2>1, <2>17, <2>18 DEF GoodHeap, c
<1> QED
  BY Zenon, <1>1, <1>2
-----------------------------------------------------------------------------
(* The blocks in use and the neighbours of a segment. *)

\* The words of the headers after a segment of b words has been linked at e.
AppendOutcome(h, e, b, c) ==
    /\ c \in HeapType
    /\ c.segs = h.segs \cup {e} /\ c.last = e
    /\ c.mem[e] = b - 4 /\ c.mem[e + 1] = 0
    /\ c.mem[e + 2] = h.last /\ c.mem[e + 3] = 1
    /\ \A t \in h.segs :
         /\ c.mem[t] = h.mem[t]
         /\ c.mem[t + 1] = IF t = h.last THEN e ELSE h.mem[t + 1]
         /\ c.mem[t + 2] = h.mem[t + 2]
         /\ c.mem[t + 3] = h.mem[t + 3]
    /\ \A a \in Addr : a < e /\ a # h.last + 1 => c.mem[a] = h.mem[a]

\* What the words of the headers are after ExpandHeap has linked its segment.
LEMMA AppendEffect ==
  ASSUME NEW h, NEW e, GoodHeap(h, e), NEW b \in Nat, b >= 6, e + b <= Top,
         NEW c, c = AppendSegment(h, e, b)
  PROVE  AppendOutcome(h, e, b, c)
<1> DEFINE m == h.mem
           z == [a \in Addr |-> IF e <= a /\ a < e + b THEN 0 ELSE m[a]]
           k == [z EXCEPT ![e + 3] = 1, ![e + 2] = h.last, ![h.last + 1] = e,
                          ![e + 1] = 0, ![e] = b - 4]
           l == h.last
<1>1. /\ e \in Nat /\ e >= HeapStart /\ HeapStart >= 4 /\ HeapStart \in Nat /\ Top \in Nat
      /\ l \in h.segs
  BY TopType DEF GoodHeap, Tiled
<1>2. /\ l \in Nat /\ l + 6 <= e
  BY Zenon, <1>1, HeaderWords
<1>3. e \in Addr /\ e + 1 \in Addr /\ e + 2 \in Addr /\ e + 3 \in Addr /\ l + 1 \in Addr
      /\ b - 4 \in Nat
  BY <1>1, <1>2 DEF Addr
<1>4. m \in [Addr -> Nat] /\ h.segs \subseteq Addr
  BY Zenon DEF GoodHeap, HeapType
<1>5. z \in [Addr -> Nat]
  BY Zenon, <1>4
<1>6. k \in [Addr -> Nat]
  <2> HIDE DEF z
  <2> QED
    BY Zenon, <1>1, <1>2, <1>3, <1>5
<1>7. c = [mem |-> k, last |-> e, segs |-> h.segs \cup {e}]
  <2>1. e + 0 = e
    BY <1>1
  <2> QED
    BY Zenon, <2>1 DEF AppendSegment
<1>8. \A a \in Addr : k[a] = IF a = e THEN b - 4
                             ELSE IF a = e + 1 THEN 0
                             ELSE IF a = l + 1 THEN e
                             ELSE IF a = e + 2 THEN l
                             ELSE IF a = e + 3 THEN 1 ELSE z[a]
  <2> HIDE DEF z
  <2> QED
    BY Zenon, <1>5
<1>9. \A a \in Addr : a < e => z[a] = m[a]
  BY <1>1 DEF Addr
<1>10. c \in HeapType /\ c.mem = k /\ c.segs = h.segs \cup {e} /\ c.last = e
  <2> HIDE DEF k
  <2> QED
    BY <1>3, <1>4, <1>6, <1>7 DEF HeapType
<1> HIDE DEF k, z, m, l
<1>11. k[e] = b - 4 /\ k[e + 1] = 0 /\ k[e + 2] = l /\ k[e + 3] = 1
  BY <1>1, <1>2, <1>3, <1>8
<1>12. \A t \in h.segs : /\ k[t] = m[t]
                         /\ k[t + 1] = IF t = l THEN e ELSE m[t + 1]
                         /\ k[t + 2] = m[t + 2]
                         /\ k[t + 3] = m[t + 3]
  <2> SUFFICES ASSUME NEW t \in h.segs
               PROVE  /\ k[t] = m[t]
                      /\ k[t + 1] = IF t = l THEN e ELSE m[t + 1]
                      /\ k[t + 2] = m[t + 2]
                      /\ k[t + 3] = m[t + 3]
    BY Zenon
  <2>1. /\ t \in Nat /\ t + 6 <= e
        /\ t \in Addr /\ t + 1 \in Addr /\ t + 2 \in Addr /\ t + 3 \in Addr
    BY Zenon, HeaderWords
  <2>2. t = l \/ t + 6 <= l \/ l + 6 <= t
    BY <1>1, SegmentsApart, HeaderWords
  <2> QED
    BY <2>1, <2>2, <1>1, <1>2, <1>8, <1>9
<1>13. \A a \in Addr : a < e /\ a # l + 1 => k[a] = m[a]
  BY <1>1, <1>8, <1>9
<1> QED
  BY Zenon, <1>10, <1>11, <1>12, <1>13 DEF m, l, AppendOutcome

\* Linking the new segment keeps the heap well-formed, up to its new end.
LEMMA AppendGood ==
  ASSUME NEW h, NEW e, GoodHeap(h, e), NEW b \in Nat, b >= 6, e + b <= Top
  PROVE  GoodHeap(AppendSegment(h, e, b), e + b)
<1> DEFINE c == AppendSegment(h, e, b)
           m == h.mem
           k == c.mem
           l == h.last
<1>1. /\ c \in HeapType
      /\ c.segs = h.segs \cup {e} /\ c.last = e
      /\ k[e] = b - 4 /\ k[e + 1] = 0 /\ k[e + 2] = l /\ k[e + 3] = 1
      /\ \A t \in h.segs :
           /\ k[t] = m[t]
           /\ k[t + 1] = IF t = l THEN e ELSE m[t + 1]
           /\ k[t + 2] = m[t + 2]
           /\ k[t + 3] = m[t + 3]
  <2>1. AppendOutcome(h, e, b, c)
    BY Zenon, AppendEffect
  <2> HIDE DEF c
  <2> QED
    BY Zenon, <2>1 DEF AppendOutcome, m, k, l
<1>2. /\ HeapStart \in h.segs /\ l \in h.segs
      /\ l + 4 + m[l] = e
      /\ m[HeapStart + 2] = 0
      /\ \A t \in h.segs : SegOK(m, h.segs, e, t)
      /\ \A t, u \in h.segs : t < u => t + 4 + m[t] <= u
  BY Zenon, TiledFlat DEF GoodHeap
<1>3. \A t \in h.segs : t \in Nat /\ t >= HeapStart /\ m[t] \in Nat /\ m[t] >= 2
                        /\ t + 4 + m[t] <= e
  BY Zenon, HeaderWords
<1>4. HeapStart \in Nat /\ HeapStart >= 4 /\ e \in Nat /\ e + b \in HeapStart .. Top
      /\ e > HeapStart
  BY <1>2, TopType, HeaderWords
<1> HIDE DEF c, k, m, l
<1>5. \A t, u \in c.segs : t < u => t + 4 + k[t] <= u
  BY <1>1, <1>2, <1>3
<1>6. SegOK(k, c.segs, e + b, e)
  BY <1>1, <1>2, <1>4 DEF SegOK
<1>7. \A t \in h.segs : SegOK(k, c.segs, e + b, t)
  <2> SUFFICES ASSUME NEW t \in h.segs
               PROVE  SegOK(k, c.segs, e + b, t)
    BY Zenon
  <2>1. SegOK(m, h.segs, e, t)
    BY Zenon, <1>2
  <2>2. t + 4 + k[t] # e + b /\ t + 4 + k[t] <= e + b /\ k[t] = m[t]
    BY <1>1, <1>3, <1>4
  <2>3. t # HeapStart => k[t + 2] \in c.segs /\ k[t + 2] + 4 + k[k[t + 2]] = t
    BY <2>1, <1>1 DEF SegOK
  <2>4. CASE t + 4 + m[t] = e
    <3>1. t = l
      BY <2>4, <1>2, <1>3
    <3> QED
      BY <2>1, <2>2, <2>4, <3>1, <1>1 DEF SegOK
  <2>5. CASE t + 4 + m[t] # e
    <3>1. t # l
      BY Zenon, <2>5, <1>2
    <3> QED
      BY <2>1, <2>2, <2>5, <3>1, <1>1 DEF SegOK
  <2> QED
    BY Zenon, <2>4, <2>5
<1>8. /\ HeapStart \in c.segs /\ c.last \in c.segs
      /\ c.last + 4 + k[c.last] = e + b
      /\ k[HeapStart + 2] = 0
  BY <1>1, <1>2, <1>4
<1>9. \A t \in c.segs : SegOK(k, c.segs, e + b, t)
  BY Zenon, <1>1, <1>6, <1>7
<1>10. Tiled(c, e + b)
  BY Zenon, <1>1, <1>5, <1>8, <1>9, TiledFlat DEF k
<1>11. e + b \in HeapStart .. Top
  BY Zenon, <1>4
<1> QED
  BY Zenon, <1>1, <1>10, <1>11 DEF GoodHeap, c

(***************************************************************************)
(* What rounding a size_t up does.                                         *)
(***************************************************************************)

\* A size rounded to the 0x10-byte granule wraps to 0 or covers the request.
LEMMA RoundToAlign ==
  ASSUME NEW n \in 0 .. (SizeMod - 1)
  PROVE  /\ RoundUp(n, Align) \in 0 .. (SizeMod - 1)
         /\ RoundUp(n, Align) # 0 => n \in 1 .. RoundUp(n, Align)
         /\ RoundUp(n, Align) # 0 => RoundUp(n, Align) >= 2
<1>1. SizeMod \in Nat /\ SizeMod > 0 /\ n \in Nat /\ n < SizeMod
  BY SizeAssumption
<1>2. n % 2 \in {0, 1}
  BY <1>1
<1>3. CASE n % 2 = 0
  <2>1. RoundUp(n, Align) = n
    BY <1>3 DEF RoundUp
  <2>2. n # 1
    BY <1>3
  <2> QED
    BY <2>1, <2>2, <1>1
<1>4. CASE n % 2 = 1
  <2>1. n + 1 \in Nat /\ n + 1 <= SizeMod /\ n - 1 + 2 = n + 1 /\ n >= 1
    <3>1. n # 0
      BY <1>4
    <3> QED
      BY <3>1, <1>1
  <2>2. RoundUp(n, Align) = (n + 1) % SizeMod
    BY <1>4, <2>1 DEF RoundUp
  <2>3. (n + 1) % SizeMod = IF n + 1 = SizeMod THEN 0 ELSE n + 1
    BY Zenon, <1>1, <2>1, ModSmall
  <2> QED
    BY <1>1, <2>1, <2>2
<1> QED
  BY Zenon, <1>2, <1>3, <1>4

\* A size rounded to pages wraps to 0 or is at least a page and covers the size.
LEMMA RoundToPage ==
  ASSUME NEW n \in 0 .. (SizeMod - 1)
  PROVE  /\ RoundUp(n, PageSize) \in Nat
         /\ RoundUp(n, PageSize) > 0 => /\ RoundUp(n, PageSize) >= PageSize
                                        /\ RoundUp(n, PageSize) >= n
<1> DEFINE P == PageSize
           q == n \div P
           r == n % P
           K == SizeMod \div P
<1>1. SizeMod \in Nat /\ SizeMod > 0 /\ n \in Nat /\ n < SizeMod /\ P \in Nat /\ P > 0
  BY SizeAssumption, GeometryAssumption
<1>2. q \in Nat /\ r \in 0 .. (P - 1) /\ n = q * P + r
  BY Zenon, <1>1, DivMod
<1>3. K \in Nat /\ SizeMod = K * P
  <2>1. SizeMod % P = 0
    BY Zenon, SizeAssumption
  <2>2. K * P \in Nat /\ SizeMod = K * P + (SizeMod % P)
    BY <1>1, DivMod, MulMono
  <2> QED
    BY <1>1, <2>1, <2>2, DivMod
<1>4. q * P \in Nat /\ q * P < K * P
  BY <1>1, <1>3
<1>5. q * P + P <= SizeMod
  BY Zenon, <1>1, <1>2, <1>3, <1>4, MulGap
<1>6. CASE r > 0
  <2>1. n - r + P = q * P + P
    BY <1>1, <1>2, <1>4
  <2>2. RoundUp(n, P) = (q * P + P) % SizeMod
    BY Zenon, <1>6, <2>1 DEF RoundUp
  <2>3. (q * P + P) % SizeMod = IF q * P + P = SizeMod THEN 0 ELSE q * P + P
    BY <1>1, <1>5
  <2> HIDE DEF P, q, r, K
  <2> QED
    BY <1>1, <1>2, <2>2, <2>3 DEF P
<1>7. CASE r = 0
  <2>1. RoundUp(n, P) = n
    BY <1>7 DEF RoundUp
  <2>2. 0 * P < q * P => 0 * P + P <= q * P
    BY Zenon, <1>1, <1>2, MulGap
  <2>3. n > 0 => n >= P
    BY <1>1, <1>7
  <2> QED
    BY <1>1, <2>1, <2>3
<1> QED
  BY <1>2, <1>6, <1>7

(***************************************************************************)
(* Blocks in use, and neighbouring free segments.                          *)
(***************************************************************************)

\* The payload of a block in use holds no header word of any segment.
LEMMA PayloadHasNoHeader ==
  ASSUME NEW h, NEW e, GoodHeap(h, e), NEW r \in [Addr -> Nat], BlocksMatch(h, r),
         NEW p \in Addr, r[p] # 0, NEW a \in p .. (p + r[p] - 1), NEW s \in h.segs
  PROVE  /\ a \in Addr /\ p - 4 \in h.segs /\ h.mem[p - 4 + 3] = 0
         /\ r[p] <= h.mem[p - 4] /\ p + r[p] <= e /\ a >= 4
         /\ a < s \/ a >= s + 4
         /\ s # p - 4 => a < s \/ a >= s + 4 + h.mem[s]
<1> DEFINE u == p - 4
<1>1. p \in Nat /\ u \in h.segs /\ p = u + 4 /\ r[p] \in Nat
  BY DEF BlocksMatch, Addr
<1>2. /\ u \in Nat /\ u >= 4 /\ h.mem[u] \in Nat /\ u + 4 + h.mem[u] <= e /\ e <= Top
      /\ e \in Nat /\ Top \in Nat
  BY <1>1, HeaderWords, TopType
<1>3. h.mem[u + 3] = 0 /\ r[p] <= h.mem[u] /\ u + 0 = u
  BY <1>1 DEF BlocksMatch
<1>4. s \in Nat /\ h.mem[s] \in Nat
  BY Zenon, HeaderWords
<1>5. s # u => s + 4 + h.mem[s] <= u \/ u + 4 + h.mem[u] <= s
  BY Zenon, <1>1, SegmentsApart
<1> HIDE DEF u
<1>6. a \in Nat /\ a >= u + 4 /\ a < u + 4 + h.mem[u]
  BY <1>1, <1>2, <1>3
<1>7. a \in Addr
  BY SMTT(30), <1>2, <1>6 DEF Addr
<1>8. a < s \/ a >= s + 4
  BY <1>2, <1>4, <1>5, <1>6
<1>9. s # u => a < s \/ a >= s + 4 + h.mem[s]
  BY <1>2, <1>4, <1>5, <1>6
<1>10. p + r[p] <= e
  BY <1>1, <1>2, <1>3
<1> QED
  BY <1>1, <1>2, <1>3, <1>7, <1>8, <1>9

\* From m to k no word of a block in use has changed.
SamePayload(m, k, r) ==
    \A p \in Addr : r[p] # 0 => \A a \in p .. (p + r[p] - 1) : k[a] = m[a]

\* SamePayload is transitive.
LEMMA SamePayloadTrans ==
  ASSUME NEW m, NEW k, NEW l, NEW r, SamePayload(m, k, r), SamePayload(k, l, r)
  PROVE  SamePayload(m, l, r)
  BY Zenon DEF SamePayload

\* Every block of r survives the step from h to c, and so does the free segment s.
KeepsBlocks(h, r, s, c) ==
    /\ BlocksMatch(c, r)
    /\ c.mem[s + 3] # 0 /\ s \in c.segs /\ c.mem[s + 2] = h.mem[s + 2]
    /\ SamePayload(h.mem, c.mem, r)

\* SegmentHeaderCombineForward on a free segment leaves every block alone.
LEMMA ForwardBlocks ==
  ASSUME NEW h, NEW e, GoodHeap(h, e), NEW r \in [Addr -> Nat], BlocksMatch(h, r),
         NEW s \in h.segs, h.mem[s + 3] # 0,
         NEW c, c = SegmentHeaderCombineForward(h, s)
  PROVE  KeepsBlocks(h, r, s, c)
<1>1. CASE ~Swallows(h, s)
  BY Zenon, <1>1 DEF Swallows, SegmentHeaderCombineForward, SamePayload, KeepsBlocks
<1>2. CASE Swallows(h, s)
  <2> DEFINE n == h.mem[s + 1]
             m == h.mem
             k == c.mem
  <2>1. /\ c.segs = h.segs \ {n}
        /\ k[s + 2] = m[s + 2]
        /\ k[s + 3] = m[s + 3]
        /\ \A t \in h.segs \ {s, n} : k[t] = m[t] /\ k[t + 3] = m[t + 3]
        /\ \A a \in Addr : a # s /\ a # s + 1 /\ (m[n + 1] # 0 => a # m[n + 1] + 2)
                              => k[a] = m[a]
    <3>1. ForwardOutcome(h, s, n, c)
      BY Zenon, <1>2, ForwardEffect
    <3> HIDE DEF n
    <3> QED
      BY Zenon, <3>1 DEF ForwardOutcome, m, k
  <2>2. n \in h.segs /\ n = s + 4 + m[s] /\ n # 0 /\ m[n + 3] # 0
    BY Zenon, <1>2, NextSegment DEF Swallows
  <2>3. m[n + 1] # 0 => m[n + 1] \in h.segs
    BY Zenon, <2>2, NextSegment
  <2>4. \A t \in h.segs : t \in Nat /\ t + 0 = t /\ m[t] \in Nat
    BY HeaderWords
  <2>5. s # n /\ s \in c.segs
    <3>1. s \in Nat /\ m[s] \in Nat /\ n = s + 4 + m[s]
      BY Zenon, <2>2, <2>4
    <3>2. s # n
      BY <3>1
    <3> QED
      BY Zenon, <2>1, <3>2
  <2>6. r[n + 4] = 0
    BY Zenon, <2>2 DEF BlocksMatch
  <2>7. BlocksMatch(c, r)
    <3>1. \A p \in Addr : r[p] # 0 => p - 4 \in c.segs
      <4> SUFFICES ASSUME NEW p \in Addr, r[p] # 0
                   PROVE  p - 4 \in c.segs
        BY Zenon
      <4>1. p - 4 \in h.segs
        BY Zenon DEF BlocksMatch
      <4>2. p - 4 # n
        BY SMTT(30), <2>6 DEF Addr
      <4> QED
        BY Zenon, <4>1, <4>2, <2>1
    <3>2. \A t \in c.segs : /\ k[t + 3] # 0 => r[t + 4] = 0
                            /\ ~(k[t + 3] # 0) => r[t + 4] \in 1 .. k[t]
      <4> SUFFICES ASSUME NEW t \in c.segs
                   PROVE  /\ k[t + 3] # 0 => r[t + 4] = 0
                          /\ ~(k[t + 3] # 0) => r[t + 4] \in 1 .. k[t]
        BY Zenon
      <4>1. t \in h.segs /\ t # n /\ k[t + 3] = m[t + 3] /\ t + 0 = t
        BY Zenon, <2>1, <2>4
      <4>2. t # s => k[t] = m[t]
        BY Zenon, <4>1, <2>1
      <4> QED
        BY Zenon, <4>1, <4>2 DEF BlocksMatch
    <3>3. \A t \in c.segs : t + 0 = t
      BY Zenon, <2>1, <2>4
    <3> QED
      BY Zenon, <3>1, <3>2, <3>3 DEF BlocksMatch
  <2>8. ASSUME NEW p \in Addr, r[p] # 0, NEW a \in p .. (p + r[p] - 1)
        PROVE  k[a] = m[a]
    <3>1. a \in Addr /\ \A t \in h.segs : a < t \/ a >= t + 4
      <4> SUFFICES ASSUME NEW t \in h.segs
                   PROVE  a \in Addr /\ (a < t \/ a >= t + 4)
        BY Zenon
      <4> QED
        BY Zenon, <2>8, PayloadHasNoHeader
    <3>2. a # s /\ a # s + 1
      BY <3>1, <2>4
    <3>3. ASSUME NEW v, v = m[n + 1], v # 0
          PROVE  a # v + 2
      <4>1. v \in Nat /\ (a < v \/ a >= v + 4)
        BY Zenon, <3>1, <3>3, <2>3, <2>4
      <4>2. a \in Nat
        BY <3>1 DEF Addr
      <4> QED
        BY <4>1, <4>2
    <3> QED
      BY Zenon, <3>1, <3>2, <3>3, <2>1
  <2>9. SamePayload(m, k, r)
    BY <2>8, Zenon DEF SamePayload
  <2> QED
    BY Zenon, <2>1, <2>5, <2>7, <2>9 DEF KeepsBlocks
<1> QED
  BY Zenon, <1>1, <1>2

\* Coalesced, apart from the segments in X.
CoalescedBut(h, e, X) ==
    \A t \in h.segs \ X : (h.mem[t + 3] # 0 /\ t + 4 + h.mem[t] # e)
                             => h.mem[t + 4 + h.mem[t] + 3] = 0

\* Coalesced is CoalescedBut with no exception.
LEMMA CoalescedFlat ==
  ASSUME NEW h \in HeapType, NEW e
  PROVE  Coalesced(h, e) <=> CoalescedBut(h, e, {})
<1>1. \A s \in h.segs : s \in Nat /\ s + 0 = s
  BY DEF HeapType, Addr
<1> QED
  BY Zenon, <1>1 DEF Coalesced, CoalescedBut

\* SegmentHeaderCombineForward removes s from the exceptions.
LEMMA ForwardCoalesces ==
  ASSUME NEW h, NEW e, GoodHeap(h, e), NEW X, CoalescedBut(h, e, X),
         NEW s \in h.segs, h.mem[s + 1] # 0 => h.mem[s + 1] \notin X,
         NEW c, c = SegmentHeaderCombineForward(h, s)
  PROVE  CoalescedBut(c, e, X \ {s})
<1> DEFINE n == h.mem[s + 1]
           m == h.mem
           k == c.mem
<1>1. /\ \A t \in h.segs : SegOK(m, h.segs, e, t)
      /\ \A t, u \in h.segs : t < u => t + 4 + m[t] <= u
  BY Zenon, TiledFlat DEF GoodHeap
<1>2. \A t \in h.segs : t \in Nat /\ t >= 4 /\ m[t] \in Nat /\ m[t] >= 2 /\ m[t + 3] \in {0, 1}
  BY HeaderWords, TopType
<1>3. CASE ~Swallows(h, s)
  <2>1. c = h
    BY Zenon, <1>3 DEF Swallows, SegmentHeaderCombineForward
  <2>2. s + 4 + m[s] # e => n = s + 4 + m[s] /\ n # 0
    <3>1. s + 4 + m[s] # e => n = s + 4 + m[s]
      BY Zenon, <1>1 DEF SegOK
    <3>2. s \in Nat /\ m[s] \in Nat
      BY Zenon, <1>2
    <3>3. s + 4 + m[s] # 0
      BY <3>2
    <3> QED
      BY Zenon, <3>1, <3>3
  <2>3. s + 4 + m[s] # e => m[s + 4 + m[s] + 3] = 0
    BY Zenon, <2>2, <1>3 DEF Swallows
  <2> QED
    BY Zenon, <2>1, <2>3 DEF CoalescedBut
<1>4. CASE Swallows(h, s)
  <2>1. /\ c.segs = h.segs \ {n}
        /\ k[s] = m[s] + m[n] + 4
        /\ k[s + 3] = m[s + 3]
        /\ \A t \in h.segs \ {s, n} : k[t] = m[t] /\ k[t + 3] = m[t + 3]
    <3>1. ForwardOutcome(h, s, n, c)
      BY Zenon, <1>4, ForwardEffect
    <3> HIDE DEF n
    <3> QED
      BY Zenon, <3>1 DEF ForwardOutcome, m, k
  <2>2. n \in h.segs /\ n = s + 4 + m[s] /\ n # 0 /\ m[n + 3] # 0
    BY Zenon, <1>4, NextSegment DEF Swallows
  <2> HIDE DEF k, m, n
  <2>3. SegOK(m, h.segs, e, n) /\ n \notin X
    BY Zenon, <1>1, <2>2 DEF n, m
  <2>4. n + 4 + m[n] # e => /\ n + 4 + m[n] \in h.segs \ {s, n}
                            /\ m[n + 4 + m[n] + 3] = 0
    <3>1. n + 4 + m[n] # e => n + 4 + m[n] \in h.segs \ {s, n}
      <4>1. n + 4 + m[n] # e => n + 4 + m[n] \in h.segs
        BY Zenon, <2>3 DEF SegOK
      <4>2. s \in Nat /\ m[s] \in Nat /\ n \in Nat /\ m[n] \in Nat /\ n = s + 4 + m[s]
        BY Zenon, <2>2, <1>2
      <4>3. n + 4 + m[n] # s /\ n + 4 + m[n] # n
        BY <4>2
      <4> QED
        BY Zenon, <4>1, <4>3
    <3> QED
      BY Zenon, <3>1, <2>2, <2>3 DEF CoalescedBut, m
  <2>5. s + 4 + k[s] = n + 4 + m[n]
    BY <2>1, <2>2, <1>2
  <2>6. ASSUME NEW t \in c.segs \ (X \ {s}), t # s, k[t + 3] # 0, t + 4 + k[t] # e
        PROVE  k[t + 4 + k[t] + 3] = 0
    <3>1. t \in h.segs \ X /\ t # n /\ k[t] = m[t] /\ m[t + 3] # 0
      BY Zenon, <2>6, <2>1
    <3>2. t + 4 + m[t] \in h.segs /\ m[t + 4 + m[t] + 3] = 0
      <4>1. t + 4 + m[t] # e
        BY Zenon, <3>1, <2>6
      <4>2. t + 4 + m[t] \in h.segs
        BY Zenon, <3>1, <4>1, <1>1 DEF SegOK
      <4>3. m[t + 4 + m[t] + 3] = 0
        BY Zenon, <3>1, <4>1 DEF CoalescedBut, m
      <4> QED
        BY Zenon, <4>2, <4>3
    <3>3. t + 4 + m[t] # n
      BY Zenon, <3>2, <2>2
    <3>4. k[t + 4 + m[t] + 3] = m[t + 4 + m[t] + 3]
      BY Zenon, <3>2, <3>3, <2>1
    <3> QED
      BY Zenon, <3>1, <3>2, <3>4
  <2>7. s + 4 + k[s] # e => k[s + 4 + k[s] + 3] = 0
    BY Zenon, <2>1, <2>4, <2>5
  <2> QED
    BY Zenon, <2>6, <2>7 DEF CoalescedBut, k
<1> QED
  BY Zenon, <1>3, <1>4

\* The segment before s, if there is one.
LEMMA LastSegment ==
  ASSUME NEW h, NEW e, GoodHeap(h, e), NEW s \in h.segs, h.mem[s + 2] # 0
  PROVE  /\ h.mem[s + 2] \in h.segs /\ h.mem[h.mem[s + 2] + 1] = s
         /\ h.mem[s + 2] + 4 + h.mem[h.mem[s + 2]] = s
         /\ h.mem[s + 2] # s
<1> DEFINE q == h.mem[s + 2]
<1>1. /\ h.mem[HeapStart + 2] = 0 /\ \A t \in h.segs : SegOK(h.mem, h.segs, e, t)
  BY Zenon, TiledFlat DEF GoodHeap
<1>2. q \in h.segs /\ q + 4 + h.mem[q] = s
  BY Zenon, <1>1 DEF SegOK
<1>3. s \in Nat /\ h.mem[s] \in Nat /\ q \in Nat /\ h.mem[q] \in Nat /\ s + 6 <= e /\ e \in Nat
  BY Zenon, <1>2, HeaderWords
<1>4. q # s /\ s # e
  BY <1>2, <1>3
<1>5. SegOK(h.mem, h.segs, e, q)
  BY Zenon, <1>1, <1>2
<1>6. h.mem[q + 1] = s
  BY Zenon, <1>2, <1>4, <1>5 DEF SegOK
<1> QED
  BY Zenon, <1>2, <1>4, <1>6

\* SegmentHeaderCombineBackward on a free segment, all it preserves.
LEMMA BackwardAll ==
  ASSUME NEW h, NEW e, GoodHeap(h, e), NEW r \in [Addr -> Nat], BlocksMatch(h, r),
         NEW s \in h.segs, h.mem[s + 3] # 0, CoalescedBut(h, e, {h.mem[s + 2]}),
         NEW c, c = SegmentHeaderCombineBackward(h, s)
  PROVE  /\ GoodHeap(c, e) /\ BlocksMatch(c, r) /\ CoalescedBut(c, e, {})
         /\ SamePayload(h.mem, c.mem, r)
<1> DEFINE q == h.mem[s + 2]
<1>1. CASE q # 0 /\ h.mem[q + 3] # 0
  <2>1. c = SegmentHeaderCombineForward(h, q)
    BY Zenon, <1>1 DEF SegmentHeaderCombineBackward
  <2>2. q \in h.segs /\ h.mem[q + 1] = s /\ q # s
    BY Zenon, <1>1, LastSegment
  <2>3. GoodHeap(c, e)
    BY Zenon, <2>1, <2>2, ForwardGood
  <2>4. /\ BlocksMatch(c, r)
        /\ SamePayload(h.mem, c.mem, r)
    <3>1. KeepsBlocks(h, r, q, c)
      BY Zenon, <1>1, <2>1, <2>2, ForwardBlocks
    <3> HIDE DEF q
    <3> QED
      BY Zenon, <3>1 DEF KeepsBlocks
  <2>5. CoalescedBut(c, e, {q} \ {q})
    BY Zenon, <2>1, <2>2, ForwardCoalesces
  <2> QED
    BY Zenon, <2>3, <2>4, <2>5
<1>2. CASE ~(q # 0 /\ h.mem[q + 3] # 0)
  <2>1. c = h
    BY Zenon, <1>2 DEF SegmentHeaderCombineBackward
  <2>2. 0 \notin h.segs
    BY HeaderWords, TopType
  <2>3. CoalescedBut(h, e, {})
    BY Zenon, <1>2, <2>2 DEF CoalescedBut
  <2> QED
    BY Zenon, <2>1, <2>3 DEF SamePayload
<1> QED
  BY Zenon, <1>1, <1>2

\* Where the new header goes when s is cut to n words.
LEMMA SplitPlace ==
  ASSUME NEW h, NEW e, GoodHeap(h, e), NEW s \in h.segs, NEW n \in Nat, Cuts(h, s, n),
         NEW N, N = s + n + 4
  PROVE  /\ N \in Nat /\ N > s /\ N + 6 <= s + 4 + h.mem[s] /\ n >= 2
         /\ N + 4 + (h.mem[s] - n - 4) = s + 4 + h.mem[s]
         /\ N \notin h.segs
<1>1. \A t \in h.segs : t \in Nat /\ h.mem[t] \in Nat
  BY Zenon, HeaderWords
<1>2. \A t, u \in h.segs : t < u => t + 4 + h.mem[t] <= u
  BY Zenon, TiledFlat DEF GoodHeap
<1>3. /\ N \in Nat /\ N > s /\ N + 6 <= s + 4 + h.mem[s] /\ n >= 2
      /\ N + 4 + (h.mem[s] - n - 4) = s + 4 + h.mem[s]
  BY <1>1 DEF Cuts
<1>4. N \notin h.segs
  BY <1>1, <1>2, <1>3
<1> QED
  BY Zenon, <1>3, <1>4

\* SegmentHeaderSplit of a free segment leaves the blocks as they are.
LEMMA SplitMatches ==
  ASSUME NEW h, NEW e, NEW r \in [Addr -> Nat], BlocksMatch(h, r),
         NEW s \in h.segs, h.mem[s + 3] # 0, NEW n \in Nat, NEW N \in Nat,
         N + 4 \in Addr, N \notin h.segs, \A t \in h.segs : t + 0 = t,
         NEW c, SplitOutcome(h, s, n, N, c)
  PROVE  BlocksMatch(c, r)
<1>1. /\ c.segs = h.segs \cup {N} /\ c.mem[s + 3] = h.mem[s + 3] /\ c.mem[N + 3] = h.mem[s + 3]
      /\ \A t \in h.segs \ {s} : c.mem[t] = h.mem[t] /\ c.mem[t + 3] = h.mem[t + 3]
  BY Zenon DEF SplitOutcome
<1>2. r[N + 4] = 0 /\ N + 0 = N
  <2>1. (N + 4) - 4 = N /\ N + 0 = N
    OBVIOUS
  <2> QED
    BY Zenon, <2>1 DEF BlocksMatch
<1>3. \A p \in Addr : r[p] # 0 => p - 4 \in c.segs
  BY Zenon, <1>1 DEF BlocksMatch
<1>4. \A t \in c.segs : t + 0 = t
  BY Zenon, <1>1, <1>2
<1>5. ASSUME NEW t \in c.segs
      PROVE  /\ c.mem[t + 3] # 0 => r[t + 4] = 0
             /\ ~(c.mem[t + 3] # 0) => r[t + 4] \in 1 .. c.mem[t]
  <2>1. CASE t = N
    BY Zenon, <2>1, <1>1, <1>2
  <2>2. CASE t = s
    BY Zenon, <2>2, <1>1 DEF BlocksMatch
  <2>3. CASE t # N /\ t # s
    <3>1. t \in h.segs /\ c.mem[t] = h.mem[t] /\ c.mem[t + 3] = h.mem[t + 3] /\ t + 0 = t
      BY Zenon, <2>3, <1>1
    <3> QED
      BY Zenon, <3>1 DEF BlocksMatch
  <2> QED
    BY Zenon, <2>1, <2>2, <2>3
<1> QED
  BY Zenon, <1>3, <1>4, <1>5 DEF BlocksMatch

\* Only the cut itself is a place where two free segments meet.
LEMMA SplitCoalesced ==
  ASSUME NEW h, NEW e, CoalescedBut(h, e, {}), \A t \in h.segs : SegOK(h.mem, h.segs, e, t),
         \A t \in h.segs : t \in Nat /\ h.mem[t] \in Nat,
         NEW s \in h.segs, h.mem[s + 3] # 0, NEW n \in Nat, NEW N \in Nat,
         N + 4 + (h.mem[s] - n - 4) = s + 4 + h.mem[s],
         NEW c, SplitOutcome(h, s, n, N, c)
  PROVE  CoalescedBut(c, e, {s})
<1>1. /\ c.segs = h.segs \cup {N} /\ c.mem[N] = h.mem[s] - n - 4
      /\ \A t \in h.segs \ {s} : c.mem[t] = h.mem[t] /\ c.mem[t + 3] = h.mem[t + 3]
  BY Zenon DEF SplitOutcome
<1>2. ASSUME NEW t \in h.segs, h.mem[t + 3] # 0, t + 4 + h.mem[t] # e
      PROVE  t + 4 + h.mem[t] \in h.segs /\ h.mem[t + 4 + h.mem[t] + 3] = 0
  BY Zenon, <1>2 DEF CoalescedBut, SegOK
<1>3. ASSUME NEW t \in c.segs, t # s, c.mem[t + 3] # 0, t + 4 + c.mem[t] # e
      PROVE  c.mem[t + 4 + c.mem[t] + 3] = 0
  <2>1. CASE t = N
    <3>1. t + 4 + c.mem[t] = s + 4 + h.mem[s]
      BY Zenon, <1>1, <2>1
    <3>2. s + 4 + h.mem[s] \in h.segs /\ h.mem[s + 4 + h.mem[s] + 3] = 0
      BY Zenon, <1>2, <1>3, <3>1
    <3>3. s + 4 + h.mem[s] # s
      OBVIOUS
    <3> QED
      BY Zenon, <1>1, <3>1, <3>2, <3>3
  <2>2. CASE t # N
    <3>1. t \in h.segs /\ c.mem[t] = h.mem[t] /\ h.mem[t + 3] # 0
      BY Zenon, <1>1, <1>3, <2>2
    <3>2. t + 4 + h.mem[t] \in h.segs /\ h.mem[t + 4 + h.mem[t] + 3] = 0
      BY Zenon, <1>2, <1>3, <3>1
    <3>3. t + 4 + h.mem[t] # s
      BY Zenon, <3>2
    <3> QED
      BY Zenon, <1>1, <3>1, <3>2, <3>3
  <2> QED
    BY Zenon, <2>1, <2>2
<1> QED
  BY Zenon, <1>3 DEF CoalescedBut

\* SegmentHeaderSplit writes inside the free segment s, and to the header after it.
LEMMA SplitPayload ==
  ASSUME NEW h, NEW e, GoodHeap(h, e), NEW r \in [Addr -> Nat], BlocksMatch(h, r),
         NEW s \in h.segs, h.mem[s + 3] # 0, NEW n \in Nat, NEW N \in Nat,
         N > s, N + 6 <= s + 4 + h.mem[s],
         NEW c, SplitOutcome(h, s, n, N, c)
  PROVE  SamePayload(h.mem, c.mem, r)
<1> DEFINE next == h.mem[s + 1]
<1>1. ASSUME NEW p \in Addr, r[p] # 0, NEW a \in p .. (p + r[p] - 1)
      PROVE  c.mem[a] = h.mem[a]
  <2>1. /\ a \in Addr /\ a >= 4 /\ h.mem[p - 4 + 3] = 0
        /\ s # p - 4 => a < s \/ a >= s + 4 + h.mem[s]
    BY Zenon, <1>1, PayloadHasNoHeader
  <2>2. a < s \/ a >= s + 4 + h.mem[s]
    BY Zenon, <2>1
  <2>3. s \in Nat /\ h.mem[s] \in Nat /\ h.mem[s + 1] \in Nat
    BY Zenon, HeaderWords
  <2>4. a # next + 2
    <3>1. next # 0 => a < next \/ a >= next + 4
      <4>1. next # 0 => next \in h.segs
        BY Zenon, NextSegment
      <4> QED
        BY Zenon, <1>1, <4>1, PayloadHasNoHeader
    <3>2. a \in Nat /\ a >= 4 /\ next \in Nat
      BY <2>1, <2>3
    <3> HIDE DEF next
    <3> QED
      BY <3>1, <3>2
  <2>5. /\ a # s /\ a # s + 1 /\ a # N /\ a # N + 1 /\ a # N + 2 /\ a # N + 3
    <3>1. a \in Nat
      BY <2>1 DEF Addr
    <3> QED
      BY <3>1, <2>2, <2>3
  <2> QED
    BY Zenon, <2>1, <2>4, <2>5 DEF SplitOutcome
<1> QED
  BY Zenon, <1>1 DEF SamePayload

\* SegmentHeaderSplit of a free segment: the blocks stay as they are, and only
\* the cut itself is a place where two free segments meet.
LEMMA SplitAll ==
  ASSUME NEW h, NEW e, GoodHeap(h, e), NEW r \in [Addr -> Nat], BlocksMatch(h, r),
         CoalescedBut(h, e, {}), NEW s \in h.segs, h.mem[s + 3] # 0,
         NEW n \in Nat, h.mem[s] >= n,
         NEW c, c = SegmentHeaderSplit(h, s, n)
  PROVE  /\ GoodHeap(c, e) /\ BlocksMatch(c, r) /\ CoalescedBut(c, e, {s})
         /\ s \in c.segs /\ c.mem[s] >= n /\ c.mem[s + 3] # 0
         /\ SamePayload(h.mem, c.mem, r)
<1>1. GoodHeap(c, e)
  BY Zenon, SplitGood
<1>2. CASE ~Cuts(h, s, n)
  <2>1. n < 2 \/ h.mem[s] - n - 4 < 2
    BY <1>2, HeaderWords DEF Cuts
  <2>2. c = h
    <3>1. s + 0 = s
      BY HeaderWords
    <3> QED
      BY Zenon, <2>1, <3>1 DEF SegmentHeaderSplit
  <2> QED
    BY Zenon, <1>1, <2>2 DEF CoalescedBut, SamePayload
<1>3. CASE Cuts(h, s, n)
  <2> DEFINE N == s + n + 4
  <2>1. SplitOutcome(h, s, n, N, c)
    BY Zenon, <1>3, SplitEffect
  <2>2. /\ N \in Nat /\ N > s /\ N + 6 <= s + 4 + h.mem[s] /\ n >= 2
        /\ N + 4 + (h.mem[s] - n - 4) = s + 4 + h.mem[s] /\ N \notin h.segs
    BY Zenon, <1>3, SplitPlace
  <2> HIDE DEF N
  <2>3. s \in c.segs /\ N \in c.segs /\ c.mem[s] = n /\ c.mem[s + 3] = h.mem[s + 3]
    BY Zenon, <2>1 DEF SplitOutcome
  <2>4. N + 4 \in Addr /\ \A t \in h.segs : t + 0 = t /\ t \in Nat /\ h.mem[t] \in Nat
    BY <1>1, <2>3, HeaderWords
  <2>5. \A t \in h.segs : SegOK(h.mem, h.segs, e, t)
    BY Zenon, TiledFlat DEF GoodHeap
  <2>6. BlocksMatch(c, r)
    BY Zenon, <2>1, <2>2, <2>4, SplitMatches
  <2>7. CoalescedBut(c, e, {s})
    BY Zenon, <2>1, <2>2, <2>4, <2>5, SplitCoalesced
  <2>8. SamePayload(h.mem, c.mem, r)
    BY Zenon, <2>1, <2>2, SplitPayload
  <2>9. c.mem[s] >= n
    BY <2>3
  <2>10. c.mem[s + 3] # 0
    BY Zenon, <2>3
  <2> QED
    BY Zenon, <1>1, <2>3, <2>6, <2>7, <2>8, <2>9, <2>10
<1> QED
  BY Zenon, <1>2, <1>3

\* The segment s, free and not merged, becomes the block of q words.
LEMMA MarkUsed ==
  ASSUME NEW g, NEW e, GoodHeap(g, e), NEW r \in [Addr -> Nat], BlocksMatch(g, r),
         NEW s \in g.segs, CoalescedBut(g, e, {s}), g.mem[s + 3] # 0,
         NEW q \in Nat, q >= 1, g.mem[s] >= q,
         NEW c, MarkOutcome(g, s, 0, c)
  PROVE  /\ BlocksMatch(c, [r EXCEPT ![s + 4] = q]) /\ CoalescedBut(c, e, {})
         /\ SamePayload(g.mem, c.mem, r)
<1> DEFINE r2 == [r EXCEPT ![s + 4] = q]
<1>1. /\ c.segs = g.segs
      /\ \A t \in g.segs : /\ c.mem[t] = g.mem[t]
                           /\ c.mem[t + 3] = IF t = s THEN 0 ELSE g.mem[t + 3]
      /\ \A a \in Addr : a # s + 3 => c.mem[a] = g.mem[a]
  BY Zenon DEF MarkOutcome
<1>2. \A t \in g.segs : t \in Nat /\ t + 0 = t /\ t + 4 \in Addr /\ g.mem[t] \in Nat
  BY HeaderWords
<1>3. r2[s + 4] = q /\ \A p \in Addr : p # s + 4 => r2[p] = r[p]
  BY Zenon, <1>2
<1> HIDE DEF r2
<1>4. BlocksMatch(c, r2)
  <2>1. ASSUME NEW p \in Addr, r2[p] # 0
        PROVE  p - 4 \in c.segs
    <3>1. CASE p = s + 4
      <4>1. s \in Nat
        BY Zenon, <1>2
      <4>2. p - 4 = s
        BY <3>1, <4>1
      <4> QED
        BY Zenon, <4>2, <1>1
    <3>2. CASE p # s + 4
      BY Zenon, <2>1, <3>2, <1>1, <1>3 DEF BlocksMatch
    <3> QED
      BY Zenon, <3>1, <3>2
  <2>2. ASSUME NEW t \in c.segs
        PROVE  /\ c.mem[t + 3] # 0 => r2[t + 4] = 0
               /\ ~(c.mem[t + 3] # 0) => r2[t + 4] \in 1 .. c.mem[t]
    <3>1. t \in g.segs /\ c.mem[t] = g.mem[t] /\ t + 4 \in Addr /\ t + 0 = t
      BY Zenon, <1>1, <1>2
    <3>2. CASE t = s
      <4>1. c.mem[t + 3] = 0 /\ r2[t + 4] = q /\ g.mem[t] \in Nat /\ g.mem[t] >= q
        BY Zenon, <3>1, <3>2, <1>1, <1>2, <1>3
      <4>2. q \in 1 .. g.mem[t]
        BY <4>1
      <4> QED
        BY Zenon, <3>1, <4>1, <4>2
    <3>3. CASE t # s
      <4>1. t \in Nat /\ s \in Nat
        BY Zenon, <3>1, <1>2
      <4>2. t + 4 # s + 4
        BY <3>3, <4>1
      <4>3. r2[t + 4] = r[t + 4] /\ c.mem[t + 3] = g.mem[t + 3]
        BY Zenon, <3>1, <3>3, <4>2, <1>1, <1>3
      <4> QED
        BY Zenon, <4>3, <3>1 DEF BlocksMatch
    <3> QED
      BY Zenon, <3>2, <3>3
  <2>3. \A t \in c.segs : t + 0 = t
    BY Zenon, <1>1, <1>2
  <2> QED
    BY Zenon, <2>1, <2>2, <2>3 DEF BlocksMatch
<1>5. ASSUME NEW t \in c.segs, c.mem[t + 3] # 0, t + 4 + c.mem[t] # e
      PROVE  c.mem[t + 4 + c.mem[t] + 3] = 0
  <2>1. t \in g.segs /\ t # s /\ c.mem[t] = g.mem[t] /\ g.mem[t + 3] # 0
    BY Zenon, <1>1, <1>5
  <2>2. SegOK(g.mem, g.segs, e, t)
    BY Zenon, <2>1, TiledFlat DEF GoodHeap
  <2>3. t + 4 + g.mem[t] \in g.segs
    BY Zenon, <1>5, <2>1, <2>2 DEF SegOK
  <2>4. g.mem[t + 4 + g.mem[t] + 3] = 0
    BY Zenon, <1>5, <2>1 DEF CoalescedBut
  <2> QED
    BY Zenon, <2>1, <2>3, <2>4, <1>1
<1>6. ASSUME NEW p \in Addr, r[p] # 0, NEW a \in p .. (p + r[p] - 1)
      PROVE  c.mem[a] = g.mem[a]
  <2>1. a \in Addr /\ (a < s \/ a >= s + 4)
    BY Zenon, <1>6, PayloadHasNoHeader
  <2>2. s \in Nat
    BY Zenon, <1>2
  <2>3. a # s + 3
    BY <2>1, <2>2 DEF Addr
  <2> QED
    BY Zenon, <2>1, <2>3, <1>1
<1>7. SamePayload(g.mem, c.mem, r)
  BY Zenon, <1>6 DEF SamePayload
<1>8. CoalescedBut(c, e, {})
  BY Zenon, <1>5 DEF CoalescedBut
<1> QED
  BY Zenon, <1>4, <1>7, <1>8 DEF r2

\* What malloc does to the segment it takes, all it preserves.
LEMMA TakeAll ==
  ASSUME NEW h, NEW e, GoodHeap(h, e), NEW r \in [Addr -> Nat], BlocksMatch(h, r),
         CoalescedBut(h, e, {}), NEW s \in h.segs, h.mem[s + 3] # 0,
         NEW n \in Nat, h.mem[s] >= n, NEW q \in 1 .. n,
         NEW g, g = IF h.mem[s] > n THEN SegmentHeaderSplit(h, s, n) ELSE h,
         NEW c, c = [g EXCEPT !.mem = [g.mem EXCEPT ![s + ISFREE] = 0]]
  PROVE  /\ GoodHeap(c, e) /\ BlocksMatch(c, [r EXCEPT ![s + 4] = q])
         /\ CoalescedBut(c, e, {})
         /\ SamePayload(h.mem, c.mem, r)
<1>1. /\ GoodHeap(g, e) /\ BlocksMatch(g, r) /\ CoalescedBut(g, e, {s})
      /\ s \in g.segs /\ g.mem[s] >= n /\ g.mem[s + 3] # 0
      /\ SamePayload(h.mem, g.mem, r)
  <2>1. CASE h.mem[s] > n
    <3>1. g = SegmentHeaderSplit(h, s, n)
      BY Zenon, <2>1
    <3> QED
      BY Zenon, <3>1, SplitAll
  <2>2. CASE ~(h.mem[s] > n)
    BY Zenon, <2>2 DEF CoalescedBut, SamePayload
  <2> QED
    BY Zenon, <2>1, <2>2
<1>2. GoodHeap(c, e) /\ MarkOutcome(g, s, 0, c)
  BY Zenon, <1>1, MarkGood
<1>3. g.mem[s] \in Nat
  BY Zenon, <1>1, HeaderWords
<1>4. q \in Nat /\ q >= 1 /\ q <= n
  OBVIOUS
<1>5. g.mem[s] >= q
  BY <1>1, <1>3, <1>4
<1>6. /\ BlocksMatch(c, [r EXCEPT ![s + 4] = q]) /\ CoalescedBut(c, e, {})
      /\ SamePayload(g.mem, c.mem, r)
  BY Zenon, <1>1, <1>2, <1>4, <1>5, MarkUsed
<1> QED
  BY Zenon, <1>1, <1>2, <1>6, SamePayloadTrans
=============================================================================
