----------------------------- MODULE PmmProofs -----------------------------
(* The page allocator's invariants, for every memory map and page size. *)
EXTENDS Pmm, FiniteSetTheorems, WellFoundedInduction, TLAPS

\* Quotient and remainder.
LEMMA DivMod ==
  ASSUME NEW n \in Nat, NEW p \in Nat, p > 0
  PROVE  /\ n \div p \in Nat /\ n % p \in 0 .. (p - 1)
         /\ n = (n \div p) * p + (n % p)
  BY SMTT(30)

\* Multiplication is monotone.
LEMMA MulMono ==
  ASSUME NEW a \in Nat, NEW b \in Nat, NEW p \in Nat, a <= b
  PROVE  a * p <= b * p /\ a * p \in Nat
  BY SMTT(30)

\* Division by p is monotone, and no larger than what it divides.
LEMMA DivMono ==
  ASSUME NEW a \in Nat, NEW b \in Nat, NEW p \in Nat, p > 0, a <= b
  PROVE  a \div p <= b \div p /\ a \div p <= a
<1> DEFINE q == a \div p
           r == b \div p
<1>1. /\ q \in Nat /\ a % p \in 0 .. (p - 1) /\ a = q * p + (a % p)
      /\ r \in Nat /\ b % p \in 0 .. (p - 1) /\ b = r * p + (b % p)
  BY DivMod
<1> HIDE DEF q, r
<1>2. q * p \in Nat /\ r * p \in Nat
  BY <1>1, MulMono
<1>3. q <= r
  <2> SUFFICES ASSUME r < q PROVE FALSE
    BY <1>1
  <2>1. (r + 1) * p <= q * p
    BY <1>1, MulMono
  <2>2. (r + 1) * p = r * p + p
    BY <1>1, SMTT(30)
  <2> QED
    BY <1>1, <1>2, <2>1, <2>2
<1>4. q <= a
  <2>1. q * 1 <= q * p
    BY <1>1, SMTT(30)
  <2> QED
    BY <1>1, <1>2, <2>1
<1> QED
  BY <1>3, <1>4 DEF q, r

\* A set of natural numbers that is not empty has a least element.
LEMMA MinExists ==
  ASSUME NEW T \in SUBSET Nat, T # {}
  PROVE  \E x \in T : \A y \in T : x <= y
<1> DEFINE R == OpToRel(<, Nat)
<1>1. IsWellFoundedOn(R, Nat)
  BY NatLessThanWellFounded, Zenon
<1>2. R = {ss \in Nat \X Nat : ss[1] < ss[2]}
  BY DEF OpToRel
<1> HIDE DEF R
<1>3. PICK x \in T : \A y \in T : ~(<<y, x>> \in R)
  <2>1. \E x \in T : \A y \in T : ~(<<y, x>> \in R)
    BY Zenon, <1>1, WFMin
  <2> QED
    BY <2>1
<1>4. \A y \in T : x <= y
  <2> SUFFICES ASSUME NEW y \in T, y < x PROVE FALSE
    OBVIOUS
  <2>1. <<y, x>> \in Nat \X Nat /\ <<y, x>>[1] < <<y, x>>[2]
    OBVIOUS
  <2>2. <<y, x>> \in R
    BY <1>2, <2>1
  <2> QED
    BY <1>3, <2>2
<1> QED
  BY <1>4

\* A bounded set of natural numbers that is not empty has a greatest element.
LEMMA MaxExists ==
  ASSUME NEW T \in SUBSET Nat, T # {}, NEW n \in Nat, \A y \in T : y <= n
  PROVE  \E x \in T : \A y \in T : y <= x
<1> DEFINE D == {n - y : y \in T}
<1>1. D \in SUBSET Nat /\ D # {}
  <2>1. \A y \in T : n - y \in Nat
    OBVIOUS
  <2>2. PICK y \in T : TRUE
    BY Zenon
  <2>3. n - y \in D
    OBVIOUS
  <2> QED
    BY <2>1, <2>3
<1>2. PICK d \in D : \A e \in D : d <= e
  BY Zenon, <1>1, MinExists
<1>3. PICK x \in T : d = n - x
  OBVIOUS
<1>4. ASSUME NEW y \in T
      PROVE  y <= x
  <2>1. n - y \in D
    OBVIOUS
  <2>2. x \in Nat /\ y \in Nat
    OBVIOUS
  <2> HIDE DEF D
  <2>3. n - x <= n - y
    BY SMTT(30), <1>2, <1>3, <2>1
  <2> QED
    BY SMTT(30), <2>2, <2>3
<1> QED
  BY <1>4

USE DEF NULL

\* An entry's pages are pages of memory.
LEMMA EntryPages ==
  ASSUME NEW m \in Maps, NEW i \in DOMAIN m
  PROVE  /\ i \in Nat /\ m[i].base \in Frame /\ m[i].length \in Nat
         /\ m[i].length <= MaxFrame /\ PagesOf(m[i]) \subseteq Frame
<1>1. WellFormed(m, MaxFrame) /\ MaxFrame \in Nat
  BY PmmAssumption
<1>2. m \in Seq(Entries(MaxFrame)) /\ m[i] \in Entries(MaxFrame) /\ i \in Nat
  BY <1>1 DEF WellFormed
<1>3. m[i].base \in 0 .. MaxFrame /\ m[i].length \in 0 .. MaxFrame
  BY <1>2 DEF Entries
<1>4. m[i].base + m[i].length <= MaxFrame + 1
  BY <1>1 DEF WellFormed
<1> QED
  BY SMTT(30), <1>1, <1>2, <1>3, <1>4 DEF PagesOf, Frame

\* The scan of a sorted map finds the least usable page above last.
LEMMA FirstIsLeast ==
  ASSUME NEW m \in Maps, NEW last \in Frame, SomePageAbove(m, last)
  PROVE  /\ FirstPageAbove(m, last) \in UsablePages(m)
         /\ FirstPageAbove(m, last) \in Frame
         /\ FirstPageAbove(m, last) > last
         /\ \A q \in UsablePages(m) : q > last => FirstPageAbove(m, last) <= q
<1> DEFINE C == {i \in UsableEntries(m) : Above(m, i, last) # {}}
           first == CHOOSE i \in C : \A j \in C : i <= j
           A == Above(m, first, last)
           p == CHOOSE p \in A : \A q \in A : p <= q
<1>1. C \in SUBSET Nat /\ C # {}
  BY EntryPages DEF SomePageAbove, UsableEntries
<1>2. first \in C /\ \A j \in C : first <= j
  <2>1. \E i \in C : \A j \in C : i <= j
    BY Zenon, <1>1, MinExists
  <2> HIDE DEF C
  <2> QED
    BY <2>1
<1>3. first \in DOMAIN m /\ m[first].usable /\ A # {}
  BY Zenon, <1>2 DEF UsableEntries
<1>4. A \in SUBSET Nat
  <2> HIDE DEF first
  <2>1. PagesOf(m[first]) \subseteq Nat
    BY <1>3, EntryPages DEF Frame
  <2> QED
    BY <2>1 DEF Above
<1>5. p \in A /\ \A q \in A : p <= q
  <2>1. \E x \in A : \A q \in A : x <= q
    BY Zenon, <1>3, <1>4, MinExists
  <2> HIDE DEF A
  <2> QED
    BY <2>1
<1>6. p = FirstPageAbove(m, last)
  BY Zenon DEF FirstPageAbove
<1> HIDE DEF p, first
<1>7. p \in PagesOf(m[first]) /\ p > last
  BY <1>5 DEF Above
<1>8. p \in UsablePages(m) /\ p \in Frame
  BY <1>3, <1>7, EntryPages DEF UsablePages, UsableEntries
<1>9. ASSUME NEW q \in UsablePages(m), q > last
      PROVE  p <= q
  <2>1. PICK j \in UsableEntries(m) : q \in PagesOf(m[j])
    BY <1>9 DEF UsablePages
  <2>2. j \in C
    BY <1>9, <2>1 DEF Above
  <2>3. CASE j = first
    BY <1>5, <1>9, <2>1, <2>3 DEF Above
  <2>4. CASE j # first
    <3>1. j \in DOMAIN m /\ first < j
      BY <1>1, <1>2, <2>2, <2>4 DEF UsableEntries
    <3>2. m[first].base + m[first].length <= m[j].base
      BY <1>3, <3>1, PmmAssumption DEF WellFormed
    <3>3. /\ m[first].base \in Nat /\ m[first].length \in Nat /\ m[j].base \in Nat
          /\ p \in Nat /\ q \in Nat
      BY <1>3, <3>1, <1>8, <2>1, EntryPages DEF Frame
    <3>4. p <= m[first].base + m[first].length - 1 /\ m[j].base <= q
      BY <1>7, <2>1, <3>3 DEF PagesOf
    <3> QED
      BY <3>2, <3>3, <3>4
  <2> QED
    BY <2>3, <2>4
<1> QED
  BY <1>6, <1>7, <1>8, <1>9

\* CreatePMM's choice is a page of memory.
LEMMA LargestBaseType ==
  ASSUME NEW m \in Maps
  PROVE  LargestBase(m) \in Frame
<1> DEFINE found == {i \in UsableEntries(m) : m[i].length > 0}
           longest == {i \in found : \A j \in found : m[j].length <= m[i].length}
           i0 == CHOOSE i \in longest : \A j \in longest : i <= j
<1>1. CASE found = {}
  <2>1. LargestBase(m) = 0
    BY <1>1 DEF LargestBase
  <2> QED
    BY <2>1, PmmAssumption DEF Frame
<1>2. CASE found # {}
  <2> DEFINE T == {m[i].length : i \in found}
  <2>1. \A i \in found : i \in DOMAIN m /\ i \in Nat /\ m[i].length \in Nat /\ m[i].length <= MaxFrame
    BY EntryPages DEF UsableEntries
  <2> HIDE DEF found
  <2>2. T \in SUBSET Nat /\ T # {} /\ MaxFrame \in Nat /\ \A y \in T : y <= MaxFrame
    BY <1>2, <2>1, PmmAssumption
  <2>3. \E x \in T : \A y \in T : y <= x
    BY Zenon, <2>2, MaxExists
  <2>4. longest # {}
    BY <2>3
  <2>5. longest \in SUBSET Nat
    BY <2>1
  <2>6. \E i \in longest : \A j \in longest : i <= j
    BY Zenon, <2>4, <2>5, MinExists
  <2>7. i0 \in longest
    <3> HIDE DEF longest
    <3> QED
      BY <2>6
  <2>8. i0 \in DOMAIN m
    <3> HIDE DEF i0
    <3> QED
      BY <2>1, <2>7
  <2>9. LargestBase(m) = m[i0].base
    BY <1>2, Zenon DEF LargestBase, found
  <2> HIDE DEF i0
  <2> QED
    BY <2>8, <2>9, EntryPages
<1> QED
  BY <1>1, <1>2

\* Different words of the stack are different words of memory.
LEMMA SlotsApart ==
  ASSUME NEW j \in Nat, NEW k \in Nat, j # k
  PROVE  j \div W # k \div W \/ j % W # k % W
<1>1. W \in Nat /\ W > 0
  BY PmmAssumption
<1>2. j = (j \div W) * W + (j % W) /\ k = (k \div W) * W + (k % W)
  BY <1>1, DivMod
<1> QED
  BY <1>2

\* Where the k-th word of the stack lies.
LEMMA SlotType ==
  ASSUME NEW k \in Nat
  PROVE  k % W \in Slot /\ k \div W \in Nat
<1>1. W \in Nat /\ W > 0
  BY PmmAssumption
<1> QED
  BY <1>1, DivMod DEF Slot
-----------------------------------------------------------------------------
(***************************************************************************)
(* The invariant of the stack: its words lie in pages the scan has not     *)
(* given out, its entries are distinct pages that were given out and have  *)
(* no holder, and between them the holders and the stack account for every *)
(* page the scan has passed.                                               *)
(***************************************************************************)
StackGood(st, n, base, o, last, u) ==
    /\ \A p \in Frame : o[p] \in {0, 1}
    /\ \A p \in Frame : o[p] = 1 => p \in u /\ 1 <= p /\ p <= last
    /\ \A k \in 0 .. (n - 1) : /\ base + (k \div W) \in Frame
                               /\ base + (k \div W) \notin 1 .. last
    /\ \A k \in 0 .. (n - 1) : /\ st[base + (k \div W)][k % W] \in u
                               /\ st[base + (k \div W)][k % W] \in 1 .. last
                               /\ o[st[base + (k \div W)][k % W]] = 0
    /\ \A j, k \in 0 .. (n - 1) :
          j # k => st[base + (j \div W)][j % W] # st[base + (k \div W)][k % W]
    /\ \A p \in u : (1 <= p /\ p <= last) =>
          o[p] = 1 \/ \E k \in 0 .. (n - 1) : p = st[base + (k \div W)][k % W]

IInv ==
    /\ TypeOK
    /\ pc = "boot" => FreeListLength = 0 /\ LastAddress = 0
                      /\ out = [p \in Frame |-> 0] /\ ~late
    /\ pc # "boot" => FreeList = LargestBase(map)
    /\ ~late => StackGood(mem, FreeListLength, FreeList, out, LastAddress, UsablePages(map))
    /\ pc = "done" => FreeListLength = 0 /\ ~SomePageAbove(map, LastAddress)

\* The stack is shorter than the scan has gone, so the next word fits.
LEMMA StackFits ==
  ASSUME IInv, ~late, pc # "boot", NEW p \in Frame, out[p] > 0
  PROVE  SlotPage(FreeListLength) \in Frame
<1> DEFINE L == FreeListLength
           f == [k \in 0 .. L |-> IF k = L THEN p ELSE Stacked(k)]
<1>1. /\ L \in Nat /\ LastAddress \in Nat /\ LastAddress <= MaxFrame /\ MaxFrame \in Nat
      /\ FreeList \in Nat /\ FreeList \in Frame /\ W \in Nat /\ W > 0
      /\ out \in [Frame -> Nat]
  BY PmmAssumption DEF IInv, TypeOK, Frame
<1>2. out[p] = 1 /\ p \in 1 .. LastAddress
  BY <1>1 DEF IInv, StackGood, Frame
<1>3. \A k \in 0 .. (L - 1) : Stacked(k) \in 1 .. LastAddress /\ out[Stacked(k)] = 0
  BY DEF IInv, StackGood, Stacked, SlotPage
<1>4. \A j, k \in 0 .. (L - 1) : j # k => Stacked(j) # Stacked(k)
  BY Zenon DEF IInv, StackGood, Stacked, SlotPage
<1>5. L < LastAddress
  <2> SUFFICES ASSUME LastAddress <= L PROVE FALSE
    BY <1>1
  <2>1. f \in [0 .. L -> 1 .. LastAddress]
    BY <1>1, <1>2, <1>3
  <2>2. /\ IsFiniteSet(0 .. L) /\ Cardinality(0 .. L) = L + 1
        /\ IsFiniteSet(1 .. LastAddress) /\ Cardinality(1 .. LastAddress) = LastAddress
    <3>1. 0 \in Int /\ 1 \in Int /\ L \in Int /\ LastAddress \in Int
      BY <1>1
    <3>2. IsFiniteSet(0 .. L) /\ Cardinality(0 .. L) = IF 0 > L THEN 0 ELSE L - 0 + 1
      BY <3>1, FS_Interval
    <3>3. /\ IsFiniteSet(1 .. LastAddress)
          /\ Cardinality(1 .. LastAddress) = IF 1 > LastAddress THEN 0 ELSE LastAddress - 1 + 1
      BY <3>1, FS_Interval
    <3> QED
      BY <1>1, <3>2, <3>3
  <2>3. Cardinality(1 .. LastAddress) < Cardinality(0 .. L)
    BY <1>1, <2>2
  <2> HIDE DEF f
  <2>4. PICK x \in 0 .. L, y \in 0 .. L : x # y /\ f[x] = f[y]
    <3>1. \E x, y \in 0 .. L : x # y /\ f[x] = f[y]
      BY Zenon, <2>1, <2>2, <2>3, FS_PigeonHole
    <3> QED
      BY <3>1
  <2>5. f[x] = (IF x = L THEN p ELSE Stacked(x)) /\ f[y] = (IF y = L THEN p ELSE Stacked(y))
    BY DEF f
  <2>6. CASE x = L
    <3>0. y # L
      BY <2>4, <2>6
    <3>1. y \in 0 .. (L - 1) /\ f[x] = p /\ f[y] = Stacked(y)
      <4>1. y \in 0 .. (L - 1)
        BY <1>1, <3>0
      <4> QED
        BY <2>5, <2>6, <3>0, <4>1, Zenon
    <3>2. out[Stacked(y)] = 0 /\ Stacked(y) = p
      BY Zenon, <1>3, <2>4, <3>1
    <3> QED
      BY <1>2, <3>2
  <2>7. CASE y = L
    <3>0. x # L
      BY <2>4, <2>7
    <3>1. x \in 0 .. (L - 1) /\ f[y] = p /\ f[x] = Stacked(x)
      <4>1. x \in 0 .. (L - 1)
        BY <1>1, <3>0
      <4> QED
        BY <2>5, <2>7, <3>0, <4>1, Zenon
    <3>2. out[Stacked(x)] = 0 /\ Stacked(x) = p
      BY <1>3, <2>4, <3>1
    <3> QED
      BY <1>2, <3>2
  <2>8. CASE x # L /\ y # L
    <3>1. x \in 0 .. (L - 1) /\ y \in 0 .. (L - 1)
      BY <1>1, <2>4, <2>8
    <3> QED
      BY Zenon, <1>4, <2>4, <2>5, <2>8, <3>1
  <2> QED
    BY <2>6, <2>7, <2>8
<1>6. L \div W \in Nat /\ L \div W <= L
  BY <1>1, DivMono, SlotType
<1>7. CASE FreeList = 0
  BY <1>1, <1>5, <1>6, <1>7 DEF SlotPage, Frame
<1>8. CASE L = 0
  <2>1. 0 \div W = 0
    BY <1>6, <1>8
  <2> QED
    BY <1>1, <1>8, <2>1 DEF SlotPage
<1>9. CASE L > 0 /\ FreeList # 0
  <2>1. 0 \div W \in Nat /\ 0 \div W <= 0
    BY <1>1, DivMono, SlotType
  <2>2. 0 \in 0 .. (L - 1) /\ FreeList + (0 \div W) = FreeList
    BY <1>1, <1>9, <2>1
  <2>3. FreeList \notin 1 .. LastAddress
    BY <2>2 DEF IInv, StackGood
  <2>4. L <= FreeList
    BY <1>1, <1>5, <1>9, <2>3
  <2>5. L \div W <= FreeList \div W /\ FreeList \div W \in Nat
    BY <1>1, <2>4, DivMono, SlotType
  <2>6. FreeList + (FreeList \div W) <= MaxFrame
    BY ListFits DEF IInv, TypeOK
  <2> QED
    BY <1>1, <1>6, <2>5, <2>6 DEF SlotPage, Frame
<1> QED
  BY <1>1, <1>7, <1>8, <1>9
-----------------------------------------------------------------------------
\* The stack only depends on pages the scan has not given out.
LEMMA StackSame ==
  ASSUME NEW st, NEW st2, NEW n, NEW base, NEW o, NEW last, NEW u,
         StackGood(st, n, base, o, last, u),
         \A q \in Frame : q \notin 1 .. last => st2[q] = st[q]
  PROVE  StackGood(st2, n, base, o, last, u)
<1> DEFINE E(k) == st[base + (k \div W)][k % W]
           F(k) == st2[base + (k \div W)][k % W]
<1>1. \A k \in 0 .. (n - 1) : F(k) = E(k)
  BY Zenon DEF StackGood
<1>2. /\ \A k \in 0 .. (n - 1) : E(k) \in u /\ E(k) \in 1 .. last /\ o[E(k)] = 0
      /\ \A j, k \in 0 .. (n - 1) : j # k => E(j) # E(k)
      /\ \A q \in u : (1 <= q /\ q <= last) =>
            o[q] = 1 \/ \E k \in 0 .. (n - 1) : q = E(k)
  BY Zenon DEF StackGood
<1> HIDE DEF E, F
<1>3. /\ \A k \in 0 .. (n - 1) : F(k) \in u /\ F(k) \in 1 .. last /\ o[F(k)] = 0
      /\ \A j, k \in 0 .. (n - 1) : j # k => F(j) # F(k)
  BY <1>1, <1>2, ZenonT(40)
<1>4. \A q \in u : (1 <= q /\ q <= last) =>
            o[q] = 1 \/ \E k \in 0 .. (n - 1) : q = F(k)
  BY <1>1, <1>2, ZenonT(40)
<1> QED
  BY <1>3, <1>4, Zenon DEF StackGood, F

\* Taking the top of the stack.
LEMMA StackPop ==
  ASSUME NEW st, NEW n \in Nat, n > 0, NEW base, NEW o \in [Frame -> Nat],
         NEW last \in Frame, NEW u, StackGood(st, n, base, o, last, u), NEW p,
         p = st[base + ((n - 1) \div W)][(n - 1) % W]
  PROVE  /\ StackGood(st, n - 1, base, [o EXCEPT ![p] = @ + 1], last, u)
         /\ p \in 1 .. last /\ p \in Frame
<1> DEFINE o2 == [o EXCEPT ![p] = @ + 1]
           E(k) == st[base + (k \div W)][k % W]
<1>0. n - 1 \in 0 .. (n - 1) /\ \A k \in 0 .. (n - 2) : k \in 0 .. (n - 1) /\ k # n - 1
  OBVIOUS
<1>1. p \in u /\ p \in 1 .. last /\ o[p] = 0 /\ p = E(n - 1)
  BY <1>0 DEF StackGood
<1>2. p \in Frame
  BY <1>1, PmmAssumption DEF Frame
<1>3. o2[p] = 1 /\ \A q \in Frame : q # p => o2[q] = o[q]
  BY <1>1, <1>2
<1>4. /\ \A k \in 0 .. (n - 1) : E(k) \in u /\ E(k) \in 1 .. last /\ o[E(k)] = 0
      /\ \A j, k \in 0 .. (n - 1) : j # k => E(j) # E(k)
      /\ \A q \in u : (1 <= q /\ q <= last) =>
            o[q] = 1 \/ \E k \in 0 .. (n - 1) : q = E(k)
      /\ \A k \in 0 .. (n - 1) : base + (k \div W) \in Frame /\ base + (k \div W) \notin 1 .. last
      /\ \A q \in Frame : o[q] \in {0, 1} /\ (o[q] = 1 => q \in u /\ 1 <= q /\ q <= last)
  BY Zenon DEF StackGood
<1>5. \A q \in 1 .. last : q \in Frame
  BY PmmAssumption DEF Frame
<1> HIDE DEF E, o2
<1>6. \A k \in 0 .. (n - 2) : E(k) # p /\ E(k) \in u /\ E(k) \in 1 .. last /\ o2[E(k)] = 0
  BY <1>0, <1>1, <1>3, <1>4, <1>5
<1>7. \A q \in Frame : o2[q] \in {0, 1} /\ (o2[q] = 1 => q \in u /\ 1 <= q /\ q <= last)
  BY <1>1, <1>3, <1>4, <1>2
<1>8. ASSUME NEW q \in u, 1 <= q, q <= last
      PROVE  o2[q] = 1 \/ \E k \in 0 .. (n - 2) : q = E(k)
  <2>1. CASE q = p
    BY <1>3, <2>1
  <2>2. CASE q # p /\ q \in Frame
    <3>1. CASE o[q] = 1
      BY <1>3, <2>2, <3>1
    <3>2. CASE \E k \in 0 .. (n - 1) : q = E(k)
      <4>1. PICK k \in 0 .. (n - 1) : q = E(k)
        BY <3>2
      <4>2. k # n - 1
        BY <1>1, <2>2, <4>1
      <4>3. k \in 0 .. (n - 2)
        BY <4>2
      <4> QED
        BY <4>1, <4>3
    <3> QED
      BY <1>4, <1>8, <3>1, <3>2
  <2>3. CASE q \notin Frame
    <3>1. o[q] = 1 \/ \E k \in 0 .. (n - 1) : q = E(k)
      BY <1>4, <1>8
    <3>2. ASSUME \E k \in 0 .. (n - 1) : q = E(k)
          PROVE  FALSE
      BY <1>4, <1>5, <2>3, <3>2
    <3>3. o2[q] = o[q]
      BY <2>3, <1>2 DEF o2
    <3> QED
      BY <3>1, <3>2, <3>3
  <2> QED
    BY <2>1, <2>2, <2>3
<1>9. n - 1 - 1 = n - 2
  BY SMTT(30)
<1>10. StackGood(st, n - 1, base, o2, last, u)
  <2>1. \A j, k \in 0 .. (n - 2) : j # k => E(j) # E(k)
    BY <1>0, <1>4
  <2>2. \A k \in 0 .. (n - 2) : base + (k \div W) \in Frame /\ base + (k \div W) \notin 1 .. last
    BY <1>0, <1>4
  <2> QED
    BY <1>6, <1>7, <1>8, <1>9, <2>1, <2>2 DEF StackGood, E
<1> QED
  BY <1>1, <1>2, <1>10 DEF o2

\* Putting a page on top of the stack.
LEMMA StackPush ==
  ASSUME NEW st \in [Frame -> [Slot -> Frame]], NEW n \in Nat, NEW base \in Frame,
         NEW o \in [Frame -> Nat], NEW last \in Frame, NEW u,
         StackGood(st, n, base, o, last, u), NEW p \in Frame, o[p] > 0,
         base + (n \div W) \in Frame, base + (n \div W) \notin 1 .. last
  PROVE  StackGood([st EXCEPT ![base + (n \div W)][n % W] = p], n + 1, base,
                   [o EXCEPT ![p] = @ - 1], last, u)
<1> DEFINE o2 == [o EXCEPT ![p] = @ - 1]
           st2 == [st EXCEPT ![base + (n \div W)][n % W] = p]
           E(k) == st[base + (k \div W)][k % W]
           F(k) == st2[base + (k \div W)][k % W]
<1>0. n + 1 - 1 = n /\ \A k \in 0 .. n : k \in Nat /\ (k = n \/ k \in 0 .. (n - 1))
  OBVIOUS
<1>1. /\ \A k \in 0 .. (n - 1) : E(k) \in u /\ E(k) \in 1 .. last /\ o[E(k)] = 0
      /\ \A j, k \in 0 .. (n - 1) : j # k => E(j) # E(k)
      /\ \A q \in u : (1 <= q /\ q <= last) =>
            o[q] = 1 \/ \E k \in 0 .. (n - 1) : q = E(k)
      /\ \A k \in 0 .. (n - 1) : base + (k \div W) \in Frame /\ base + (k \div W) \notin 1 .. last
      /\ \A q \in Frame : o[q] \in {0, 1} /\ (o[q] = 1 => q \in u /\ 1 <= q /\ q <= last)
  BY Zenon DEF StackGood
<1>2. o[p] = 1 /\ p \in u /\ p \in 1 .. last
  <2>1. o[p] = 1
    BY <1>1
  <2>2. p \in u /\ 1 <= p /\ p <= last
    BY <1>1, <2>1
  <2> QED
    BY SMTT(30), <2>1, <2>2, PmmAssumption DEF Frame
<1>3. n % W \in Slot
  BY SlotType
<1>4. F(n) = p
  BY <1>3
<1>5. ASSUME NEW k \in 0 .. (n - 1)
      PROVE  F(k) = E(k)
  <2>1. k \in Nat /\ k # n
    OBVIOUS
  <2>2. k \div W # n \div W \/ k % W # n % W
    BY <2>1, SlotsApart
  <2>3. base \in Nat /\ k \div W \in Nat /\ n \div W \in Nat /\ k % W \in Slot
    <3>1. k \div W \in Nat /\ n \div W \in Nat /\ k % W \in Slot
      BY Zenon, <2>1, SlotType
    <3> QED
      BY <3>1 DEF Frame
  <2>4. base + (k \div W) # base + (n \div W) \/ k % W # n % W
    BY <2>2, <2>3
  <2>5. base + (k \div W) \in Frame
    BY <1>1
  <2> DEFINE q == base + (k \div W)
             r == base + (n \div W)
             a == k % W
             b == n % W
  <2>6. q \in Frame /\ a \in Slot /\ (q # r \/ a # b)
    BY <2>3, <2>4, <2>5
  <2>7. F(k) = [st EXCEPT ![r][b] = p][q][a] /\ E(k) = st[q][a]
    BY Zenon
  <2> HIDE DEF q, r, a, b, E, F, st2
  <2>8. [st EXCEPT ![r][b] = p][q][a] = st[q][a]
    BY <2>6
  <2> QED
    BY <2>7, <2>8
<1>6. o2[p] = 0 /\ \A q \in Frame : q # p => o2[q] = o[q]
  BY <1>2
<1>7. \A q \in 1 .. last : q \in Frame
  BY PmmAssumption DEF Frame
<1> HIDE DEF E, F, o2, st2
<1>8. \A k \in 0 .. (n - 1) : E(k) # p /\ o2[E(k)] = 0
  BY <1>1, <1>2, <1>6, <1>7
<1>9. \A k \in 0 .. n : F(k) \in u /\ F(k) \in 1 .. last /\ o2[F(k)] = 0
  BY <1>0, <1>1, <1>2, <1>4, <1>5, <1>6, <1>8
<1>10. ASSUME NEW j \in 0 .. n, NEW k \in 0 .. n, j # k
       PROVE  F(j) # F(k)
  <2>1. CASE j = n
    BY <1>0, <1>4, <1>5, <1>8, <1>10, <2>1, Zenon
  <2>2. CASE k = n
    BY <1>0, <1>4, <1>5, <1>8, <1>10, <2>2, Zenon
  <2>3. CASE j \in 0 .. (n - 1) /\ k \in 0 .. (n - 1)
    BY <1>1, <1>5, <1>10, <2>3, ZenonT(40)
  <2> QED
    BY <1>0, <2>1, <2>2, <2>3
<1>11. \A k \in 0 .. n : base + (k \div W) \in Frame /\ base + (k \div W) \notin 1 .. last
  BY Zenon, <1>0, <1>1
<1>12. \A q \in Frame : o2[q] \in {0, 1} /\ (o2[q] = 1 => q \in u /\ 1 <= q /\ q <= last)
  BY <1>1, <1>6
<1>13. ASSUME NEW q \in u, 1 <= q, q <= last
       PROVE  o2[q] = 1 \/ \E k \in 0 .. n : q = F(k)
  <2>1. CASE q = p
    BY <1>0, <1>4, <2>1
  <2>2. CASE q # p
    <3>1. o[q] = 1 \/ \E k \in 0 .. (n - 1) : q = E(k)
      BY <1>1, <1>13
    <3>2. o2[q] = o[q]
      BY <2>2 DEF o2
    <3>3. CASE \E k \in 0 .. (n - 1) : q = E(k)
      <4>1. PICK k \in 0 .. (n - 1) : q = E(k)
        BY <3>3
      <4>2. k \in 0 .. n /\ q = F(k)
        BY SMTT(30), <1>5, <4>1
      <4> QED
        BY <4>2
    <3> QED
      BY <3>1, <3>2, <3>3
  <2> QED
    BY <2>1, <2>2
<1>14. StackGood(st2, n + 1, base, o2, last, u)
  <2>1. \A j, k \in 0 .. n : j # k => F(j) # F(k)
    BY <1>10
  <2>2. \A q \in u : (1 <= q /\ q <= last) => o2[q] = 1 \/ \E k \in 0 .. n : q = F(k)
    BY <1>13
  <2> QED
    BY <1>0, <1>9, <1>11, <1>12, <2>1, <2>2 DEF StackGood, F
<1> QED
  BY <1>14 DEF st2, o2

\* Giving out the least usable page above the last one, with the stack empty.
LEMMA StackScan ==
  ASSUME NEW st, NEW st2, NEW base, NEW o \in [Frame -> Nat], NEW last \in Frame,
         NEW u \in SUBSET Frame, StackGood(st, 0, base, o, last, u),
         NEW p \in u, p > last, \A q \in u : q > last => p <= q
  PROVE  StackGood(st2, 0, base, [o EXCEPT ![p] = @ + 1], p, u)
<1> DEFINE o2 == [o EXCEPT ![p] = @ + 1]
<1>0. p \in Frame /\ p \in Nat /\ last \in Nat /\ 0 .. (0 - 1) = {} /\ \A q \in Frame : q \in Nat
  BY PmmAssumption DEF Frame
<1>1. /\ \A q \in Frame : o[q] \in {0, 1} /\ (o[q] = 1 => q \in u /\ 1 <= q /\ q <= last)
      /\ \A q \in u : (1 <= q /\ q <= last) => o[q] = 1
  BY Zenon, <1>0 DEF StackGood
<1>2. o[p] = 0
  BY <1>0, <1>1
<1>3. o2[p] = 1 /\ \A q \in Frame : q # p => o2[q] = o[q]
  BY <1>0, <1>2
<1> HIDE DEF o2
<1>4. ASSUME NEW q \in Frame
      PROVE  o2[q] \in {0, 1} /\ (o2[q] = 1 => q \in u /\ 1 <= q /\ q <= p)
  BY <1>0, <1>1, <1>3
<1>5. ASSUME NEW q \in u, 1 <= q, q <= p
      PROVE  o2[q] = 1
  <2>1. q = p \/ q <= last
    BY <1>0, <1>5
  <2> QED
    BY <1>0, <1>1, <1>3, <1>5, <2>1
<1> QED
  BY <1>0, <1>4, <1>5 DEF StackGood, o2
-----------------------------------------------------------------------------
\* The usable pages are pages of memory.
LEMMA UsableType ==
  ASSUME NEW m \in Maps
  PROVE  UsablePages(m) \in SUBSET Frame
  BY EntryPages DEF UsablePages, UsableEntries

\* The constants are pages and contents of the right kind.
LEMMA PageType == 0 \in Frame /\ EmptyPage \in [Slot -> Frame]
  BY PmmAssumption DEF Frame, EmptyPage

\* What GiveOut(p, empty) leaves of memory, and of its type.
LEMMA GiveOutType ==
  ASSUME IInv, NEW p, NEW empty, GiveOut(p, empty)
  PROVE  /\ mem' \in [Frame -> [Slot -> Frame]] /\ out' \in [Frame -> Nat]
         /\ out' = [out EXCEPT ![p] = @ + 1]
         /\ \A q \in Frame : q # p => mem'[q] = mem[q]
<1>1. mem \in [Frame -> [Slot -> Frame]] /\ out \in [Frame -> Nat]
  BY DEF IInv, TypeOK
<1>2. out' \in [Frame -> Nat]
  <2>1. CASE p \in Frame
    BY <1>1, <2>1 DEF GiveOut
  <2>2. CASE p \notin Frame
    <3>1. out' = out
      BY <1>1, <2>2 DEF GiveOut
    <3> QED
      BY <1>1, <3>1
  <2> QED
    BY <2>1, <2>2
<1>3. CASE empty
  BY <1>1, <1>2, <1>3, PageType DEF GiveOut
<1>4. CASE ~empty
  BY <1>1, <1>2, <1>4 DEF GiveOut
<1> QED
  BY <1>3, <1>4

\* Before CreatePMM nothing has happened.
LEMMA InitInv == Init => IInv
<1> SUFFICES ASSUME Init PROVE IInv
  OBVIOUS
<1>1. TypeOK
  BY Zenon, PageType DEF Init, TypeOK
<1>2. StackGood(mem, 0, FreeList, out, 0, UsablePages(map))
  <2>1. /\ 0 .. (0 - 1) = {} /\ \A p \in Frame : out[p] = 0
        /\ \A p \in UsablePages(map) : p \in Nat
    BY UsableType DEF Init, Frame
  <2> QED
    BY <2>1 DEF StackGood
<1> QED
  BY <1>1, <1>2 DEF Init, IInv

\* CreatePMM chooses where the stack will lie.
LEMMA CreatePMMInv == IInv /\ CreatePMM => IInv'
<1> SUFFICES ASSUME IInv, CreatePMM PROVE IInv'
  OBVIOUS
<1>0. /\ FreeListLength = 0 /\ LastAddress = 0 /\ out = [p \in Frame |-> 0]
      /\ map \in Maps /\ UNCHANGED <<map, mem, FreeListLength, LastAddress, out, late>>
  BY DEF IInv, CreatePMM, TypeOK
<1>1. TypeOK'
  BY <1>0, LargestBaseType DEF IInv, TypeOK, CreatePMM
<1>2. StackGood(mem', 0, FreeList', out', 0, UsablePages(map'))
  <2>1. /\ 0 .. (0 - 1) = {} /\ \A p \in Frame : out'[p] = 0
        /\ \A p \in UsablePages(map') : p \in Nat
    BY <1>0, UsableType DEF Frame
  <2> QED
    BY <2>1 DEF StackGood
<1> QED
  BY <1>0, <1>1, <1>2 DEF CreatePMM, IInv

\* Taking a page from the stack.
LEMMA AllocateStackedInv ==
  ASSUME IInv, NEW empty \in BOOLEAN, AllocateStacked(empty)
  PROVE  /\ IInv'
         /\ ~late => \A q \in Frame : out[q] > 0 => mem'[q] = mem[q]
<1> DEFINE p == Stacked(FreeListLength - 1)
<1>1. /\ TypeOK /\ FreeListLength \in Nat /\ FreeListLength > 0 /\ pc = "up"
      /\ FreeListLength' = FreeListLength - 1 /\ GiveOut(p, empty)
      /\ UNCHANGED <<map, FreeList, LastAddress, pc, late>>
      /\ FreeList = LargestBase(map) /\ out \in [Frame -> Nat] /\ LastAddress \in Frame
  BY DEF IInv, TypeOK, AllocateStacked
<1>2. /\ mem' \in [Frame -> [Slot -> Frame]] /\ out' \in [Frame -> Nat]
      /\ out' = [out EXCEPT ![p] = @ + 1]
      /\ \A q \in Frame : q # p => mem'[q] = mem[q]
  BY <1>1, GiveOutType
<1>3. TypeOK'
  <2>1. FreeListLength' \in Nat
    BY <1>1
  <2> QED
    BY <1>1, <1>2, <2>1 DEF TypeOK
<1>4. ASSUME ~late
      PROVE  /\ StackGood(mem', FreeListLength', FreeList', out', LastAddress', UsablePages(map'))
             /\ \A q \in Frame : out[q] > 0 => mem'[q] = mem[q]
  <2>1. StackGood(mem, FreeListLength, FreeList, out, LastAddress, UsablePages(map))
    BY <1>4 DEF IInv
  <2>2. p = mem[FreeList + ((FreeListLength - 1) \div W)][(FreeListLength - 1) % W]
    BY DEF Stacked, SlotPage
  <2> HIDE DEF p
  <2>3. /\ StackGood(mem, FreeListLength - 1, FreeList, out', LastAddress, UsablePages(map))
        /\ p \in 1 .. LastAddress
    <3>1. /\ StackGood(mem, FreeListLength - 1, FreeList, [out EXCEPT ![p] = @ + 1],
                       LastAddress, UsablePages(map))
          /\ p \in 1 .. LastAddress
      BY Zenon, <1>1, <2>1, <2>2, StackPop
    <3> QED
      BY SMTT(30), <1>2, <3>1
  <2>4. \A q \in Frame : q \notin 1 .. LastAddress => mem'[q] = mem[q]
    BY <1>2, <2>3
  <2>5. StackGood(mem', FreeListLength - 1, FreeList, out', LastAddress, UsablePages(map))
    BY SMTT(30), <2>3, <2>4, StackSame
  <2>6. out[p] = 0
    <3>1. FreeListLength - 1 \in 0 .. (FreeListLength - 1)
      BY <1>1
    <3> QED
      BY <2>1, <2>2, <3>1 DEF StackGood
  <2> QED
    BY <1>1, <1>2, <2>5, <2>6
<1> QED
  BY <1>1, <1>3, <1>4 DEF IInv

\* Taking the next page of the scan.
LEMMA AllocateScannedInv ==
  ASSUME IInv, NEW empty \in BOOLEAN, AllocateScanned(empty)
  PROVE  /\ IInv'
         /\ ~late => \A q \in Frame : out[q] > 0 => mem'[q] = mem[q]
<1> DEFINE p == FirstPageAbove(map, LastAddress)
<1>1. /\ TypeOK /\ FreeListLength = 0 /\ pc = "up" /\ SomePageAbove(map, LastAddress)
      /\ LastAddress' = p /\ GiveOut(p, empty)
      /\ UNCHANGED <<map, FreeList, FreeListLength, pc, late>>
      /\ FreeList = LargestBase(map) /\ out \in [Frame -> Nat] /\ LastAddress \in Frame
      /\ map \in Maps
  BY DEF IInv, TypeOK, AllocateScanned
<1>2. /\ mem' \in [Frame -> [Slot -> Frame]] /\ out' \in [Frame -> Nat]
      /\ out' = [out EXCEPT ![p] = @ + 1]
      /\ \A q \in Frame : q # p => mem'[q] = mem[q]
  BY <1>1, GiveOutType
<1>3. /\ p \in UsablePages(map) /\ p \in Frame /\ p > LastAddress
      /\ \A q \in UsablePages(map) : q > LastAddress => p <= q
  BY <1>1, FirstIsLeast
<1> HIDE DEF p
<1>4. TypeOK'
  BY <1>1, <1>2, <1>3 DEF TypeOK
<1>5. ASSUME ~late
      PROVE  /\ StackGood(mem', FreeListLength', FreeList', out', LastAddress', UsablePages(map'))
             /\ \A q \in Frame : out[q] > 0 => mem'[q] = mem[q]
  <2>1. StackGood(mem, 0, FreeList, out, LastAddress, UsablePages(map))
    BY <1>1, <1>5 DEF IInv
  <2>2. UsablePages(map) \in SUBSET Frame
    BY <1>1, UsableType
  <2>3. StackGood(mem', 0, FreeList, out', p, UsablePages(map))
    BY Zenon, <1>1, <1>2, <1>3, <2>1, <2>2, StackScan
  <2>4. out[p] = 0
    <3>1. out[p] = 1 => p <= LastAddress
      BY <1>3, <2>1 DEF StackGood
    <3>2. out[p] \in {0, 1} /\ p \in Nat /\ LastAddress \in Nat
      BY <1>1, <1>3, <2>1 DEF StackGood, Frame
    <3> QED
      BY <1>3, <3>1, <3>2
  <2> QED
    BY <1>1, <1>2, <2>3, <2>4
<1> QED
  BY <1>1, <1>4, <1>5 DEF IInv

\* Giving a page back.
LEMMA FreePageInv ==
  ASSUME IInv, NEW p \in Frame, FreePage(p)
  PROVE  /\ IInv'
         /\ ~late' => \A q \in Frame : out[q] > 0 => mem'[q] = mem[q]
<1> DEFINE L == FreeListLength
           s == SlotPage(FreeListLength)
<1>1. /\ TypeOK /\ L \in Nat /\ pc = "up" /\ out[p] > 0 /\ L' = L + 1
      /\ mem' = [mem EXCEPT ![s][L % W] = p] /\ out' = [out EXCEPT ![p] = @ - 1]
      /\ late' = (late \/ s \in 1 .. LastAddress)
      /\ UNCHANGED <<map, FreeList, LastAddress, pc>>
      /\ FreeList = LargestBase(map) /\ out \in [Frame -> Nat] /\ LastAddress \in Frame
      /\ mem \in [Frame -> [Slot -> Frame]] /\ FreeList \in Frame
  BY DEF IInv, TypeOK, FreePage, Held
<1>2. TypeOK'
  <2>1. mem' \in [Frame -> [Slot -> Frame]]
    <3> DEFINE i == L % W
    <3>1. mem' = [mem EXCEPT ![s][i] = p]
      BY <1>1
    <3>2. i \in Slot
      BY <1>1, SlotType
    <3> HIDE DEF s, i
    <3>3. CASE s \in Frame
      <4> DEFINE row == [mem[s] EXCEPT ![i] = p]
      <4>1. row \in [Slot -> Frame]
        BY Zenon, <1>1, <3>3
      <4>2. mem' = [mem EXCEPT ![s] = row]
        BY <3>1
      <4> HIDE DEF row
      <4> QED
        BY ZenonT(40), <1>1, <4>1, <4>2
    <3>4. CASE s \notin Frame
      <4>1. mem' = mem
        BY <1>1, <3>1, <3>4
      <4> QED
        BY Zenon, <1>1, <4>1
    <3> QED
      BY <3>3, <3>4
  <2>2. out' \in [Frame -> Nat]
    BY <1>1
  <2>3. L' \in Nat
    BY <1>1
  <2>4. late' \in BOOLEAN
    BY <1>1, Zenon DEF TypeOK
  <2> HIDE DEF s
  <2> QED
    BY <1>1, <2>1, <2>2, <2>3, <2>4 DEF TypeOK
<1>3. ASSUME ~late'
      PROVE  /\ StackGood(mem', L', FreeList', out', LastAddress', UsablePages(map'))
             /\ \A q \in Frame : out[q] > 0 => mem'[q] = mem[q]
  <2>1. ~late /\ s \notin 1 .. LastAddress
    BY Zenon, <1>1, <1>3
  <2>2. StackGood(mem, L, FreeList, out, LastAddress, UsablePages(map))
    BY <2>1 DEF IInv
  <2>3. s \in Frame /\ s = FreeList + (L \div W)
    BY <1>1, <2>1, StackFits DEF SlotPage
  <2> HIDE DEF s, L
  <2>4. StackGood([mem EXCEPT ![FreeList + (L \div W)][L % W] = p], L + 1, FreeList,
                  [out EXCEPT ![p] = @ - 1], LastAddress, UsablePages(map))
    BY Zenon, <1>1, <2>1, <2>2, <2>3, StackPush
  <2>5. ASSUME NEW q \in Frame, out[q] > 0
        PROVE  mem'[q] = mem[q]
    <3>1. q \in 1 .. LastAddress
      <4>1. out[q] = 1
        BY <2>2, <2>5 DEF StackGood
      <4>2. 1 <= q /\ q <= LastAddress
        BY <2>2, <4>1 DEF StackGood
      <4> QED
        BY <1>1, <4>2 DEF Frame
    <3>2. q # s
      BY <2>1, <3>1
    <3> QED
      BY <1>1, <3>2
  <2> QED
    BY <1>1, <2>3, <2>4, <2>5
<1> HIDE DEF s, L
<1> QED
  BY <1>1, <1>2, <1>3 DEF IInv, L

\* A holder writing its page.
LEMMA HolderWriteInv ==
  ASSUME IInv, NEW p \in Frame, NEW v \in Values, HolderWrite(p, v)
  PROVE  IInv'
<1>1. /\ TypeOK /\ out[p] > 0 /\ mem' = [mem EXCEPT ![p] = [i \in Slot |-> v]]
      /\ UNCHANGED <<map, FreeList, FreeListLength, LastAddress, pc, out, late>>
      /\ v \in Frame /\ LastAddress \in Frame
  BY PmmAssumption DEF IInv, TypeOK, HolderWrite, Held
<1>2. TypeOK'
  BY <1>1 DEF TypeOK
<1>3. ASSUME ~late
      PROVE  StackGood(mem', FreeListLength, FreeList, out, LastAddress, UsablePages(map))
  <2>1. StackGood(mem, FreeListLength, FreeList, out, LastAddress, UsablePages(map))
    BY <1>3 DEF IInv
  <2>2. p \in 1 .. LastAddress
    <3>1. out[p] = 1
      BY SMTT(30), <1>1, <2>1 DEF StackGood
    <3>2. 1 <= p /\ p <= LastAddress
      BY <2>1, <3>1 DEF StackGood
    <3> QED
      BY <1>1, <3>2 DEF Frame
  <2>3. \A q \in Frame : q \notin 1 .. LastAddress => mem'[q] = mem[q]
    BY SMTT(30), <1>1, <2>2
  <2> QED
    BY <2>1, <2>3, StackSame
<1> QED
  BY <1>1, <1>2, <1>3 DEF IInv

\* Every step keeps the invariant, and what the allocator does to held pages.
LEMMA NextInv ==
  ASSUME IInv, [Next]_vars
  PROVE  /\ IInv'
         /\ (AllocatorStep /\ ~late') =>
               \A q \in Frame : out[q] > 0 /\ out'[q] > 0 => mem'[q] = mem[q]
<1> DEFINE Intact == ~late' => \A q \in Frame : out[q] > 0 /\ out'[q] > 0 => mem'[q] = mem[q]
<1>1. CASE CreatePMM
  BY <1>1, CreatePMMInv DEF CreatePMM
<1>2. CASE \E empty \in BOOLEAN : AllocateStacked(empty)
  <2>1. PICK empty \in BOOLEAN : AllocateStacked(empty)
    BY <1>2
  <2>2. late' = late
    BY <2>1 DEF AllocateStacked
  <2> QED
    BY <2>1, <2>2, AllocateStackedInv
<1>3. CASE \E empty \in BOOLEAN : AllocateScanned(empty)
  <2>1. PICK empty \in BOOLEAN : AllocateScanned(empty)
    BY <1>3
  <2>2. late' = late
    BY <2>1 DEF AllocateScanned
  <2> QED
    BY <2>1, <2>2, AllocateScannedInv
<1>4. CASE AllocateFails
  <2>1. IInv'
    BY <1>4 DEF AllocateFails, IInv, TypeOK
  <2> QED
    BY <1>4, <2>1 DEF AllocateFails
<1>5. CASE \E p \in Frame : FreePage(p)
  BY <1>5, FreePageInv
<1>6. CASE HolderStep /\ ~AllocatorStep
  BY <1>6, HolderWriteInv DEF HolderStep
<1>7. CASE UNCHANGED vars
  <2>1. IInv'
    BY <1>7 DEF vars, IInv, TypeOK
  <2> QED
    BY <1>7, <2>1 DEF vars
<1> QED
  BY SMTT(30), <1>1, <1>2, <1>3, <1>4, <1>5, <1>6, <1>7 DEF Next, AllocatorStep, Done
-----------------------------------------------------------------------------
\* The page allocator's inductive invariant holds for ever.
THEOREM Invariance == Spec => []IInv
<1>1. IInv /\ [Next]_vars => IInv'
  BY NextInv
<1> QED
  BY <1>1, InitInv, PTL DEF Spec

\* The globals of Pmm.cpp keep their types.
THEOREM TypeCorrect == Spec => []TypeOK
<1>1. IInv => TypeOK
  BY DEF IInv
<1> QED
  BY <1>1, Invariance, PTL

\* No page ever has two holders, or a holder and a place on the stack.
THEOREM NoPageSharedOrStaleHolds == Spec => []NoPageSharedOrStale
<1>1. IInv => NoPageSharedOrStale
  <2> SUFFICES ASSUME IInv, ~late
               PROVE  /\ \A p \in Frame : out[p] <= 1
                      /\ \A p \in OnStack : out[p] = 0
                      /\ \A j, k \in 0 .. (FreeListLength - 1) :
                            j # k => Stacked(j) # Stacked(k)
    BY SMTT(30) DEF NoPageSharedOrStale
  <2>1. \A p \in Frame : out[p] <= 1
    BY DEF IInv, StackGood
  <2>2. \A p \in OnStack : out[p] = 0
    <3>1. \A k \in 0 .. (FreeListLength - 1) : out[Stacked(k)] = 0
      BY DEF IInv, StackGood, Stacked, SlotPage
    <3> QED
      BY SMTT(30), <3>1 DEF OnStack
  <2>3. \A j, k \in 0 .. (FreeListLength - 1) : j # k => Stacked(j) # Stacked(k)
    BY Zenon DEF IInv, StackGood, Stacked, SlotPage
  <2> QED
    BY <2>1, <2>2, <2>3
<1> QED
  BY <1>1, Invariance, PTL

\* Only usable pages other than page 0 are given out or put on the stack.
THEOREM OnlyUsablePagesOutHolds == Spec => []OnlyUsablePagesOut
<1>1. IInv => OnlyUsablePagesOut
  <2> SUFFICES ASSUME IInv, ~late, NEW p \in Frame, out[p] > 0 \/ p \in OnStack
               PROVE  p \in UsablePages(map) /\ p # 0
    BY SMTT(30) DEF OnlyUsablePagesOut, Held
  <2>1. CASE out[p] > 0
    <3>1. out[p] = 1
      BY SMTT(30), <2>1 DEF IInv, StackGood
    <3> QED
      BY SMTT(30), <3>1 DEF IInv, StackGood
  <2>2. CASE p \in OnStack
    BY <2>2 DEF IInv, StackGood, OnStack, Stacked, SlotPage
  <2> QED
    BY <2>1, <2>2
<1> QED
  BY <1>1, Invariance, PTL

\* The scan and the stack lose no page.
THEOREM NoPageLostHolds == Spec => []NoPageLost
<1>1. IInv => NoPageLost
  <2> SUFFICES ASSUME IInv, ~late, NEW p \in UsablePages(map), 1 <= p, p <= LastAddress
               PROVE  out[p] > 0 \/ p \in OnStack
    BY SMTT(30) DEF NoPageLost, Held
  <2>1. out[p] = 1 \/ \E k \in 0 .. (FreeListLength - 1) : p = Stacked(k)
    BY DEF IInv, StackGood, Stacked, SlotPage
  <2> QED
    BY <2>1 DEF OnStack
<1> QED
  BY <1>1, Invariance, PTL

\* The kernel halts for lack of memory only when every usable page is held.
THEOREM HaltsOnlyWhenExhaustedHolds == Spec => []HaltsOnlyWhenExhausted
<1>1. IInv => HaltsOnlyWhenExhausted
  <2> SUFFICES ASSUME IInv, ~late, pc = "done", NEW p \in UsablePages(map), p # 0
               PROVE  out[p] > 0
    BY DEF HaltsOnlyWhenExhausted, Held
  <2>1. FreeListLength = 0 /\ ~SomePageAbove(map, LastAddress) /\ LastAddress \in Nat
    BY DEF IInv, TypeOK, Frame
  <2>2. p \in Nat
    BY UsableType DEF IInv, TypeOK, Frame
  <2>3. ~(p > LastAddress)
    BY <2>1 DEF SomePageAbove, Above, UsablePages
  <2>4. 1 <= p /\ p <= LastAddress
    BY <2>1, <2>2, <2>3
  <2>5. 0 .. (FreeListLength - 1) = {}
    BY SMTT(30), <2>1
  <2>6. out[p] = 1
    BY <2>4, <2>5 DEF IInv, StackGood
  <2> QED
    BY <2>6
<1> QED
  BY <1>1, Invariance, PTL

\* The allocator never changes a page under its holder.
THEOREM HeldPagesIntactHolds == Spec => HeldPagesIntact
<1>1. IInv /\ [Next]_vars => [(AllocatorStep /\ ~late') =>
         \A p \in Frame : Held(p) /\ out'[p] > 0 => mem'[p] = mem[p]]_vars
  BY NextInv DEF Held
<1> QED
  BY <1>1, Invariance, PTL DEF Spec, HeldPagesIntact
=============================================================================
