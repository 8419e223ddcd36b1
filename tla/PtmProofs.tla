----------------------------- MODULE PtmProofs -----------------------------
(***************************************************************************)
(* The theorems about the page tables, for every memory map, every number  *)
(* of entries to a table and every layout of the virtual addresses.        *)
(***************************************************************************)
EXTENDS Ptm, WellFoundedInduction, TLAPS

\* A table's entry, and the tables on the way to v, in memory tb.
At(tb, t, i) == IF t = Absent THEN Absent ELSE tb[t][i]

Walk3(tb, root, v) == At(tb, root, GetPageTableIndex(v, 4))
Walk2(tb, root, v) == At(tb, Walk3(tb, root, v), GetPageTableIndex(v, 3))
Walk1(tb, root, v) == At(tb, Walk2(tb, root, v), GetPageTableIndex(v, 2))
Walk0(tb, root, v) == At(tb, Walk1(tb, root, v), GetPageTableIndex(v, 1))

\* Every table has a level, from 4 for the root to 1; an entry above level 1
\* leads one level down, and no two lead to the same table.  Tables are usable
\* pages that the scan has given out, and not in D.
Tree(tb, root, last, D, lvl) ==
    /\ lvl \in [Frame -> 0 .. 4]
    /\ root \in Frame /\ lvl[root] = 4
    /\ \A t \in Frame : lvl[t] > 0 =>
          t \in UsablePages(map) /\ 0 < t /\ t <= last /\ t \notin D
    /\ \A t \in Frame, i \in Index : lvl[t] > 1 /\ tb[t][i] # Absent =>
          tb[t][i] \in Frame /\ lvl[tb[t][i]] = lvl[t] - 1
    /\ \A t, u \in Frame, i, j \in Index :
          lvl[t] > 1 /\ lvl[u] > 1 /\ tb[t][i] # Absent /\ tb[t][i] = tb[u][j]
              => t = u /\ i = j

TypeOK ==
    /\ map \in Maps
    /\ tab \in [Frame -> [Index -> Int]]
    /\ LastAddress \in Frame
    /\ Pml4 \in Frame
    /\ CurrentVirtualPage \in Nat /\ CurrentPhysicalPage \in Nat /\ end \in Nat
    /\ pc \in {"boot", "identity", "kernel", "hhdm", "up", "done"}
    /\ heapPages \in -1 .. MaxHeap
    /\ want \in [VPage -> Int]
    /\ data \subseteq 1 .. LastAddress
    /\ pc \notin {"boot", "done"} => Pml4 # NULL
    /\ pc = "boot" => /\ Pml4 = NULL /\ data = {} /\ heapPages = -1
                      /\ want = [v \in VPage |-> Absent]

Leveled == Pml4 # NULL => \E lvl : Tree(tab, Pml4, LastAddress, data, lvl)

\* How far the calls of MapMemory that CreatePTM makes have come.
LowMapped(n) == \A p \in 0 .. (n - 1) : want[p] = p
KernelMapped(n) ==
    \A i \in 0 .. (n - 1) : want[VirtualKernelStart + i] = PhysicalKernelStart + i
HhdmMapped(n) == \A p \in 0 .. (n - 1) : want[HHDM_Offset + p] = p

Progress ==
    LET full == GetFullSizeOfMemory(map)
        done == CurrentPhysicalPage - PhysicalKernelStart
    IN  /\ pc = "identity" =>
              /\ CurrentVirtualPage = CurrentPhysicalPage
              /\ end = full /\ CurrentPhysicalPage <= full
              /\ LowMapped(CurrentPhysicalPage)
        /\ pc = "kernel" =>
              /\ CurrentVirtualPage = VirtualKernelStart + done
              /\ end = PhysicalKernelStart + KernelSize /\ done \in 0 .. KernelSize
              /\ LowMapped(full) /\ KernelMapped(done)
        /\ pc = "hhdm" =>
              /\ CurrentVirtualPage = HHDM_Offset + CurrentPhysicalPage
              /\ end = full /\ CurrentPhysicalPage <= full
              /\ LowMapped(full) /\ KernelMapped(KernelSize)
              /\ HhdmMapped(CurrentPhysicalPage)
        /\ pc = "up" => LowMapped(full) /\ KernelMapped(KernelSize) /\ HhdmMapped(full)

\* The areas of memory that are mapped where they lie hold nothing else; the
\* heap's are mapped to pages of their own, in order.
Areas ==
    /\ \A p \in LowArea(map) : want[p] \in {Absent, p}
    /\ \A v \in HeapArea \cup {SystemData} : want[v] # Absent => want[v] \in data
    /\ heapPages = -1 => \A v \in HeapArea \cup {SystemData} : want[v] = Absent
    /\ \A v \in HeapArea : v >= HeapStart + heapPages => want[v] = Absent

\* The inductive invariant.
IInv == TypeOK /\ Leveled /\ TranslationsAsAsked /\ Progress /\ Areas /\ HeapPagesApart

-----------------------------------------------------------------------------
(* The digits of an address. *)

\* Quotient and remainder.
LEMMA DivMod ==
  ASSUME NEW n \in Nat, NEW p \in Nat, p > 0
  PROVE  /\ n \div p \in Nat /\ n % p \in 0 .. (p - 1)
         /\ n = (n \div p) * p + (n % p)
  BY SMTT(30)

\* There is no other quotient.
LEMMA DivUnique ==
  ASSUME NEW p \in Nat, p > 0, NEW q \in Nat, NEW r \in 0 .. (p - 1)
  PROVE  (q * p + r) \div p = q
  BY SMTT(30)

\* Dividing twice.
LEMMA DivDiv ==
  ASSUME NEW n \in Nat, NEW p \in Nat, NEW q \in Nat, p > 0, q > 0
  PROVE  (n \div p) \div q = n \div (p * q)
<1> DEFINE a == n \div p
           b == a \div q
           r == n % p
           s == a % q
<1>1. /\ a \in Nat /\ r \in 0 .. (p - 1) /\ n = a * p + r
      /\ b \in Nat /\ s \in 0 .. (q - 1) /\ a = b * q + s
  BY Zenon, DivMod
<1> HIDE DEF a, b, r, s
<1>2. n = b * (p * q) + (s * p + r)
  BY <1>1, SMTT(30)
<1>3. p * q \in Nat /\ p * q > 0 /\ s * p \in Nat /\ s * p <= (q - 1) * p /\ (q - 1) * p = p * q - p
  BY <1>1, SMTT(30)
<1>4. s * p + r \in 0 .. (p * q - 1)
  BY <1>1, <1>3
<1>5. n \div (p * q) = b
  BY <1>1
<1> QED
  BY Zenon, <1>5 DEF a, b

\* The digits are indices of a table.
LEMMA IndexType ==
  ASSUME NEW v \in VPage
  PROVE  /\ GetPageTableIndex(v, 4) \in Index /\ GetPageTableIndex(v, 3) \in Index
         /\ GetPageTableIndex(v, 2) \in Index /\ GetPageTableIndex(v, 1) \in Index
<1>1. Fanout \in Nat /\ Fanout > 0 /\ v \in Nat
  BY PtmAssumption DEF VPage
<1>2. Fanout * Fanout \in Nat /\ Fanout * Fanout > 0
  BY <1>1, SMTT(30)
<1>3. Fanout * Fanout * Fanout \in Nat /\ Fanout * Fanout * Fanout > 0
  BY <1>1, <1>2, SMTT(30)
<1>4. /\ v \div 1 \in Nat /\ v \div Fanout \in Nat /\ v \div (Fanout * Fanout) \in Nat
      /\ v \div (Fanout * Fanout * Fanout) \in Nat
  BY <1>1, <1>2, <1>3, DivMod
<1>5. \A n \in Nat : n % Fanout \in 0 .. (Fanout - 1)
  BY Zenon, <1>1, DivMod
<1> QED
  BY Zenon, <1>4, <1>5 DEF GetPageTableIndex, Index

\* Pages with the same digits are the same page.
LEMMA Digits ==
  ASSUME NEW u \in VPage, NEW v \in VPage,
         GetPageTableIndex(u, 4) = GetPageTableIndex(v, 4),
         GetPageTableIndex(u, 3) = GetPageTableIndex(v, 3),
         GetPageTableIndex(u, 2) = GetPageTableIndex(v, 2),
         GetPageTableIndex(u, 1) = GetPageTableIndex(v, 1)
  PROVE  u = v
<1> DEFINE F == Fanout
           q1(n) == n \div F
           q2(n) == n \div (F * F)
           q3(n) == n \div (F * F * F)
<1>1. F \in Nat /\ F > 0
  BY PtmAssumption
<1>2. F * F \in Nat /\ F * F > 0
  BY <1>1, SMTT(30)
<1>3. F * F * F \in Nat /\ F * F * F > 0
  BY <1>1, <1>2, SMTT(30)
<1>4. ASSUME NEW n \in VPage
      PROVE  /\ n \in Nat /\ q1(n) \in Nat /\ q2(n) \in Nat /\ q3(n) \in Nat
             /\ GetPageTableIndex(n, 4) = q3(n)
             /\ q2(n) = q3(n) * F + GetPageTableIndex(n, 3)
             /\ q1(n) = q2(n) * F + GetPageTableIndex(n, 2)
             /\ n = q1(n) * F + GetPageTableIndex(n, 1)
  <2>1. n \in Nat /\ n < F * F * F * F
    BY <1>1, <1>3 DEF VPage
  <2>2. q1(n) \in Nat /\ q2(n) \in Nat /\ q3(n) \in Nat
    BY Zenon, <1>1, <1>2, <1>3, <2>1, DivMod
  <2>3. q2(n) = q1(n) \div F
    BY Zenon, <1>1, <2>1, DivDiv
  <2>4. q3(n) = q2(n) \div F
    BY Zenon, <1>1, <1>2, <2>1, DivDiv
  <2>5. q3(n) < F
    <3>1. n % (F * F * F) \in Nat /\ n = q3(n) * (F * F * F) + (n % (F * F * F))
      BY <1>3, <2>1
    <3> DEFINE g == F * F * F
               x == q3(n)
    <3> HIDE DEF g, x
    <3>2. x \in Nat /\ g \in Nat /\ g > 0 /\ x * g <= n /\ n < g * F
      BY <1>3, <2>1, <2>2 DEF g, x
    <3>3. x < F
      <4> SUFFICES ASSUME F <= x PROVE FALSE
        BY <1>1, <3>2
      <4>1. F * g <= x * g /\ F * g = g * F
        BY <1>1, <3>2, SMTT(30)
      <4> QED
        BY <1>1, <2>1, <3>2
    <3> QED
      BY Zenon, <3>3 DEF x
  <2>6. q3(n) % F = q3(n)
    <3> DEFINE x == q3(n)
    <3> HIDE DEF x
    <3>1. x \in Nat /\ x < F
      BY Zenon, <2>2, <2>5 DEF x
    <3>2. x % F = x
      BY <1>1, <3>1, SMTT(30)
    <3> QED
      BY Zenon, <3>2 DEF x
  <2>7. /\ GetPageTableIndex(n, 4) = q3(n) % F /\ GetPageTableIndex(n, 3) = q2(n) % F
        /\ GetPageTableIndex(n, 2) = q1(n) % F /\ GetPageTableIndex(n, 1) = (n \div 1) % F
    BY DEF GetPageTableIndex
  <2>8. n \div 1 = n
    BY <2>1
  <2> HIDE DEF q1, q2, q3
  <2>9. /\ q2(n) = (q2(n) \div F) * F + (q2(n) % F)
        /\ q1(n) = (q1(n) \div F) * F + (q1(n) % F)
        /\ n = (n \div F) * F + (n % F)
    BY Zenon, <1>1, <2>1, <2>2, DivMod
  <2>10. q1(n) = n \div F
    BY Zenon DEF q1
  <2> QED
    BY Zenon, <2>1, <2>2, <2>3, <2>4, <2>6, <2>7, <2>8, <2>9, <2>10
<1> HIDE DEF q1, q2, q3
<1>5. q3(u) = q3(v)
  BY Zenon, <1>4
<1>6. q2(u) = q2(v)
  BY Zenon, <1>4, <1>5
<1>7. q1(u) = q1(v)
  BY Zenon, <1>4, <1>6
<1> QED
  BY Zenon, <1>4, <1>7

-----------------------------------------------------------------------------
(* The memory map. *)

\* A set of natural numbers that is not empty has a least element.
LEMMA MinExists ==
  ASSUME NEW T \in SUBSET Nat, T # {}
  PROVE  \E x \in T : \A y \in T : x <= y
<1> DEFINE R == OpToRel(<, Nat)
<1>1. IsWellFoundedOn(R, Nat)
  BY NatLessThanWellFounded, Zenon
<1>2. R = {ss \in Nat \X Nat : ss[1] < ss[2]}
  BY Zenon DEF OpToRel
<1> HIDE DEF R
<1>3. PICK x \in T : \A y \in T : ~(<<y, x>> \in R)
  <2>1. \E x \in T : \A y \in T : ~(<<y, x>> \in R)
    BY Zenon, <1>1, WFMin
  <2> QED
    BY Zenon, <2>1
<1>4. \A y \in T : x <= y
  <2> SUFFICES ASSUME NEW y \in T, y < x PROVE FALSE
    OBVIOUS
  <2>1. <<y, x>> \in Nat \X Nat /\ <<y, x>>[1] < <<y, x>>[2]
    BY Zenon
  <2>2. <<y, x>> \in R
    BY Zenon, <1>2, <2>1
  <2> QED
    BY Zenon, <1>3, <2>2
<1> QED
  BY Zenon, <1>4

\* A bounded set of natural numbers that is not empty has a greatest element.
LEMMA MaxExists ==
  ASSUME NEW T \in SUBSET Nat, T # {}, NEW n \in Nat, \A y \in T : y <= n
  PROVE  \E x \in T : \A y \in T : y <= x
<1> DEFINE D == {n - y : y \in T}
<1>1. D \in SUBSET Nat /\ D # {}
  <2>1. \A y \in T : n - y \in Nat
    OBVIOUS
  <2>2. PICK y \in T : TRUE
    BY Zenon
  <2>3. n - y \in D
    BY Zenon
  <2> QED
    BY Zenon, <2>1, <2>3
<1>2. PICK d \in D : \A e \in D : d <= e
  BY Zenon, <1>1, MinExists
<1>3. PICK x \in T : d = n - x
  BY Zenon
<1>4. ASSUME NEW y \in T
      PROVE  y <= x
  <2>1. n - y \in D
    BY Zenon
  <2>2. x \in Nat /\ y \in Nat
    BY Zenon
  <2> HIDE DEF D
  <2>3. n - x <= n - y
    BY Zenon, <1>2, <1>3, <2>1
  <2> QED
    BY SMTT(30), <2>2, <2>3
<1> QED
  BY Zenon, <1>4

USE DEF NULL

\* An entry's pages are pages of memory.
LEMMA EntryPages ==
  ASSUME NEW m \in Maps, NEW i \in DOMAIN m
  PROVE  /\ i \in Nat /\ m[i].base \in Frame /\ m[i].length \in Nat
         /\ m[i].length <= MaxFrame /\ PagesOf(m[i]) \subseteq Frame
<1>1. WellFormed(m, MaxFrame) /\ MaxFrame \in Nat
  BY Zenon, PtmAssumption
<1>2. m \in Seq(Entries(MaxFrame)) /\ m[i] \in Entries(MaxFrame) /\ i \in Nat
  BY <1>1 DEF WellFormed
<1>3. m[i].base \in 0 .. MaxFrame /\ m[i].length \in 0 .. MaxFrame
  BY Zenon, <1>2 DEF Entries
<1>4. m[i].base + m[i].length <= MaxFrame + 1
  BY Zenon, <1>1 DEF WellFormed
<1> QED
  BY SMTT(30), <1>1, <1>2, <1>3, <1>4 DEF PagesOf, Frame


\* The scan finds a usable page above last.
LEMMA ScanFinds ==
  ASSUME NEW m \in Maps, NEW last \in Frame, SomePageAbove(m, last)
  PROVE  /\ FirstPageAbove(m, last) \in UsablePages(m)
         /\ FirstPageAbove(m, last) \in Frame
         /\ FirstPageAbove(m, last) > last
<1> DEFINE C == {i \in UsableEntries(m) : Above(m, i, last) # {}}
           first == CHOOSE i \in C : \A j \in C : i <= j
           A == Above(m, first, last)
           p == CHOOSE p \in A : \A q \in A : p <= q
<1>1. C \in SUBSET Nat /\ C # {}
  BY Zenon, EntryPages DEF SomePageAbove, UsableEntries
<1>2. first \in C
  <2>1. \E i \in C : \A j \in C : i <= j
    BY Zenon, <1>1, MinExists
  <2> HIDE DEF C
  <2> QED
    BY Zenon, <2>1
<1>3. first \in DOMAIN m /\ m[first].usable /\ A # {}
  BY Zenon, <1>2 DEF UsableEntries
<1>4. A \in SUBSET Nat
  <2> HIDE DEF first
  <2>1. PagesOf(m[first]) \subseteq Nat
    BY <1>3, EntryPages DEF Frame
  <2> QED
    BY Zenon, <2>1 DEF Above
<1>5. p \in A
  <2>1. \E x \in A : \A q \in A : x <= q
    BY Zenon, <1>3, <1>4, MinExists
  <2> HIDE DEF A
  <2> QED
    BY Zenon, <2>1
<1>6. p = FirstPageAbove(m, last)
  BY Zenon DEF FirstPageAbove
<1> HIDE DEF p, first
<1>7. p \in PagesOf(m[first]) /\ p > last
  BY Zenon, <1>5 DEF Above
<1>8. p \in UsablePages(m) /\ p \in Frame
  BY Zenon, <1>3, <1>7, EntryPages DEF UsablePages, UsableEntries
<1> QED
  BY Zenon, <1>6, <1>7, <1>8

\* Memory ends where GetFullSizeOfMemory says.
LEMMA FullSize ==
  ASSUME NEW m \in Maps
  PROVE  /\ GetFullSizeOfMemory(m) \in Nat /\ GetFullSizeOfMemory(m) <= MaxFrame + 1
         /\ UsablePages(m) \subseteq 0 .. (GetFullSizeOfMemory(m) - 1)
<1> DEFINE ends == {m[i].base + m[i].length : i \in DOMAIN m} \cup {0}
           full == CHOOSE e \in ends : \A f \in ends : f <= e
<1>1. MaxFrame \in Nat /\ \A i \in DOMAIN m : m[i].base + m[i].length <= MaxFrame + 1
  BY Zenon, PtmAssumption DEF WellFormed
<1>2. \A i \in DOMAIN m : m[i].base \in Nat /\ m[i].length \in Nat
  BY EntryPages DEF Frame
<1>3. ends \in SUBSET Nat /\ ends # {} /\ MaxFrame + 1 \in Nat /\ \A y \in ends : y <= MaxFrame + 1
  BY <1>1, <1>2
<1>4. full \in ends /\ \A f \in ends : f <= full
  <2>1. \E e \in ends : \A f \in ends : f <= e
    BY Zenon, <1>3, MaxExists
  <2> HIDE DEF ends
  <2> QED
    BY Zenon, <2>1
<1>5. GetFullSizeOfMemory(m) = full
  BY Zenon DEF GetFullSizeOfMemory
<1> HIDE DEF full
<1>6. ASSUME NEW p \in UsablePages(m)
      PROVE  p \in 0 .. (full - 1)
  <2>1. PICK i \in UsableEntries(m) : p \in PagesOf(m[i])
    BY Zenon, <1>6 DEF UsablePages
  <2>2. i \in DOMAIN m /\ m[i].base + m[i].length <= full
    BY Zenon, <1>4, <2>1 DEF UsableEntries
  <2> QED
    BY <1>2, <1>4, <2>1, <2>2 DEF PagesOf
<1> QED
  BY Zenon, <1>3, <1>4, <1>5, <1>6

-----------------------------------------------------------------------------
(* The tables. *)

Mem == [Frame -> [Index -> Int]]

\* No page is the absent one, and page numbers are natural.
LEMMA Pages == Absent \in Int /\ Absent \notin Frame /\ Frame \subseteq Nat
  BY PtmAssumption DEF Absent, Frame

\* A walk goes down level by level, or ends.
LEMMA WalkLevels ==
  ASSUME NEW tb \in Mem, NEW root, NEW last, NEW D, NEW lvl, Tree(tb, root, last, D, lvl),
         NEW v \in VPage
  PROVE  /\ Walk3(tb, root, v) # Absent =>
               Walk3(tb, root, v) \in Frame /\ lvl[Walk3(tb, root, v)] = 3
         /\ Walk2(tb, root, v) # Absent =>
               Walk2(tb, root, v) \in Frame /\ lvl[Walk2(tb, root, v)] = 2
         /\ Walk1(tb, root, v) # Absent =>
               Walk1(tb, root, v) \in Frame /\ lvl[Walk1(tb, root, v)] = 1
<1>1. \A t \in Frame, i \in Index : lvl[t] \in {2, 3, 4} /\ tb[t][i] # Absent =>
          tb[t][i] \in Frame /\ lvl[tb[t][i]] = lvl[t] - 1
  BY DEF Tree
<1>2. root \in Frame /\ lvl[root] = 4 /\ Absent \notin Frame
  BY Zenon, Pages DEF Tree
<1>3. Walk3(tb, root, v) # Absent => Walk3(tb, root, v) \in Frame /\ lvl[Walk3(tb, root, v)] = 3
  BY <1>1, <1>2, IndexType DEF Walk3, At
<1>4. Walk2(tb, root, v) # Absent => Walk2(tb, root, v) \in Frame /\ lvl[Walk2(tb, root, v)] = 2
  BY <1>1, <1>3, IndexType DEF Walk2, At
<1>5. Walk1(tb, root, v) # Absent => Walk1(tb, root, v) \in Frame /\ lvl[Walk1(tb, root, v)] = 1
  BY <1>1, <1>4, IndexType DEF Walk1, At
<1> QED
  BY Zenon, <1>3, <1>4, <1>5

\* What happens outside the tables changes no walk.
LEMMA OffTree ==
  ASSUME NEW tb \in Mem, NEW root, NEW last \in Nat, NEW D, NEW lvl, Tree(tb, root, last, D, lvl),
         NEW tb2, \A t \in Frame : lvl[t] > 0 => tb2[t] = tb[t],
         NEW last2 \in Nat, last <= last2, NEW E, \A x \in E : x \in D \/ x > last
  PROVE  /\ Tree(tb2, root, last2, E, lvl)
         /\ \A v \in VPage : Walk0(tb2, root, v) = Walk0(tb, root, v)
<1>1. \A t \in Frame : lvl[t] \in 0 .. 4 /\ t \in Nat
  BY Zenon, Pages DEF Tree
<1>2. Tree(tb2, root, last2, E, lvl)
  <2>1. \A t \in Frame : lvl[t] > 0 => t <= last2 /\ t \notin E
    BY <1>1 DEF Tree
  <2>2. \A t \in Frame : lvl[t] > 1 => tb2[t] = tb[t]
    BY <1>1
  <2> QED
    BY <2>1, <2>2 DEF Tree
<1>3. ASSUME NEW v \in VPage
      PROVE  Walk0(tb2, root, v) = Walk0(tb, root, v)
  <2>0. root \in Frame /\ lvl[root] = 4
    BY Zenon DEF Tree
  <2>1. Walk3(tb2, root, v) = Walk3(tb, root, v)
    BY <2>0 DEF Walk3, At
  <2>2. Walk2(tb2, root, v) = Walk2(tb, root, v)
    BY <2>1, WalkLevels DEF Walk2, At
  <2>3. Walk1(tb2, root, v) = Walk1(tb, root, v)
    BY <2>2, WalkLevels DEF Walk1, At
  <2> QED
    BY <2>3, WalkLevels DEF Walk0, At
<1> QED
  BY Zenon, <1>2, <1>3

\* Two entries that lead to the same table are one.
LEMMA TreeApart ==
  ASSUME NEW tb, NEW root, NEW last, NEW D, NEW lvl, Tree(tb, root, last, D, lvl),
         NEW x \in Frame, NEW y \in Frame, NEW j \in Index, NEW k \in Index,
         lvl[x] > 1, lvl[y] > 1, tb[x][j] # Absent, tb[x][j] = tb[y][k]
  PROVE  x = y /\ j = k
  BY DEF Tree

\* Entry i of t leads to p, an empty table; all else is as it was.
Linked(tb, tb2, t, i, p) ==
    /\ tb2[t][i] = p /\ \A j \in Index : tb2[p][j] = Absent
    /\ \A x \in Frame, j \in Index : x # p /\ ~(x = t /\ j = i) => tb2[x][j] = tb[x][j]

\* Entering an empty table where none was keeps the tree and every translation.
LEMMA LinkTable ==
  ASSUME NEW tb \in Mem, NEW root, NEW last \in Nat, NEW D, NEW lvl, Tree(tb, root, last, D, lvl),
         NEW t \in Frame, lvl[t] > 1, NEW i \in Index, tb[t][i] = Absent,
         NEW p \in Frame, p > last, p \in UsablePages(map), p \notin D,
         NEW tb2 \in Mem, Linked(tb, tb2, t, i, p)
  PROVE  /\ Tree(tb2, root, p, D, [lvl EXCEPT ![p] = lvl[t] - 1])
         /\ \A v \in VPage : Walk0(tb2, root, v) = Walk0(tb, root, v)
<1> DEFINE lvl2 == [lvl EXCEPT ![p] = lvl[t] - 1]
<1>1. \A x \in Frame : lvl[x] \in 0 .. 4 /\ x \in Nat
  BY Zenon, Pages DEF Tree
<1>2. lvl[p] = 0 /\ p # t
  BY <1>1 DEF Tree
<1>3. \A x \in Frame : lvl2[x] = IF x = p THEN lvl[t] - 1 ELSE lvl[x]
  BY DEF Tree
<1>4. /\ tb2[t][i] = p /\ \A j \in Index : tb2[p][j] = Absent
      /\ \A x \in Frame, j \in Index : x # p /\ ~(x = t /\ j = i) => tb2[x][j] = tb[x][j]
  BY Zenon DEF Linked
<1>5. Tree(tb2, root, p, D, lvl2)
  <2>1. lvl2 \in [Frame -> 0 .. 4]
    BY DEF Tree
  <2> HIDE DEF lvl2
  <2>2. root \in Frame /\ lvl2[root] = 4
    BY <1>2, <1>3 DEF Tree
  <2>3. \A x \in Frame : lvl2[x] > 0 => x \in UsablePages(map) /\ 0 < x /\ x <= p /\ x \notin D
    BY <1>1, <1>3 DEF Tree
  <2>4. ASSUME NEW x \in Frame, NEW j \in Index, lvl2[x] > 1, tb2[x][j] # Absent
        PROVE  tb2[x][j] \in Frame /\ lvl2[tb2[x][j]] = lvl2[x] - 1
    <3>1. x # p /\ lvl2[x] = lvl[x]
      BY Zenon, <1>3, <1>4, <2>4
    <3>2. CASE x = t /\ j = i
      BY Zenon, <1>3, <1>4, <3>1, <3>2
    <3>3. CASE ~(x = t /\ j = i)
      <4>0. tb2[x][j] = tb[x][j] /\ lvl[x] > 1
        BY Zenon, <1>4, <2>4, <3>1, <3>3
      <4>1. tb2[x][j] = tb[x][j] /\ tb[x][j] \in Frame /\ lvl[tb[x][j]] = lvl[x] - 1
        BY Zenon, <2>4, <4>0 DEF Tree
      <4>2. tb[x][j] # p
        BY <1>1, <1>2, <2>4, <3>1, <4>1
      <4> QED
        BY Zenon, <1>3, <3>1, <4>1, <4>2
    <3> QED
      BY Zenon, <3>2, <3>3
  <2>5. ASSUME NEW x \in Frame, NEW y \in Frame, NEW j \in Index, NEW k \in Index,
               lvl2[x] > 1, lvl2[y] > 1, tb2[x][j] # Absent, tb2[x][j] = tb2[y][k]
        PROVE  x = y /\ j = k
    <3>1. x # p /\ y # p /\ lvl[x] > 1 /\ lvl[y] > 1
      BY <1>3, <1>4, <2>5
    <3>2. \A z \in Frame, l \in Index : lvl[z] > 1 => tb[z][l] # p
      BY SMTT(30), Pages DEF Tree
    <3>3. \A z \in Frame, l \in Index : lvl[z] > 1 /\ tb2[z][l] = p => z = t /\ l = i
      <4>1. \A z \in Frame, l \in Index : lvl[z] > 1 => z # p
        BY <1>2
      <4> SUFFICES ASSUME NEW z \in Frame, NEW l \in Index, lvl[z] > 1, ~(z = t /\ l = i)
                   PROVE  tb2[z][l] # p
        BY Zenon
      <4>2. tb2[z][l] = tb[z][l]
        BY Zenon, <1>4, <4>1
      <4>3. tb[z][l] # p
        BY Zenon, <3>2
      <4> QED
        BY Zenon, <4>2, <4>3
    <3>4. CASE tb2[x][j] = p
      BY Zenon, <2>5, <3>1, <3>3, <3>4
    <3>5. CASE tb2[x][j] # p
      <4>1. tb2[x][j] = tb[x][j] /\ tb2[y][k] = tb[y][k]
        BY Zenon, <1>4, <2>5, <3>1, <3>5
      <4>2. x \in Frame /\ y \in Frame /\ j \in Index /\ k \in Index
        BY Zenon, <2>5
      <4>3. tb[x][j] # Absent /\ tb[x][j] = tb[y][k]
        BY Zenon, <2>5, <4>1
      <4>4. lvl[x] > 1 /\ lvl[y] > 1
        BY Zenon, <3>1
      <4> QED
        BY <4>3, <4>4, TreeApart
    <3> QED
      BY Zenon, <3>4, <3>5
  <2> QED
    <3>1. \A x \in Frame, j \in Index : lvl2[x] > 1 /\ tb2[x][j] # Absent =>
             tb2[x][j] \in Frame /\ lvl2[tb2[x][j]] = lvl2[x] - 1
      BY Zenon, <2>4
    <3>2. \A x, y \in Frame, j, k \in Index :
             lvl2[x] > 1 /\ lvl2[y] > 1 /\ tb2[x][j] # Absent /\ tb2[x][j] = tb2[y][k]
                 => x = y /\ j = k
      BY <2>5
    <3> QED
      BY Zenon, <2>1, <2>2, <2>3, <3>1, <3>2 DEF Tree
<1>6. ASSUME NEW v \in VPage
      PROVE  Walk0(tb2, root, v) = Walk0(tb, root, v)
  <2>0. \A x \in Frame : lvl[x] > 0 => x # p
    BY <1>2
  <2> DEFINE Ends(a, b) == b = a \/ (a = Absent /\ b = p)
  <2>1. ASSUME NEW a, NEW b, NEW j \in Index, Ends(a, b), a = Absent \/ (a \in Frame /\ lvl[a] > 0)
        PROVE  /\ Ends(At(tb, a, j), At(tb2, b, j))
               /\ a # t => At(tb2, b, j) = At(tb, a, j)
    <3>1. CASE a = Absent
      BY Zenon, <1>4, <2>1, <3>1 DEF At
    <3>2. CASE a # Absent
      <4>0. b = a /\ a \in Frame /\ lvl[a] > 0
        BY Zenon, <2>1, <3>2
      <4>1. b = a /\ a \in Frame /\ a # p
        BY Zenon, <2>0, <4>0
      <4>2. (a = t /\ j = i /\ tb2[a][j] = p /\ tb[a][j] = Absent) \/ tb2[a][j] = tb[a][j]
        BY Zenon, <1>4, <2>1, <4>1
      <4> QED
        BY Zenon, <3>2, <4>1, <4>2 DEF At
    <3> QED
      BY Zenon, <3>1, <3>2
  <2> HIDE DEF Ends
  <2>2. root \in Frame /\ lvl[root] > 0 /\ Ends(root, root)
    BY DEF Tree, Ends
  <2>3. Ends(Walk3(tb, root, v), Walk3(tb2, root, v))
    BY Zenon, <2>1, <2>2, IndexType DEF Walk3
  <2>4. Walk3(tb, root, v) = Absent \/ (Walk3(tb, root, v) \in Frame /\ lvl[Walk3(tb, root, v)] > 0)
    BY WalkLevels
  <2>5. Ends(Walk2(tb, root, v), Walk2(tb2, root, v))
    BY Zenon, <2>1, <2>3, <2>4, IndexType DEF Walk2
  <2>6. Walk2(tb, root, v) = Absent \/ (Walk2(tb, root, v) \in Frame /\ lvl[Walk2(tb, root, v)] > 0)
    BY WalkLevels
  <2>7. Ends(Walk1(tb, root, v), Walk1(tb2, root, v))
    BY Zenon, <2>1, <2>5, <2>6, IndexType DEF Walk1
  <2>8. /\ Walk1(tb, root, v) = Absent \/ (Walk1(tb, root, v) \in Frame /\ lvl[Walk1(tb, root, v)] > 0)
        /\ Walk1(tb, root, v) # t
    BY WalkLevels, Pages
  <2> QED
    BY Zenon, <2>1, <2>7, <2>8, IndexType DEF Walk0
<1> QED
  BY Zenon, <1>5, <1>6

\* Two pages reach the same last table only with the same upper digits.
LEMMA SameWay ==
  ASSUME NEW tb \in Mem, NEW root, NEW last, NEW D, NEW lvl, Tree(tb, root, last, D, lvl),
         NEW u \in VPage, NEW v \in VPage,
         Walk1(tb, root, u) = Walk1(tb, root, v), Walk1(tb, root, v) # Absent
  PROVE  /\ GetPageTableIndex(u, 4) = GetPageTableIndex(v, 4)
         /\ GetPageTableIndex(u, 3) = GetPageTableIndex(v, 3)
         /\ GetPageTableIndex(u, 2) = GetPageTableIndex(v, 2)
<1>1. \A x, y \in Frame, i, j \in Index :
          lvl[x] > 1 /\ lvl[y] > 1 /\ tb[x][i] # Absent /\ tb[x][i] = tb[y][j] => x = y /\ i = j
  BY Zenon DEF Tree
<1>2. /\ Walk2(tb, root, u) = Walk2(tb, root, v) /\ Walk2(tb, root, v) # Absent
      /\ GetPageTableIndex(u, 2) = GetPageTableIndex(v, 2)
  <2> DEFINE x == Walk2(tb, root, u)
             y == Walk2(tb, root, v)
  <2>1. /\ x # Absent /\ y # Absent
        /\ tb[x][GetPageTableIndex(u, 2)] = tb[y][GetPageTableIndex(v, 2)]
        /\ tb[x][GetPageTableIndex(u, 2)] # Absent
    BY Zenon DEF Walk1, At
  <2>2. x \in Frame /\ lvl[x] > 1 /\ y \in Frame /\ lvl[y] > 1
    BY <2>1, WalkLevels
  <2> HIDE DEF x, y
  <2>3. GetPageTableIndex(u, 2) \in Index /\ GetPageTableIndex(v, 2) \in Index
    BY Zenon, IndexType
  <2>4. x = y /\ GetPageTableIndex(u, 2) = GetPageTableIndex(v, 2)
    BY <1>1, <2>1, <2>2, <2>3
  <2> QED
    BY Zenon, <2>1, <2>4 DEF x, y
<1>3. /\ Walk3(tb, root, u) = Walk3(tb, root, v) /\ Walk3(tb, root, v) # Absent
      /\ GetPageTableIndex(u, 3) = GetPageTableIndex(v, 3)
  <2> DEFINE x == Walk3(tb, root, u)
             y == Walk3(tb, root, v)
  <2>1. /\ x # Absent /\ y # Absent
        /\ tb[x][GetPageTableIndex(u, 3)] = tb[y][GetPageTableIndex(v, 3)]
        /\ tb[x][GetPageTableIndex(u, 3)] # Absent
    BY Zenon, <1>2 DEF Walk2, At
  <2>2. x \in Frame /\ lvl[x] > 1 /\ y \in Frame /\ lvl[y] > 1
    BY <2>1, WalkLevels
  <2> HIDE DEF x, y
  <2>3. GetPageTableIndex(u, 3) \in Index /\ GetPageTableIndex(v, 3) \in Index
    BY Zenon, IndexType
  <2>4. x = y /\ GetPageTableIndex(u, 3) = GetPageTableIndex(v, 3)
    BY <1>1, <2>1, <2>2, <2>3
  <2> QED
    BY Zenon, <2>1, <2>4 DEF x, y
<1>4. GetPageTableIndex(u, 4) = GetPageTableIndex(v, 4)
  <2>1. root \in Frame /\ lvl[root] > 1 /\ root # Absent
    BY Pages DEF Tree
  <2>2. /\ tb[root][GetPageTableIndex(u, 4)] = tb[root][GetPageTableIndex(v, 4)]
        /\ tb[root][GetPageTableIndex(u, 4)] # Absent
    BY Zenon, <1>3, <2>1 DEF Walk3, At
  <2> QED
    BY ZenonT(30), <1>1, <2>1, <2>2, IndexType
<1> QED
  BY Zenon, <1>2, <1>3, <1>4

\* The entry for v changes the translation of v and no other.
LEMMA StoreEntry ==
  ASSUME NEW tb \in Mem, NEW root, NEW last, NEW D, NEW lvl, Tree(tb, root, last, D, lvl),
         NEW v \in VPage, NEW t, t = Walk1(tb, root, v), t # Absent, NEW p \in Int,
         NEW tb2, tb2 = [tb EXCEPT ![t][GetPageTableIndex(v, 1)] = p]
  PROVE  /\ tb2 \in Mem /\ Tree(tb2, root, last, D, lvl)
         /\ \A u \in VPage : Walk0(tb2, root, u) = IF u = v THEN p ELSE Walk0(tb, root, u)
<1> DEFINE i == GetPageTableIndex(v, 1)
<1>1. t \in Frame /\ lvl[t] = 1 /\ i \in Index
  BY WalkLevels, IndexType
<1>2. /\ tb2 \in Mem /\ tb2[t][i] = p
      /\ \A x \in Frame : x # t => tb2[x] = tb[x]
      /\ \A j \in Index : j # i => tb2[t][j] = tb[t][j]
  <2> HIDE DEF i
  <2>1. tb2 = [tb EXCEPT ![t][i] = p]
    BY Zenon DEF i
  <2>2. tb[t] \in [Index -> Int] /\ [tb[t] EXCEPT ![i] = p] \in [Index -> Int]
    BY Zenon, <1>1 DEF Mem
  <2>3. tb2[t] = [tb[t] EXCEPT ![i] = p] /\ \A x \in Frame : x # t => tb2[x] = tb[x]
    BY Zenon, <1>1, <2>1 DEF Mem
  <2>4. tb2 \in Mem
    BY Zenon, <1>1, <2>1, <2>2 DEF Mem
  <2> QED
    BY <2>2, <2>3, <2>4
<1>3. \A x \in Frame : lvl[x] > 1 => tb2[x] = tb[x]
  BY <1>1
<1>4. Tree(tb2, root, last, D, lvl)
  BY <1>3 DEF Tree
<1>5. ASSUME NEW u \in VPage
      PROVE  Walk0(tb2, root, u) = IF u = v THEN p ELSE Walk0(tb, root, u)
  <2>0. root \in Frame /\ lvl[root] = 4
    BY Zenon DEF Tree
  <2>1. Walk3(tb2, root, u) = Walk3(tb, root, u)
    BY <1>3, <2>0 DEF Walk3, At
  <2>2. Walk2(tb2, root, u) = Walk2(tb, root, u)
    BY SMTT(30), <2>1, WalkLevels DEF Walk2, At
  <2>3. Walk1(tb2, root, u) = Walk1(tb, root, u)
    BY <1>3, <2>2, WalkLevels DEF Walk1, At
  <2>4. CASE u = v
    BY Zenon, <1>2, <2>3, <2>4 DEF Walk0, At
  <2>5. CASE u # v /\ Walk1(tb, root, u) # t
    <3>1. Walk1(tb, root, u) # Absent => Walk1(tb, root, u) \in Frame
      BY Zenon, WalkLevels
    <3> QED
      BY <2>3, <2>5 DEF Walk0, At
  <2>6. CASE u # v /\ Walk1(tb, root, u) = t
    <3>1. GetPageTableIndex(u, 1) # i /\ GetPageTableIndex(u, 1) \in Index
      <4> SUFFICES ASSUME GetPageTableIndex(u, 1) = i PROVE FALSE
        BY Zenon, IndexType
      <4>1. /\ GetPageTableIndex(u, 4) = GetPageTableIndex(v, 4)
            /\ GetPageTableIndex(u, 3) = GetPageTableIndex(v, 3)
            /\ GetPageTableIndex(u, 2) = GetPageTableIndex(v, 2)
        BY <2>6, SameWay
      <4> QED
        BY Zenon, <2>6, <4>1, Digits
    <3> QED
      BY Zenon, <1>2, <2>3, <2>6, <3>1 DEF Walk0, At
  <2> QED
    BY Zenon, <2>4, <2>5, <2>6
<1> QED
  BY Zenon, <1>2, <1>4, <1>5
-----------------------------------------------------------------------------
(* The operations. *)

State == [tab : Mem, last : Frame, ok : BOOLEAN]

\* AllocateEmptyPage clears a usable page above all that were given out, or
\* finds none.
LEMMA Allocated ==
  ASSUME map \in Maps, NEW s \in State, NEW a, a = AllocateEmptyPage(s)
  PROVE  \/ /\ a.page \in Frame /\ a.page > s.last /\ a.page \in UsablePages(map)
            /\ s.ok = TRUE /\ a.s \in State
            /\ a.s.tab = [s.tab EXCEPT ![a.page] = EmptyTable]
            /\ a.s.last = a.page /\ a.s.ok = TRUE
            /\ a = [page |-> a.page, s |-> a.s]
         \/ /\ a = [page |-> NULL, s |-> a.s] /\ a.s \in State
            /\ a.s.tab = s.tab /\ a.s.last = s.last /\ a.s.ok = FALSE
<1>1. EmptyTable \in [Index -> Int]
  BY Zenon, Pages DEF EmptyTable
<1>2. CASE s.ok /\ SomePageAbove(map, s.last)
  <2> DEFINE p == FirstPageAbove(map, s.last)
             b == [tab |-> [s.tab EXCEPT ![p] = EmptyTable], last |-> p, ok |-> TRUE]
  <2>1. a = [page |-> p, s |-> b]
    BY Zenon, <1>2 DEF AllocateEmptyPage
  <2>2. p \in UsablePages(map) /\ p \in Frame /\ p > s.last
    BY Zenon, <1>2, ScanFinds DEF State
  <2> HIDE DEF p
  <2>3. b \in State /\ s.ok = TRUE
    BY Zenon, <1>1, <1>2, <2>2 DEF State, Mem
  <2> QED
    BY <2>1, <2>2, <2>3
<1>3. CASE ~(s.ok /\ SomePageAbove(map, s.last))
  <2>1. a = [page |-> NULL, s |-> [s EXCEPT !.ok = FALSE]]
    BY Zenon, <1>3 DEF AllocateEmptyPage
  <2>2. a.s = [s EXCEPT !.ok = FALSE] /\ a = [page |-> NULL, s |-> a.s]
    BY <2>1
  <2>3. /\ [s EXCEPT !.ok = FALSE] \in State /\ [s EXCEPT !.ok = FALSE].tab = s.tab
        /\ [s EXCEPT !.ok = FALSE].last = s.last /\ [s EXCEPT !.ok = FALSE].ok = FALSE
    BY Zenon DEF State
  <2> QED
    BY Zenon, <2>2, <2>3
<1> QED
  BY Zenon, <1>2, <1>3

\* From memory s to s2 tables were added: every translation is as before.
Grown(s, s2, root, D, lvl2) ==
    /\ s2 \in State /\ s.last <= s2.last
    /\ Tree(s2.tab, root, s2.last, D, lvl2)
    /\ \A v \in VPage : Walk0(s2.tab, root, v) = Walk0(s.tab, root, v)

\* n is the table that entry i of r.page leads to, with the entries above the
\* last level that there were kept.
Leads(r, n, i, root, D, lvl) ==
    /\ n = [page |-> n.page, s |-> n.s]
    /\ \E lvl2 :
         /\ Grown(r.s, n.s, root, D, lvl2)
         /\ n.s.ok = TRUE =>
               n.page \in Frame /\ lvl2[n.page] = lvl[r.page] - 1 /\ n.s.tab[r.page][i] = n.page
         /\ \A t \in Frame, j \in Index : lvl[t] > 1 /\ r.s.tab[t][j] # Absent =>
               n.s.tab[t][j] = r.s.tab[t][j]

\* After AllocateEmptyPage has failed nothing more is done.
LEMMA NextHalted ==
  ASSUME NEW r, r = [page |-> r.page, s |-> r.s], r.s.ok = FALSE, NEW i
  PROVE  /\ GetNextPageLevel(r, i).s = r.s
         /\ GetNextPageLevel(r, i) = [page |-> GetNextPageLevel(r, i).page, s |-> r.s]
<1> DEFINE n == GetNextPageLevel(r, i)
<1>1. n = [r EXCEPT !.page = NULL]
  BY Zenon DEF GetNextPageLevel
<1> QED
  BY Zenon, <1>1

\* GetNextPageLevel comes to the table that the entry leads to afterwards.
LEMMA NextLevel ==
  ASSUME map \in Maps, NEW r, r = [page |-> r.page, s |-> r.s], r.s \in State, r.s.ok = TRUE,
         NEW root, NEW D, \A x \in D : x <= r.s.last,
         NEW lvl, Tree(r.s.tab, root, r.s.last, D, lvl),
         r.page \in Frame, lvl[r.page] > 1,
         NEW i \in Index
  PROVE  Leads(r, GetNextPageLevel(r, i), i, root, D, lvl)
<1> DEFINE n == GetNextPageLevel(r, i)
           a == AllocateEmptyPage(r.s)
           tb == r.s.tab
<1>1. r.s.last \in Nat /\ tb \in Mem /\ Frame \subseteq Nat
  BY Zenon, Pages DEF State
<1>2. CASE tb[r.page][i] # Absent
  <2>1. n = [r EXCEPT !.page = tb[r.page][i]]
    BY Zenon, <1>2 DEF GetNextPageLevel
  <2>2. n.page = tb[r.page][i] /\ n.s = r.s /\ n = [page |-> n.page, s |-> n.s]
    BY Zenon, <2>1
  <2>3. n.page \in Frame /\ lvl[n.page] = lvl[r.page] - 1
    BY <1>2, <2>2 DEF Tree
  <2>4. Grown(r.s, n.s, root, D, lvl)
    BY <1>1, <2>2 DEF Grown
  <2> QED
    BY Zenon, <2>2, <2>3, <2>4 DEF Leads
<1>3. CASE tb[r.page][i] = Absent /\ a.s.ok = TRUE
  <2> DEFINE p == a.page
             t == r.page
             tb2 == [a.s.tab EXCEPT ![t][i] = p]
             lvl2 == [lvl EXCEPT ![p] = lvl[t] - 1]
  <2>1. n = [a EXCEPT !.s.tab = tb2]
    BY Zenon, <1>3 DEF GetNextPageLevel
  <2>2. /\ p \in Frame /\ p > r.s.last /\ p \in UsablePages(map) /\ a.s \in State
        /\ a.s.tab = [tb EXCEPT ![p] = EmptyTable] /\ a.s.last = p
        /\ a = [page |-> p, s |-> a.s]
    BY Zenon, <1>3, Allocated
  <2> HIDE DEF a
  <2>3. n.page = p /\ n.s = [a.s EXCEPT !.tab = tb2] /\ n = [page |-> n.page, s |-> n.s]
    BY Zenon, <2>1, <2>2
  <2>4. p # t /\ p \notin D /\ lvl[p] = 0
    <3>1. lvl[p] \in 0 .. 4 /\ p \in Nat /\ t \in Nat
      BY Zenon, <1>1, <2>2 DEF Tree
    <3> QED
      BY <1>1, <2>2 DEF Tree
  <2>5. a.s.tab \in Mem /\ a.s.tab[t] = tb[t] /\ p \in Int
    BY <1>1, <2>2, <2>4 DEF State
  <2>6. /\ tb2 \in Mem /\ tb2[t] = [tb[t] EXCEPT ![i] = p]
        /\ \A x \in Frame : x # t => tb2[x] = a.s.tab[x]
    <3>1. [a.s.tab[t] EXCEPT ![i] = p] \in [Index -> Int]
      BY Zenon, <2>5 DEF Mem
    <3>2. tb2 = [a.s.tab EXCEPT ![t] = [a.s.tab[t] EXCEPT ![i] = p]]
      BY Zenon
    <3> HIDE DEF tb2
    <3> QED
      BY Zenon, <2>5, <3>1, <3>2 DEF Mem
  <2>7. Linked(tb, tb2, t, i, p)
    <3> HIDE DEF tb2, tb
    <3>1. \A j \in Index : a.s.tab[p][j] = Absent
      BY <1>1, <2>2 DEF Mem, EmptyTable
    <3>2. \A x \in Frame : x # p => a.s.tab[x] = tb[x]
      BY Zenon, <1>1, <2>2 DEF Mem
    <3>3. tb2[t][i] = p /\ \A j \in Index : j # i => tb2[t][j] = tb[t][j]
      BY <2>6 DEF Mem
    <3>4. \A j \in Index : tb2[p][j] = Absent
      BY <2>2, <2>4, <2>6, <3>1
    <3>5. ASSUME NEW x \in Frame, NEW j \in Index, x # p, ~(x = t /\ j = i)
          PROVE  tb2[x][j] = tb[x][j]
      BY Zenon, <2>6, <3>2, <3>3, <3>5
    <3> QED
      BY Zenon, <3>3, <3>4, <3>5 DEF Linked
  <2>8. Tree(tb2, root, p, D, lvl2) /\ \A v \in VPage : Walk0(tb2, root, v) = Walk0(tb, root, v)
    <3> HIDE DEF p, t, tb2, lvl2, tb
    <3>1. lvl[t] > 1 /\ t \in Frame /\ tb[t][i] = Absent
      BY Zenon, <1>3 DEF t
    <3>2. Tree(tb, root, r.s.last, D, lvl)
      BY Zenon DEF tb
    <3> DEFINE last == r.s.last
    <3>3. /\ tb \in Mem /\ last \in Nat /\ Tree(tb, root, last, D, lvl)
          /\ t \in Frame /\ lvl[t] > 1 /\ i \in Index /\ tb[t][i] = Absent
          /\ p \in Frame /\ p > last /\ p \in UsablePages(map) /\ p \notin D
          /\ tb2 \in Mem
      BY Zenon, <1>1, <2>2, <2>4, <2>6, <3>1, <3>2
    <3> HIDE DEF last
    <3>4. /\ Tree(tb2, root, p, D, [lvl EXCEPT ![p] = lvl[t] - 1])
          /\ \A v \in VPage : Walk0(tb2, root, v) = Walk0(tb, root, v)
      BY <2>7, <3>3, LinkTable
    <3> QED
      BY Zenon, <3>4 DEF lvl2
  <2>9. n.s \in State /\ n.s.tab = tb2 /\ n.s.last = p
    BY Zenon, <2>2, <2>3, <2>6 DEF State
  <2>10. Grown(r.s, n.s, root, D, lvl2)
    <3> HIDE DEF lvl2, tb2, p
    <3> QED
      BY SMTT(30), <1>1, <2>2, <2>8, <2>9 DEF Grown
  <2>11. lvl2[p] = lvl[t] - 1 /\ n.s.tab[t][i] = p
    BY <2>2, <2>6, <2>9 DEF Tree, Mem
  <2>12. ASSUME NEW x \in Frame, NEW j \in Index, lvl[x] > 1, tb[x][j] # Absent
         PROVE  n.s.tab[x][j] = tb[x][j]
    <3>1. x # p
      BY SMTT(30), <2>4, <2>12
    <3>2. CASE x = t
      BY <1>3, <2>6, <2>9, <2>12, <3>2 DEF Mem
    <3>3. CASE x # t
      BY <2>2, <2>6, <2>9, <3>1, <3>3
    <3> QED
      BY Zenon, <3>2, <3>3
  <2> HIDE DEF lvl2, tb2, p, t
  <2> QED
    BY ZenonT(30), <2>2, <2>3, <2>10, <2>11, <2>12 DEF t, Leads
<1>4. CASE tb[r.page][i] = Absent /\ a.s.ok # TRUE
  <2>1. n = a
    <3>1. a.s.ok = FALSE
      BY Zenon, <1>4, Allocated
    <3> QED
      BY Zenon, <1>4, <3>1 DEF GetNextPageLevel
  <2>2. /\ n = [page |-> NULL, s |-> n.s] /\ n.s \in State
        /\ n.s.tab = tb /\ n.s.last = r.s.last /\ n.s.ok = FALSE
    BY Zenon, <1>4, <2>1, Allocated
  <2>3. n = [page |-> n.page, s |-> n.s]
    BY Zenon, <2>2
  <2>4. Grown(r.s, n.s, root, D, lvl)
    BY <1>1, <2>2 DEF Grown
  <2> QED
    BY Zenon, <2>2, <2>3, <2>4 DEF Leads
<1> QED
  BY Zenon, <1>2, <1>3, <1>4

\* Tables added, and more tables added.
LEMMA GrownTwice ==
  ASSUME NEW s \in State, NEW s1, NEW s2, NEW root, NEW D, NEW k1, NEW k2,
         Grown(s, s1, root, D, k1), Grown(s1, s2, root, D, k2)
  PROVE  Grown(s, s2, root, D, k2)
<1>1. s.last \in Nat /\ s1.last \in Nat /\ s2.last \in Nat
  BY Zenon, Pages DEF Grown, State
<1>2. s.last <= s2.last
  BY <1>1 DEF Grown
<1> QED
  BY Zenon, <1>2 DEF Grown

\* Pages that were given out before stay below what is given out now.
LEMMA Below ==
  ASSUME NEW s \in State, NEW z \in State, s.last <= z.last,
         NEW D, \A x \in D : x \in Nat /\ x <= s.last
  PROVE  \A x \in D : x <= z.last
<1>1. s.last \in Nat /\ z.last \in Nat
  BY Zenon, Pages DEF State
<1> QED
  BY <1>1

\* From a table on the way to the next, when there was memory.
LEMMA OnTheWay ==
  ASSUME map \in Maps, NEW s \in State, NEW root, NEW D, \A x \in D : x \in Nat /\ x <= s.last,
         NEW r, r = [page |-> r.page, s |-> r.s], NEW k, Grown(s, r.s, root, D, k),
         r.s.ok = TRUE, r.page \in Frame, k[r.page] > 1, NEW i \in Index
  PROVE  Leads(r, GetNextPageLevel(r, i), i, root, D, k)
<1>1. r.s \in State /\ s.last <= r.s.last /\ Tree(r.s.tab, root, r.s.last, D, k)
  BY Zenon DEF Grown
<1>2. \A x \in D : x <= r.s.last
  BY Zenon, <1>1, Below
<1> QED
  BY Zenon, <1>1, <1>2, NextLevel

\* MapMemory's iteration maps v to p and leaves every other translation alone;
\* if memory runs out it has changed none.
MapsOnly(s, s2, root, D, v, p) ==
    /\ s2 \in State /\ s.last <= s2.last
    /\ \E lvl : Tree(s2.tab, root, s2.last, D, lvl)
    /\ s2.ok = FALSE => \A u \in VPage : Walk0(s2.tab, root, u) = Walk0(s.tab, root, u)
    /\ s2.ok = TRUE => \A u \in VPage :
          Walk0(s2.tab, root, u) = IF u = v THEN p ELSE Walk0(s.tab, root, u)

\* Without memory for a table there is nothing but tables added.
LEMMA GrownOnly ==
  ASSUME NEW s, NEW s2, NEW root, NEW D, NEW k, NEW v, NEW p, Grown(s, s2, root, D, k), s2.ok = FALSE
  PROVE  MapsOnly(s, s2, root, D, v, p)
  BY Zenon DEF Grown, MapsOnly

\* The entry that is stored at the end of the way.
LEMMA StoredOnly ==
  ASSUME NEW s \in State, NEW root, NEW D, NEW k, NEW v \in VPage, NEW p \in Int,
         NEW l1, Grown(s, l1.s, root, D, k), l1.s.ok = TRUE,
         Walk1(l1.s.tab, root, v) = l1.page, l1.page # Absent
  PROVE  MapsOnly(s, [l1.s EXCEPT !.tab = [l1.s.tab EXCEPT ![l1.page][GetPageTableIndex(v, 1)] = p]],
                  root, D, v, p)
<1> DEFINE tb == l1.s.tab
           tb2 == [l1.s.tab EXCEPT ![l1.page][GetPageTableIndex(v, 1)] = p]
           s2 == [l1.s EXCEPT !.tab = tb2]
<1>1. l1.s \in State /\ tb \in Mem /\ Tree(tb, root, l1.s.last, D, k) /\ s.last <= l1.s.last
  BY Zenon DEF Grown, State
<1>2. \A u \in VPage : Walk0(tb, root, u) = Walk0(s.tab, root, u)
  BY Zenon DEF Grown
<1>3. /\ tb2 \in Mem /\ Tree(tb2, root, l1.s.last, D, k)
      /\ \A u \in VPage : Walk0(tb2, root, u) = IF u = v THEN p ELSE Walk0(tb, root, u)
  BY <1>1, StoreEntry
<1> HIDE DEF tb2, tb
<1>4. s2 \in State /\ s2.tab = tb2 /\ s2.last = l1.s.last /\ s2.ok = TRUE
  BY Zenon, <1>1, <1>3 DEF State
<1> HIDE DEF s2
<1>5. \A u \in VPage : Walk0(tb2, root, u) = IF u = v THEN p ELSE Walk0(s.tab, root, u)
  BY Zenon, <1>2, <1>3
<1>6. MapsOnly(s, s2, root, D, v, p)
  BY Zenon, <1>1, <1>3, <1>4, <1>5 DEF MapsOnly
<1> QED
  BY Zenon, <1>6 DEF s2, tb2

\* MapPage changes the translation of v, and no other, or runs out of memory.
LEMMA Mapped ==
  ASSUME map \in Maps, NEW s \in State, s.ok = TRUE,
         NEW root, NEW D, \A x \in D : x \in Nat /\ x <= s.last,
         NEW lvl, Tree(s.tab, root, s.last, D, lvl), NEW v \in VPage, NEW p \in Int
  PROVE  MapsOnly(s, MapPage(s, root, v, p), root, D, v, p)
<1> DEFINE i4 == GetPageTableIndex(v, 4)
           i3 == GetPageTableIndex(v, 3)
           i2 == GetPageTableIndex(v, 2)
           i1 == GetPageTableIndex(v, 1)
           l4 == [page |-> root, s |-> s]
           l3 == GetNextPageLevel(l4, i4)
           l2 == GetNextPageLevel(l3, i3)
           l1 == GetNextPageLevel(l2, i2)
           s2 == MapPage(s, root, v, p)
<1>1. s2 = IF l1.s.ok THEN [l1.s EXCEPT !.tab = [l1.s.tab EXCEPT ![l1.page][i1] = p]] ELSE l1.s
  BY Zenon DEF MapPage
<1>2. i4 \in Index /\ i3 \in Index /\ i2 \in Index /\ i1 \in Index
  BY Zenon, IndexType
<1>3. l4 = [page |-> l4.page, s |-> l4.s] /\ l4.page = root /\ l4.s = s
  BY Zenon
<1>4. root \in Frame /\ lvl[root] = 4 /\ lvl[root] > 1 /\ root # Absent
  BY Pages DEF Tree
<1>5. Grown(s, l4.s, root, D, lvl)
  <2>1. s.last \in Nat
    BY Zenon, Pages DEF State
  <2> QED
    BY <2>1 DEF Grown
<1> HIDE DEF l4, i4, i3, i2, s2
<1>6. Leads(l4, l3, i4, root, D, lvl)
  BY Zenon, <1>2, <1>3, <1>4, <1>5, OnTheWay
<1> HIDE DEF l3
<1>7. l3 = [page |-> l3.page, s |-> l3.s]
  BY Zenon, <1>6 DEF Leads
<1>8. PICK k3 :
         /\ Grown(s, l3.s, root, D, k3)
         /\ l3.s.ok = TRUE => l3.page \in Frame /\ k3[l3.page] = lvl[root] - 1 /\ l3.s.tab[root][i4] = l3.page
  BY Zenon, <1>3, <1>6 DEF Leads
<1>9. l3.s \in State /\ l3.s.ok \in BOOLEAN
  BY Zenon, <1>8 DEF Grown, State
<1>10. CASE l3.s.ok = FALSE
  <2>1. l2.s = l3.s /\ l2 = [page |-> l2.page, s |-> l2.s]
    BY Zenon, <1>7, <1>10, NextHalted
  <2> HIDE DEF l2
  <2>2. l1.s = l3.s
    BY Zenon, <1>10, <2>1, NextHalted
  <2> HIDE DEF l1
  <2>3. s2 = l3.s
    BY Zenon, <1>1, <1>10, <2>2
  <2> QED
    BY Zenon, <1>8, <1>10, <2>3, GrownOnly DEF s2
<1>11. CASE l3.s.ok = TRUE
  <2>1. l3.page \in Frame /\ k3[l3.page] = 3 /\ k3[l3.page] > 1 /\ l3.s.tab[root][i4] = l3.page
    BY <1>4, <1>8, <1>11
  <2>2. Leads(l3, l2, i3, root, D, k3)
    BY Zenon, <1>2, <1>7, <1>8, <1>11, <2>1, OnTheWay
  <2> HIDE DEF l2
  <2>3. l2 = [page |-> l2.page, s |-> l2.s]
    BY Zenon, <2>2 DEF Leads
  <2>4. PICK k2 :
           /\ Grown(l3.s, l2.s, root, D, k2)
           /\ l2.s.ok = TRUE =>
                 l2.page \in Frame /\ k2[l2.page] = k3[l3.page] - 1 /\ l2.s.tab[l3.page][i3] = l2.page
           /\ \A t \in Frame, j \in Index : k3[t] > 1 /\ l3.s.tab[t][j] # Absent =>
                 l2.s.tab[t][j] = l3.s.tab[t][j]
    BY Zenon, <2>2 DEF Leads
  <2>5. Grown(s, l2.s, root, D, k2)
    BY Zenon, <1>8, <2>4, GrownTwice
  <2>6. l2.s \in State /\ l2.s.ok \in BOOLEAN
    BY Zenon, <2>5 DEF Grown, State
  <2>7. CASE l2.s.ok = FALSE
    <3>1. l1.s = l2.s
      BY Zenon, <2>3, <2>7, NextHalted
    <3> HIDE DEF l1
    <3>2. s2 = l2.s
      BY Zenon, <1>1, <2>7, <3>1
    <3> QED
      BY Zenon, <2>5, <2>7, <3>2, GrownOnly DEF s2
  <2>8. CASE l2.s.ok = TRUE
    <3>1. l2.page \in Frame /\ k2[l2.page] = 2 /\ k2[l2.page] > 1 /\ l2.s.tab[l3.page][i3] = l2.page
      BY <2>1, <2>4, <2>8
    <3>2. Leads(l2, l1, i2, root, D, k2)
      BY Zenon, <1>2, <2>3, <2>5, <2>8, <3>1, OnTheWay
    <3> HIDE DEF l1
    <3>3. PICK k1 :
             /\ Grown(l2.s, l1.s, root, D, k1)
             /\ l1.s.ok = TRUE =>
                   l1.page \in Frame /\ k1[l1.page] = k2[l2.page] - 1 /\ l1.s.tab[l2.page][i2] = l1.page
             /\ \A t \in Frame, j \in Index : k2[t] > 1 /\ l2.s.tab[t][j] # Absent =>
                   l1.s.tab[t][j] = l2.s.tab[t][j]
      BY Zenon, <3>2 DEF Leads
    <3>4. Grown(s, l1.s, root, D, k1)
      BY ZenonT(30), <2>5, <3>3, GrownTwice
    <3>5. l1.s.ok \in BOOLEAN
      BY Zenon, <3>4 DEF Grown, State
    <3>6. CASE l1.s.ok = FALSE
      <4>1. s2 = l1.s
        BY Zenon, <1>1, <3>6
      <4> QED
        BY Zenon, <3>4, <3>6, <4>1, GrownOnly DEF s2
    <3>7. CASE l1.s.ok = TRUE
      <4> DEFINE tb == l1.s.tab
      <4>1. l1.page \in Frame /\ tb[l2.page][i2] = l1.page
        BY Zenon, <3>3, <3>7
      <4>2. l3.page # Absent /\ l2.page # Absent /\ l1.page # Absent
        BY Zenon, <2>1, <3>1, <4>1, Pages
      <4>3. k3[root] > 1 /\ k2[root] > 1
        <5>1. k3[root] = 4 /\ k2[root] = 4
          BY Zenon, <1>8, <2>4 DEF Grown, Tree
        <5> QED
          BY <5>1
      <4>4. l2.s.tab[root][i4] = l3.page
        BY Zenon, <1>2, <1>4, <2>1, <2>4, <4>2, <4>3
      <4>5. k2[l3.page] > 1
        <5>1. Tree(l2.s.tab, root, l2.s.last, D, k2)
          BY Zenon, <2>4 DEF Grown
        <5>2. k2[root] = 4 /\ k2[l2.s.tab[root][i4]] = k2[root] - 1
          BY Zenon, <1>2, <1>4, <4>2, <4>3, <4>4, <5>1 DEF Tree
        <5> QED
          BY <4>4, <5>2
      <4>6. tb[root][i4] = l3.page
        BY Zenon, <1>2, <1>4, <3>3, <4>2, <4>3, <4>4
      <4>7. tb[l3.page][i3] = l2.page
        BY Zenon, <1>2, <2>1, <3>1, <3>3, <4>2, <4>5
      <4>8. Walk1(tb, root, v) = l1.page
        BY Zenon, <1>4, <4>1, <4>2, <4>6, <4>7 DEF Walk1, Walk2, Walk3, At, i4, i3, i2
      <4>9. s2 = [l1.s EXCEPT !.tab = [l1.s.tab EXCEPT ![l1.page][i1] = p]]
        BY Zenon, <1>1, <3>7
      <4>10. MapsOnly(s, [l1.s EXCEPT !.tab = [l1.s.tab EXCEPT ![l1.page][i1] = p]], root, D, v, p)
        BY Zenon, <3>4, <3>7, <4>2, <4>8, StoredOnly
      <4> QED
        BY Zenon, <4>9, <4>10 DEF s2
    <3> QED
      BY Zenon, <3>5, <3>6, <3>7
  <2> QED
    BY Zenon, <2>6, <2>7, <2>8
<1> QED
  BY Zenon, <1>9, <1>10, <1>11

-----------------------------------------------------------------------------
(* The kernel. *)

\* The walks are what the processor does.
LEMMA Translates ==
  ASSUME NEW v
  PROVE  /\ Translate(v) = Walk0(tab, Pml4, v)
         /\ Translate(v)' = Walk0(tab', Pml4', v)
  BY Zenon DEF Translate, Entry, Walk0, Walk1, Walk2, Walk3, At

\* Where the areas of virtual memory lie.
LEMMA AreaFacts ==
  ASSUME NEW m \in Maps
  PROVE  LET full == GetFullSizeOfMemory(m)
             heap == HeapArea \cup {SystemData}
         IN  /\ full \in Nat /\ full <= MaxFrame + 1 /\ MaxFrame \in Nat
             /\ KernelSize \in Nat /\ PhysicalKernelStart \in Nat
             /\ VirtualKernelStart \in Nat /\ HHDM_Offset \in Nat
             /\ HeapStart \in Nat /\ MaxHeap \in Nat /\ InitHeap \in Nat
             /\ VPage \subseteq Nat /\ LowArea(m) \subseteq VPage /\ heap \subseteq VPage
             /\ SystemData \notin HeapArea /\ LowArea(m) \cap heap = {}
             /\ Devices \subseteq LowArea(m) /\ Devices \subseteq Nat
             /\ \A p \in 0 .. (full - 1) : p \in LowArea(m)
             /\ \A i \in 0 .. (KernelSize - 1) :
                   VirtualKernelStart + i \in VPage \ (LowArea(m) \cup heap)
             /\ \A p \in 0 .. (full - 1) :
                   HHDM_Offset + p \in VPage \ (LowArea(m) \cup heap)
             /\ \A i \in 0 .. (KernelSize - 1), p \in 0 .. (full - 1) :
                   HHDM_Offset + p # VirtualKernelStart + i
<1> DEFINE full == GetFullSizeOfMemory(m)
           heap == HeapArea \cup {SystemData}
<1>1. full \in Nat /\ full <= MaxFrame + 1
  BY Zenon, FullSize
<1>2. /\ MaxFrame \in Nat /\ KernelSize \in Nat /\ PhysicalKernelStart \in Nat
      /\ VirtualKernelStart \in Nat /\ HHDM_Offset \in Nat
      /\ HeapStart \in Nat /\ MaxHeap \in Nat /\ InitHeap \in Nat
      /\ Devices \subseteq Frame
  BY Zenon, PtmAssumption
<1>3. /\ KernelArea \subseteq VPage /\ heap \subseteq VPage
      /\ heap \cap KernelArea = {} /\ SystemData \notin HeapArea
      /\ HhdmArea(m) \subseteq VPage /\ LowArea(m) \subseteq VPage
      /\ HhdmArea(m) \cap LowArea(m) = {}
      /\ (HhdmArea(m) \cup LowArea(m)) \cap heap = {}
      /\ (HhdmArea(m) \cup LowArea(m)) \cap KernelArea = {}
  BY PtmAssumption, Zenon
<1>4. VPage \subseteq Nat
  BY DEF VPage
<1>5. Devices \subseteq LowArea(m) /\ Devices \subseteq Nat /\ \A p \in 0 .. (full - 1) : p \in LowArea(m)
  BY Zenon, <1>2, Pages DEF LowArea
<1>6. \A i \in 0 .. (KernelSize - 1) : VirtualKernelStart + i \in KernelArea
  BY <1>2 DEF KernelArea
<1>7. \A p \in 0 .. (full - 1) : HHDM_Offset + p \in HhdmArea(m)
  BY <1>1, <1>2 DEF HhdmArea
<1> HIDE DEF full, heap
<1>8. /\ \A i \in 0 .. (KernelSize - 1) : VirtualKernelStart + i \in VPage \ (LowArea(m) \cup heap)
      /\ \A p \in 0 .. (full - 1) : HHDM_Offset + p \in VPage \ (LowArea(m) \cup heap)
      /\ \A i \in 0 .. (KernelSize - 1), p \in 0 .. (full - 1) :
            HHDM_Offset + p # VirtualKernelStart + i
  BY Zenon, <1>3, <1>6, <1>7
<1>9. LowArea(m) \cap heap = {}
  BY Zenon, <1>3
<1> QED
  BY Zenon, <1>1, <1>2, <1>3, <1>4, <1>5, <1>8, <1>9 DEF full, heap

\* Before CreatePTM there are no tables.
LEMMA InitInv == Init => IInv
<1> SUFFICES ASSUME Init PROVE IInv
  BY Zenon
<1>1. map \in Maps /\ Pml4 = 0 /\ pc = "boot" /\ heapPages = -1 /\ data = {}
  BY Zenon DEF Init
<1>2. \A v \in VPage : want[v] = Absent
  BY Zenon DEF Init
<1>3. TypeOK
  <2>1. 0 \in Frame /\ MaxHeap \in Nat
    BY PtmAssumption DEF Frame
  <2>2. Junk \in [Index -> Int]
    BY DEF Junk
  <2> QED
    BY <2>1, <2>2, Pages DEF TypeOK, Init
<1>4. Leveled /\ TranslationsAsAsked /\ Progress
  BY Zenon, <1>1 DEF Leveled, TranslationsAsAsked, Progress
<1>5. LowArea(map) \subseteq VPage /\ HeapArea \cup {SystemData} \subseteq VPage
  BY Zenon, <1>1, AreaFacts
<1>6. Areas /\ HeapPagesApart
  BY Zenon, <1>2, <1>5 DEF Areas, HeapPagesApart
<1> QED
  BY Zenon, <1>3, <1>4, <1>6 DEF IInv

\* The machine's memory, and its tree.
LEMMA MachineState ==
  ASSUME IInv
  PROVE  /\ Machine \in State /\ Machine.tab = tab /\ Machine.last = LastAddress /\ Machine.ok = TRUE
         /\ map \in Maps /\ tab \in Mem /\ LastAddress \in Nat /\ want \in [VPage -> Int]
         /\ \A x \in data : x \in Nat /\ x > 0 /\ x <= LastAddress
         /\ Pml4 # NULL => /\ \E lvl : Tree(tab, Pml4, LastAddress, data, lvl)
                           /\ \A v \in VPage : Walk0(tab, Pml4, v) = want[v]
<1>1. tab \in Mem /\ LastAddress \in Frame /\ data \subseteq 1 .. LastAddress
  BY Zenon DEF IInv, TypeOK, Mem
<1>2. LastAddress \in Nat /\ \A x \in data : x \in Nat /\ x > 0 /\ x <= LastAddress
  BY <1>1, Pages
<1>3. Pml4 # NULL => \E lvl : Tree(tab, Pml4, LastAddress, data, lvl)
  BY Zenon DEF IInv, Leveled
<1>4. Pml4 # NULL => \A v \in VPage : Walk0(tab, Pml4, v) = want[v]
  BY Zenon, Translates DEF IInv, TranslationsAsAsked
<1>5. Machine \in State /\ Machine.tab = tab /\ Machine.last = LastAddress /\ Machine.ok = TRUE
  BY Zenon, <1>1 DEF Machine, State
<1> QED
  BY Zenon, <1>2, <1>3, <1>4, <1>5 DEF IInv, TypeOK, Mem

\* A tree after a step.
LEMMA TreeAfter ==
  ASSUME map' = map, NEW lvl, Tree(tab', Pml4', LastAddress', data', lvl)
  PROVE  Leveled'
  BY Zenon DEF Leveled, Tree

\* What a call of MapPage makes of the tables and of the translations.
TablesAfter(v, p, ok) ==
    /\ map' = map /\ tab' \in Mem /\ LastAddress' \in Frame /\ want' \in [VPage -> Int]
    /\ data' \subseteq 1 .. LastAddress'
    /\ Leveled' /\ TranslationsAsAsked'
    /\ ok \in BOOLEAN
    /\ ok = FALSE => want' = want
    /\ ok = TRUE => \A u \in VPage : want'[u] = IF u = v THEN p ELSE want[u]

\* A step that does what MapPage does leaves the tables as TablesAfter says.
LEMMA MapPageStep ==
  ASSUME map \in Maps, map' = map, Pml4' = Pml4, want \in [VPage -> Int],
         NEW s \in State, s.ok = TRUE, NEW lvl, Tree(s.tab, Pml4, s.last, data', lvl),
         \A u \in VPage : Walk0(s.tab, Pml4, u) = want[u],
         \A x \in data' : x \in Nat /\ x > 0 /\ x <= s.last,
         NEW v \in VPage, NEW p \in Int, NEW s2, s2 = MapPage(s, Pml4, v, p),
         tab' = s2.tab, LastAddress' = s2.last,
         want' = IF s2.ok THEN [want EXCEPT ![v] = p] ELSE want
  PROVE  TablesAfter(v, p, s2.ok)
<1>1. MapsOnly(s, s2, Pml4, data', v, p)
  BY Zenon, Mapped
<1>2. s2 \in State /\ s.last <= s2.last /\ s.last \in Nat
  BY Zenon, <1>1, Pages DEF MapsOnly, State
<1>3. tab' \in Mem /\ LastAddress' \in Frame /\ s2.ok \in BOOLEAN /\ s2.last \in Nat
  BY Zenon, <1>2, Pages DEF State
<1>4. data' \subseteq 1 .. LastAddress'
  BY <1>2, <1>3
<1>5. Leveled'
  <2>1. PICK k : Tree(s2.tab, Pml4, s2.last, data', k)
    BY Zenon, <1>1 DEF MapsOnly
  <2>2. Tree(tab', Pml4', LastAddress', data', k)
    BY Zenon, <2>1
  <2> QED
    BY Zenon, <2>2, TreeAfter
<1>6. want' \in [VPage -> Int] /\ s2.ok = FALSE => want' = want
  BY Zenon, <1>3
<1>7. s2.ok = TRUE => \A u \in VPage : want'[u] = IF u = v THEN p ELSE want[u]
  BY Zenon, <1>3
<1>8. TranslationsAsAsked'
  <2> SUFFICES ASSUME NEW u \in VPage
               PROVE  Walk0(s2.tab, Pml4, u) = want'[u]
    BY Zenon, Translates DEF TranslationsAsAsked
  <2>1. CASE s2.ok = TRUE
    BY Zenon, <1>1, <1>7, <2>1 DEF MapsOnly
  <2>2. CASE s2.ok = FALSE
    BY Zenon, <1>1, <1>6, <2>2 DEF MapsOnly
  <2> QED
    BY Zenon, <1>3, <2>1, <2>2
<1>9. want' \in [VPage -> Int]
  BY Zenon, <1>3
<1> QED
  BY Zenon, <1>3, <1>4, <1>5, <1>6, <1>7, <1>8, <1>9 DEF TablesAfter

\* The same for a page that is mapped where the machine stands.
LEMMA MapPlain ==
  ASSUME IInv, Pml4 # NULL, UNCHANGED <<map, Pml4, data>>,
         NEW v \in VPage, NEW p \in Int, NEW s2, s2 = MapPage(Machine, Pml4, v, p),
         tab' = s2.tab, LastAddress' = s2.last,
         want' = IF s2.ok THEN [want EXCEPT ![v] = p] ELSE want
  PROVE  TablesAfter(v, p, s2.ok)
<1> DEFINE s == Machine
<1>1. /\ s \in State /\ s.tab = tab /\ s.last = LastAddress /\ s.ok = TRUE
      /\ map \in Maps /\ want \in [VPage -> Int]
      /\ \A x \in data : x \in Nat /\ x > 0 /\ x <= LastAddress
      /\ \A u \in VPage : Walk0(tab, Pml4, u) = want[u]
  BY Zenon, MachineState
<1>2. PICK lvl : Tree(tab, Pml4, LastAddress, data, lvl)
  BY Zenon, MachineState
<1> HIDE DEF s
<1>3. /\ Tree(s.tab, Pml4, s.last, data', lvl) /\ \A x \in data' : x \in Nat /\ x > 0 /\ x <= s.last
      /\ \A u \in VPage : Walk0(s.tab, Pml4, u) = want[u]
  BY Zenon, <1>1, <1>2
<1>4. s2 = MapPage(s, Pml4, v, p)
  BY Zenon DEF s
<1> QED
  BY Zenon, <1>1, <1>3, <1>4, MapPageStep

\* The same for a page that was allocated for it.
LEMMA MapFreshStep ==
  ASSUME IInv, Pml4 # NULL, UNCHANGED <<map, Pml4>>, NEW v \in VPage, MapFresh(v)
  PROVE  \/ /\ TablesAfter(v, 0, FALSE) /\ pc' = "done" /\ data \subseteq data'
         \/ \E p \in data' : /\ TablesAfter(v, p, TRUE) /\ pc' = "up" /\ p > LastAddress
                             /\ data \subseteq data'
<1> DEFINE a == AllocateEmptyPage(Machine)
           s2 == IF a.s.ok THEN MapPage(a.s, Pml4, v, a.page) ELSE a.s
<1>1. /\ tab' = s2.tab /\ LastAddress' = s2.last /\ pc' = IF s2.ok THEN "up" ELSE "done"
      /\ want' = IF s2.ok THEN [want EXCEPT ![v] = a.page] ELSE want
      /\ data' = IF a.s.ok THEN data \cup {a.page} ELSE data
  BY Zenon DEF MapFresh, Becomes
<1>2. /\ Machine \in State /\ Machine.tab = tab /\ Machine.last = LastAddress
      /\ map \in Maps /\ tab \in Mem /\ LastAddress \in Nat /\ want \in [VPage -> Int]
      /\ \A x \in data : x \in Nat /\ x > 0 /\ x <= LastAddress
      /\ \A u \in VPage : Walk0(tab, Pml4, u) = want[u]
  BY Zenon, MachineState
<1>3. PICK lvl : Tree(tab, Pml4, LastAddress, data, lvl)
  BY Zenon, MachineState
<1>4. CASE a.s.ok = FALSE
  <2>1. a.s.tab = tab /\ a.s.last = LastAddress
    BY Zenon, <1>2, <1>4, Allocated
  <2> HIDE DEF a
  <2>2. /\ tab' = tab /\ LastAddress' = LastAddress /\ pc' = "done" /\ want' = want /\ data' = data
    BY Zenon, <1>1, <1>4, <2>1
  <2>3. Leveled'
    <3>1. Tree(tab', Pml4', LastAddress', data', lvl)
      BY Zenon, <1>3, <2>2
    <3> QED
      BY Zenon, <3>1, TreeAfter
  <2>4. TranslationsAsAsked'
    BY Zenon, <1>2, <2>2, Translates DEF TranslationsAsAsked
  <2> QED
    BY Zenon, <1>2, <2>2, <2>3, <2>4 DEF TablesAfter, IInv, TypeOK
<1>5. CASE a.s.ok = TRUE
  <2> DEFINE p == a.page
             s == a.s
  <2>1. /\ p \in Frame /\ p > LastAddress /\ p \in Nat
        /\ s \in State /\ s.tab = [tab EXCEPT ![p] = EmptyTable] /\ s.last = p
    <3>1. Machine \in State /\ Machine.tab = tab /\ Machine.last = LastAddress /\ map \in Maps
      BY Zenon, <1>2
    <3>2. /\ p \in Frame /\ p > Machine.last
          /\ s \in State /\ s.tab = [Machine.tab EXCEPT ![p] = EmptyTable] /\ s.last = p
      BY Zenon, <1>5, <3>1, Allocated
    <3> HIDE DEF p, s
    <3> QED
      BY Zenon, <3>1, <3>2, Pages
  <2>2. s2 = MapPage(s, Pml4, v, p) /\ data' = data \cup {p}
    BY Zenon, <1>1, <1>5
  <2> HIDE DEF a
  <2>3. \A t \in Frame : lvl[t] > 0 => s.tab[t] = tab[t]
    <3>1. \A t \in Frame : lvl[t] > 0 => t # p
      BY <1>2, <1>3, <2>1 DEF Tree
    <3> QED
      BY Zenon, <1>2, <2>1, <3>1 DEF Mem
  <2>4. \A x \in data' : x \in data \/ x > LastAddress
    BY Zenon, <2>1, <2>2
  <2>5. /\ Tree(s.tab, Pml4, s.last, data', lvl)
        /\ \A u \in VPage : Walk0(s.tab, Pml4, u) = Walk0(tab, Pml4, u)
    <3>0. tab \in Mem /\ LastAddress \in Nat
      BY Zenon, <1>2
    <3>1. p \in Nat /\ LastAddress <= p
      BY <1>2, <2>1
    <3> HIDE DEF p, s
    <3>2. /\ Tree(s.tab, Pml4, p, data', lvl)
          /\ \A u \in VPage : Walk0(s.tab, Pml4, u) = Walk0(tab, Pml4, u)
      BY SMTT(30), <1>3, <2>3, <2>4, <3>0, <3>1, OffTree
    <3> QED
      BY Zenon, <2>1, <3>2
  <2>6. \A x \in data' : x \in Nat /\ x > 0 /\ x <= s.last
    BY <1>2, <2>1, <2>2
  <2>7. \A u \in VPage : Walk0(s.tab, Pml4, u) = want[u]
    BY Zenon, <1>2, <2>5
  <2> HIDE DEF s2, p, s
  <2>8. TablesAfter(v, p, s2.ok)
    <3>1. want' = IF s2.ok THEN [want EXCEPT ![v] = p] ELSE want
      BY Zenon, <1>1 DEF p
    <3>2. s.ok = TRUE
      BY Zenon, <1>5 DEF s
    <3>3. p \in Int /\ map \in Maps /\ want \in [VPage -> Int] /\ s \in State
      BY <1>2, <2>1
    <3>4. tab' = s2.tab /\ LastAddress' = s2.last /\ s2 = MapPage(s, Pml4, v, p)
      BY Zenon, <1>1, <2>2
    <3> QED
      BY Zenon, <2>5, <2>6, <2>7, <3>1, <3>2, <3>3, <3>4, MapPageStep
  <2>9. p \in data' /\ data \subseteq data' /\ s2.ok \in BOOLEAN
    BY Zenon, <2>2, <2>8 DEF TablesAfter
  <2>10. CASE s2.ok = TRUE
    BY Zenon, <1>1, <2>1, <2>8, <2>9, <2>10
  <2>11. CASE s2.ok = FALSE
    <3>1. TablesAfter(v, 0, FALSE)
      BY Zenon, <2>8, <2>11 DEF TablesAfter
    <3> QED
      BY Zenon, <1>1, <2>9, <2>11, <3>1
  <2> QED
    BY Zenon, <2>9, <2>10, <2>11
<1>6. a.s.ok \in BOOLEAN
  BY Zenon, <1>2, Allocated
<1> QED
  BY Zenon, <1>4, <1>5, <1>6

\* What stays when memory has run out, or a step asks for no translation.
LEMMA SameWants ==
  ASSUME IInv, map' = map, Pml4' = Pml4, want' = want, heapPages' = heapPages, data \subseteq data',
         UNCHANGED call, pc' = pc \/ pc' = "done",
         tab' \in Mem, LastAddress' \in Frame, data' \subseteq 1 .. LastAddress',
         pc # "boot" \/ data' = data, Leveled', TranslationsAsAsked'
  PROVE  IInv'
<1>1. TypeOK'
  BY Zenon DEF IInv, TypeOK, Mem, call
<1>2. Progress'
  BY Zenon DEF IInv, Progress, call, LowMapped, KernelMapped, HhdmMapped
<1>3. Areas' /\ HeapPagesApart'
  BY Zenon DEF IInv, Areas, HeapPagesApart
<1> QED
  BY Zenon, <1>1, <1>2, <1>3 DEF IInv

\* A page that is mapped outside the heap.
LEMMA OutsideHeap ==
  ASSUME IInv, NEW v \in VPage, NEW p \in Int, TablesAfter(v, p, TRUE), UNCHANGED <<data, heapPages>>,
         v \notin HeapArea \cup {SystemData}, v \in LowArea(map) => p = v
  PROVE  Areas' /\ HeapPagesApart'
<1>1. \A u \in VPage : want'[u] = IF u = v THEN p ELSE want[u]
  BY Zenon DEF TablesAfter
<1>2. map' = map /\ map \in Maps
  BY Zenon DEF TablesAfter, IInv, TypeOK
<1>3. LowArea(map) \subseteq VPage /\ HeapArea \cup {SystemData} \subseteq VPage
  BY Zenon, <1>2, AreaFacts
<1>4. \A u \in HeapArea \cup {SystemData} : want'[u] = want[u]
  BY Zenon, <1>1, <1>3
<1>5. \A u \in LowArea(map') : want'[u] \in {Absent, u}
  BY <1>1, <1>2, <1>3 DEF IInv, Areas
<1>6. /\ \A u \in HeapArea \cup {SystemData} : want'[u] # Absent => want'[u] \in data'
      /\ heapPages' = -1 => \A u \in HeapArea \cup {SystemData} : want'[u] = Absent
      /\ \A u \in HeapArea : u >= HeapStart + heapPages' => want'[u] = Absent
  <2>1. HeapArea \subseteq HeapArea \cup {SystemData}
    BY Zenon
  <2> QED
    BY <1>4, <2>1, Zenon DEF IInv, Areas
<1>7. HeapPagesApart'
  BY <1>4, Zenon DEF IInv, HeapPagesApart
<1> QED
  BY Zenon, <1>5, <1>6, <1>7 DEF Areas

\* What CreatePTM has mapped stays mapped.
LEMMA GroundStays ==
  ASSUME IInv, pc = "up", pc' = "up", NEW v \in VPage, NEW p \in Int, TablesAfter(v, p, TRUE),
         (v \in LowArea(map) /\ p = v) \/ v \in HeapArea \cup {SystemData}
  PROVE  Progress'
<1> DEFINE full == GetFullSizeOfMemory(map)
<1>1. \A u \in VPage : want'[u] = IF u = v THEN p ELSE want[u]
  BY Zenon DEF TablesAfter
<1>2. map' = map /\ map \in Maps
  BY Zenon DEF TablesAfter, IInv, TypeOK
<1>3. LowMapped(full) /\ KernelMapped(KernelSize) /\ HhdmMapped(full)
  BY Zenon DEF IInv, Progress
<1>4. /\ LowArea(map) \subseteq VPage /\ HeapArea \cup {SystemData} \subseteq VPage
      /\ LowArea(map) \cap (HeapArea \cup {SystemData}) = {}
      /\ \A u \in 0 .. (full - 1) : u \in LowArea(map)
      /\ \A i \in 0 .. (KernelSize - 1) :
            VirtualKernelStart + i \in VPage \ (LowArea(map) \cup (HeapArea \cup {SystemData}))
      /\ \A u \in 0 .. (full - 1) :
            HHDM_Offset + u \in VPage \ (LowArea(map) \cup (HeapArea \cup {SystemData}))
  BY Zenon, <1>2, AreaFacts
<1>5. GetFullSizeOfMemory(map') = full
  BY Zenon, <1>2
<1> HIDE DEF full
<1>6. \A u \in 0 .. (full - 1) : want'[u] = u
  BY Zenon, <1>1, <1>3, <1>4 DEF LowMapped
<1>7. \A i \in 0 .. (KernelSize - 1) : want'[VirtualKernelStart + i] = PhysicalKernelStart + i
  <2>1. ASSUME NEW i \in 0 .. (KernelSize - 1)
        PROVE  VirtualKernelStart + i # v /\ VirtualKernelStart + i \in VPage
    BY Zenon, <1>4, <2>1
  <2> QED
    BY Zenon, <1>1, <1>3, <2>1 DEF KernelMapped
<1>8. \A u \in 0 .. (full - 1) : want'[HHDM_Offset + u] = u
  <2>1. ASSUME NEW u \in 0 .. (full - 1)
        PROVE  HHDM_Offset + u # v /\ HHDM_Offset + u \in VPage
    BY Zenon, <1>4, <2>1
  <2> QED
    BY Zenon, <1>1, <1>3, <2>1 DEF HhdmMapped
<1> QED
  BY Zenon, <1>5, <1>6, <1>7, <1>8 DEF Progress, LowMapped, KernelMapped, HhdmMapped

\* CreatePTM makes the root, an empty table.
LEMMA CreatePTMInv ==
  ASSUME IInv, NEW answered \in BOOLEAN, CreatePTM(answered)
  PROVE  IInv'
<1> DEFINE a == AllocateEmptyPage(Machine)
           full == GetFullSizeOfMemory(map)
<1>1. /\ Machine \in State /\ Machine.tab = tab /\ Machine.last = LastAddress
      /\ map \in Maps /\ tab \in Mem /\ LastAddress \in Nat /\ want \in [VPage -> Int]
  BY Zenon, MachineState
<1>2. /\ pc = "boot" /\ Pml4 = 0 /\ data = {} /\ heapPages = -1 /\ want = [v \in VPage |-> Absent]
      /\ UNCHANGED <<map, heapPages, want, data>>
  BY Zenon DEF CreatePTM, IInv, TypeOK
<1>3. full \in Nat /\ LowArea(map) \subseteq VPage /\ HeapArea \cup {SystemData} \subseteq VPage
  BY Zenon, <1>1, AreaFacts
<1>4. Areas' /\ HeapPagesApart'
  BY Zenon, <1>2 DEF IInv, Areas, HeapPagesApart
<1>5. CASE ~answered
  <2>1. pc' = "done" /\ UNCHANGED <<tab, LastAddress, Pml4, call>>
    BY Zenon, <1>5 DEF CreatePTM
  <2>2. TypeOK'
    BY Zenon, <1>2, <2>1 DEF IInv, TypeOK, call
  <2>3. Leveled' /\ TranslationsAsAsked' /\ Progress'
    BY Zenon, <1>2, <2>1 DEF Leveled, TranslationsAsAsked, Progress
  <2> QED
    BY Zenon, <1>4, <2>2, <2>3 DEF IInv
<1>6. CASE answered
  <2>1. /\ tab' = a.s.tab /\ LastAddress' = a.s.last /\ pc' = IF a.s.ok THEN "identity" ELSE "done"
        /\ Pml4' = a.page /\ CurrentVirtualPage' = 0 /\ CurrentPhysicalPage' = 0 /\ end' = 0 + full
    BY Zenon, <1>6 DEF CreatePTM, Becomes, StartMapping
  <2>2. CASE a.s.ok = FALSE
    <3>1. a = [page |-> 0, s |-> a.s] /\ a.s.tab = tab /\ a.s.last = LastAddress
      BY Zenon, <1>1, <2>2, Allocated
    <3>2. a.page = 0
      BY <3>1
    <3> HIDE DEF a
    <3>3. TypeOK'
      BY <1>2, <1>3, <2>1, <2>2, <3>1 DEF IInv, TypeOK
    <3>4. Leveled' /\ TranslationsAsAsked' /\ Progress'
      BY Zenon, <2>1, <2>2, <3>2 DEF Leveled, TranslationsAsAsked, Progress
    <3> QED
      BY Zenon, <1>4, <3>3, <3>4 DEF IInv
  <2>3. CASE a.s.ok = TRUE
    <3> DEFINE p == a.page
               lvl == [t \in Frame |-> IF t = p THEN 4 ELSE 0]
    <3>1. /\ p \in Frame /\ p > LastAddress /\ p \in UsablePages(map)
          /\ a.s \in State /\ a.s.tab = [tab EXCEPT ![p] = EmptyTable] /\ a.s.last = p
      BY Zenon, <1>1, <2>3, Allocated
    <3> HIDE DEF a, full
    <3>2. /\ tab' = [tab EXCEPT ![p] = EmptyTable] /\ tab' \in Mem /\ Pml4' = p /\ LastAddress' = p
          /\ pc' = "identity" /\ p \in Nat /\ p # 0 /\ end' = full
      <4>1. tab' = a.s.tab /\ tab' = [tab EXCEPT ![p] = EmptyTable] /\ LastAddress' = p /\ Pml4' = p
        BY Zenon, <2>1, <3>1
      <4>2. a.s.tab \in Mem
        BY Zenon, <3>1 DEF State
      <4>3. p \in Nat /\ p # 0
        <5>1. p \in Frame /\ p > LastAddress /\ LastAddress \in Nat
          BY Zenon, <1>1, <3>1
        <5> HIDE DEF p
        <5> QED
          BY <5>1, Pages
      <4>4. pc' = "identity" /\ end' = full
        BY <1>3, <2>1, <2>3
      <4> QED
        BY Zenon, <4>1, <4>2, <4>3, <4>4
    <3>3. \A i \in Index : tab'[p][i] = Absent
      BY Zenon, <1>1, <3>1, <3>2 DEF Mem, EmptyTable
    <3>4. Tree(tab', Pml4', LastAddress', data', lvl)
      <4>1. /\ lvl \in [Frame -> 0 .. 4] /\ lvl[p] = 4
            /\ \A t \in Frame : lvl[t] > 0 => t = p
        BY <3>1
      <4> HIDE DEF lvl, p
      <4>2. \A t \in Frame : lvl[t] > 0 => t \in UsablePages(map) /\ 0 < t /\ t <= LastAddress' /\ t \notin data'
        BY <1>2, <3>1, <3>2, <4>1
      <4>3. \A t \in Frame, i \in Index : lvl[t] > 1 => tab'[t][i] = Absent
        BY <3>3, <4>1
      <4> QED
        BY Zenon, <3>1, <3>2, <4>1, <4>2, <4>3 DEF Tree
    <3>5. Leveled'
      BY Zenon, <1>2, <3>4, TreeAfter
    <3>6. TranslationsAsAsked'
      <4> SUFFICES ASSUME NEW v \in VPage
                   PROVE  Walk0(tab', p, v) = Absent
        BY Zenon, <1>2, <3>2, Translates DEF TranslationsAsAsked
      <4>1. Walk3(tab', p, v) = Absent
        BY Zenon, <3>1, <3>3, IndexType, Pages DEF Walk3, At
      <4> QED
        BY Zenon, <4>1 DEF Walk0, Walk1, Walk2, At
    <3>7. TypeOK'
      BY Zenon, <1>2, <1>3, <2>1, <3>1, <3>2 DEF IInv, TypeOK, Mem
    <3>8. Progress'
      BY <1>2, <1>3, <2>1 DEF Progress, LowMapped, full
    <3> QED
      BY Zenon, <1>4, <3>5, <3>6, <3>7, <3>8 DEF IInv
  <2>4. a.s.ok \in BOOLEAN
    BY Zenon, <1>1, Allocated
  <2> QED
    BY Zenon, <2>2, <2>3, <2>4
<1> QED
  BY Zenon, <1>5, <1>6

\* One page more is mapped of what CreatePTM maps.
LEMMA MapProgress ==
  ASSUME IInv, Mapping, CurrentPhysicalPage < end, pc' = pc, end' = end,
         TablesAfter(CurrentVirtualPage, CurrentPhysicalPage, TRUE),
         CurrentVirtualPage' = CurrentVirtualPage + 1, CurrentPhysicalPage' = CurrentPhysicalPage + 1
  PROVE  Progress'
<1> DEFINE v == CurrentVirtualPage
           p == CurrentPhysicalPage
           full == GetFullSizeOfMemory(map)
           heap == HeapArea \cup {SystemData}
           low == LowArea(map)
           done == p - PhysicalKernelStart
<1>1. map' = map /\ \A u \in VPage : want'[u] = IF u = v THEN p ELSE want[u]
  BY Zenon DEF TablesAfter
<1>2. map \in Maps /\ p \in Nat /\ v \in Nat /\ end \in Nat /\ p < end
  BY Zenon DEF IInv, TypeOK
<1>3. /\ full \in Nat /\ KernelSize \in Nat /\ PhysicalKernelStart \in Nat
      /\ VirtualKernelStart \in Nat /\ HHDM_Offset \in Nat
      /\ low \subseteq VPage
      /\ \A u \in 0 .. (full - 1) : u \in low
      /\ \A i \in 0 .. (KernelSize - 1) : VirtualKernelStart + i \in VPage \ (low \cup heap)
      /\ \A u \in 0 .. (full - 1) : HHDM_Offset + u \in VPage \ (low \cup heap)
      /\ \A i \in 0 .. (KernelSize - 1), u \in 0 .. (full - 1) :
            HHDM_Offset + u # VirtualKernelStart + i
  BY Zenon, <1>2, AreaFacts
<1>4. /\ pc = "identity" => v = p /\ end = full /\ LowMapped(p)
      /\ pc = "kernel" => /\ v = VirtualKernelStart + done
                          /\ end = PhysicalKernelStart + KernelSize /\ done \in 0 .. KernelSize
                          /\ LowMapped(full) /\ KernelMapped(done)
      /\ pc = "hhdm" => /\ v = HHDM_Offset + p /\ end = full
                        /\ LowMapped(full) /\ KernelMapped(KernelSize) /\ HhdmMapped(p)
  BY Zenon DEF IInv, Progress
<1>5. GetFullSizeOfMemory(map') = full /\ v' = v + 1 /\ p' = p + 1
  BY Zenon, <1>1
<1>6. \A u \in 0 .. (full - 1) : u \in VPage /\ u \in low
  BY Zenon, <1>3
<1> HIDE DEF v, p, full, heap, low
<1>7. CASE pc = "identity"
  <2>1. \A u \in 0 .. ((p + 1) - 1) : want'[u] = u
    <3>1. ASSUME NEW u \in 0 .. ((p + 1) - 1)
          PROVE  want'[u] = u
      <4>1. u \in VPage
        BY <1>2, <1>4, <1>6, <1>7
      <4>2. u # p => want[u] = u
        BY SMTT(30), <1>2, <1>4, <1>7 DEF LowMapped
      <4> QED
        BY Zenon, <1>1, <1>4, <1>7, <4>1, <4>2
    <3> QED
      BY Zenon, <3>1
  <2> QED
    BY <1>2, <1>4, <1>5, <1>7, <2>1 DEF Progress, LowMapped, v, p
<1>8. CASE pc = "kernel"
  <2>1. done \in 0 .. (KernelSize - 1) /\ v \in VPage \ low
    <3>1. done \in 0 .. (KernelSize - 1)
      BY <1>2, <1>3, <1>4, <1>8
    <3> QED
      BY Zenon, <1>3, <1>4, <1>8, <3>1
  <2>2. \A u \in 0 .. (full - 1) : want'[u] = u
    BY Zenon, <1>1, <1>4, <1>6, <1>8, <2>1 DEF LowMapped
  <2>3. \A i \in 0 .. ((done + 1) - 1) : want'[VirtualKernelStart + i] = PhysicalKernelStart + i
    <3>1. ASSUME NEW i \in 0 .. ((done + 1) - 1)
          PROVE  want'[VirtualKernelStart + i] = PhysicalKernelStart + i
      <4>1. i \in Int /\ VirtualKernelStart + i \in VPage
        BY <1>3, <2>1
      <4>2. i # done => want[VirtualKernelStart + i] = PhysicalKernelStart + i
        BY <1>4, <1>8 DEF KernelMapped
      <4>3. i # done => VirtualKernelStart + i # v
        BY SMTT(30), <1>3, <1>4, <1>8
      <4> QED
        BY SMTT(30), <1>1, <1>2, <1>3, <1>4, <1>8, <4>2
    <3> QED
      BY Zenon, <3>1
  <2>4. p' - PhysicalKernelStart = done + 1 /\ v' = VirtualKernelStart + (done + 1)
    BY SMTT(30), <1>2, <1>3, <1>4, <1>5, <1>8
  <2> QED
    BY SMTT(30), <1>3, <1>4, <1>5, <1>8, <2>1, <2>2, <2>3, <2>4 DEF Progress, LowMapped, KernelMapped, v, p
<1>9. CASE pc = "hhdm"
  <2>1. p \in 0 .. (full - 1) /\ v \in VPage \ low
    <3>1. p \in 0 .. (full - 1)
      BY <1>2, <1>4, <1>9
    <3> QED
      BY Zenon, <1>3, <1>4, <1>9, <3>1
  <2>2. \A u \in 0 .. (full - 1) : want'[u] = u
    BY Zenon, <1>1, <1>4, <1>6, <1>9, <2>1 DEF LowMapped
  <2>3. \A i \in 0 .. (KernelSize - 1) : want'[VirtualKernelStart + i] = PhysicalKernelStart + i
    <3>1. ASSUME NEW i \in 0 .. (KernelSize - 1)
          PROVE  VirtualKernelStart + i # v /\ VirtualKernelStart + i \in VPage
      BY Zenon, <1>3, <1>4, <1>9, <2>1, <3>1
    <3> QED
      BY Zenon, <1>1, <1>4, <1>9, <3>1 DEF KernelMapped
  <2>4. \A u \in 0 .. ((p + 1) - 1) : want'[HHDM_Offset + u] = u
    <3>1. ASSUME NEW u \in 0 .. ((p + 1) - 1)
          PROVE  want'[HHDM_Offset + u] = u
      <4>1. u \in Int /\ HHDM_Offset + u \in VPage
        BY <1>3, <2>1
      <4>2. u # p => want[HHDM_Offset + u] = u
        BY SMTT(30), <1>2, <1>4, <1>9 DEF HhdmMapped
      <4>3. u # p => HHDM_Offset + u # v
        BY <1>2, <1>3, <1>4, <1>9
      <4> QED
        BY Zenon, <1>1, <1>4, <1>9, <4>1, <4>2, <4>3
    <3> QED
      BY Zenon, <3>1
  <2> QED
    BY SMTT(30), <1>3, <1>4, <1>5, <1>9, <2>1, <2>2, <2>3, <2>4
    DEF Progress, LowMapped, KernelMapped, HhdmMapped, v, p
<1> QED
  BY Zenon, <1>7, <1>8, <1>9 DEF Mapping

\* A call of MapPage that ran out of memory.
LEMMA Halts ==
  ASSUME IInv, pc # "boot", NEW v, NEW p, TablesAfter(v, p, FALSE), pc' = "done",
         Pml4' = Pml4, heapPages' = heapPages, data \subseteq data', UNCHANGED call
  PROVE  IInv'
<1>1. /\ map' = map /\ tab' \in Mem /\ LastAddress' \in Frame /\ data' \subseteq 1 .. LastAddress'
      /\ Leveled' /\ TranslationsAsAsked' /\ want' = want
  BY Zenon DEF TablesAfter
<1> QED
  BY Zenon, <1>1, SameWants

\* The page MapMemory maps next lies outside the heap, and in the area below
\* the kernel only when it is mapped where it lies.
LEMMA NextPage ==
  ASSUME IInv, Mapping, CurrentPhysicalPage < end
  PROVE  /\ CurrentVirtualPage \in VPage /\ CurrentPhysicalPage \in Nat
         /\ CurrentVirtualPage \notin HeapArea \cup {SystemData}
         /\ CurrentVirtualPage \in LowArea(map) => CurrentPhysicalPage = CurrentVirtualPage
<1> DEFINE full == GetFullSizeOfMemory(map)
           heap == HeapArea \cup {SystemData}
           low == LowArea(map)
           done == CurrentPhysicalPage - PhysicalKernelStart
<1>1. map \in Maps /\ CurrentPhysicalPage \in Nat /\ CurrentVirtualPage \in Nat /\ end \in Nat
  BY Zenon DEF IInv, TypeOK
<1>2. /\ full \in Nat /\ KernelSize \in Nat /\ PhysicalKernelStart \in Nat
      /\ low \subseteq VPage /\ low \cap heap = {}
      /\ \A u \in 0 .. (full - 1) : u \in low
      /\ \A i \in 0 .. (KernelSize - 1) : VirtualKernelStart + i \in VPage \ (low \cup heap)
      /\ \A u \in 0 .. (full - 1) : HHDM_Offset + u \in VPage \ (low \cup heap)
  BY Zenon, <1>1, AreaFacts
<1>3. /\ pc = "identity" => CurrentVirtualPage = CurrentPhysicalPage /\ end = full
      /\ pc = "kernel" => /\ CurrentVirtualPage = VirtualKernelStart + done
                          /\ end = PhysicalKernelStart + KernelSize /\ done \in 0 .. KernelSize
      /\ pc = "hhdm" => CurrentVirtualPage = HHDM_Offset + CurrentPhysicalPage /\ end = full
  BY Zenon DEF IInv, Progress
<1> HIDE DEF full, heap, low
<1>4. CASE pc = "identity"
  BY <1>1, <1>2, <1>3, <1>4 DEF heap
<1>5. CASE pc = "kernel"
  <2>1. done \in 0 .. (KernelSize - 1)
    BY <1>1, <1>2, <1>3, <1>5
  <2>2. CurrentVirtualPage \in VPage \ (low \cup heap)
    BY Zenon, <1>2, <1>3, <1>5, <2>1
  <2> QED
    BY Zenon, <1>1, <2>2 DEF heap, low
<1>6. CASE pc = "hhdm"
  <2>1. CurrentPhysicalPage \in 0 .. (full - 1)
    BY <1>1, <1>3, <1>6
  <2>2. CurrentVirtualPage \in VPage \ (low \cup heap)
    BY Zenon, <1>2, <1>3, <1>6, <2>1
  <2> QED
    BY Zenon, <1>1, <2>2 DEF heap, low
<1> QED
  BY Zenon, <1>4, <1>5, <1>6 DEF Mapping

\* A turn of MapMemory's loop in CreatePTM.
LEMMA MapMemoryIterateInv ==
  ASSUME IInv, MapMemoryIterate
  PROVE  IInv'
<1> DEFINE v == CurrentVirtualPage
           p == CurrentPhysicalPage
           s2 == MapPage(Machine, Pml4, v, p)
<1>1. /\ Mapping /\ p < end /\ UNCHANGED <<map, Pml4, end, heapPages, data>>
      /\ tab' = s2.tab /\ LastAddress' = s2.last /\ pc' = IF s2.ok THEN pc ELSE "done"
      /\ want' = IF s2.ok THEN [want EXCEPT ![v] = p] ELSE want
      /\ s2.ok => CurrentVirtualPage' = v + 1 /\ CurrentPhysicalPage' = p + 1
      /\ ~s2.ok => UNCHANGED <<CurrentVirtualPage, CurrentPhysicalPage>>
  BY Zenon DEF MapMemoryIterate, Becomes
<1>2. /\ v \in VPage /\ p \in Nat /\ p \in Int /\ v \notin HeapArea \cup {SystemData}
      /\ v \in LowArea(map) => p = v
  BY <1>1, NextPage
<1>3. Pml4 # NULL /\ pc # "boot" /\ pc # "done" /\ pc # "up" /\ v \in Nat /\ end \in Nat
  BY Zenon, <1>1 DEF Mapping, IInv, TypeOK
<1> HIDE DEF v, p
<1>4. TablesAfter(v, p, s2.ok)
  BY Zenon, <1>1, <1>2, <1>3, MapPlain
<1> HIDE DEF s2
<1>5. s2.ok \in BOOLEAN
  BY Zenon, <1>4 DEF TablesAfter
<1>6. CASE s2.ok = FALSE
  BY Zenon, <1>1, <1>3, <1>4, <1>6, Halts DEF call
<1>7. CASE s2.ok = TRUE
  <2>1. TablesAfter(v, p, TRUE)
    BY Zenon, <1>4, <1>7
  <2>2. Areas' /\ HeapPagesApart'
    BY Zenon, <1>1, <1>2, <2>1, OutsideHeap
  <2>3. /\ map' = map /\ tab' \in Mem /\ LastAddress' \in Frame /\ data' \subseteq 1 .. LastAddress'
        /\ Leveled' /\ TranslationsAsAsked' /\ want' \in [VPage -> Int]
    BY Zenon, <2>1 DEF TablesAfter
  <2>4. TypeOK'
    BY <1>1, <1>2, <1>3, <2>3 DEF IInv, TypeOK, Mem
  <2>5. Progress'
    BY Zenon, <1>1, <1>2, <1>3, <1>7, <2>1, MapProgress DEF v, p
  <2> QED
    BY Zenon, <2>2, <2>3, <2>4, <2>5 DEF IInv
<1> QED
  BY Zenon, <1>5, <1>6, <1>7

\* MapMemory returns; CreatePTM goes on.
LEMMA MapMemoryReturnInv ==
  ASSUME IInv, MapMemoryReturn
  PROVE  IInv'
<1> DEFINE full == GetFullSizeOfMemory(map)
<1>1. /\ UNCHANGED <<map, tab, LastAddress, Pml4, heapPages, want, data>>
      /\ CurrentPhysicalPage >= end /\ Mapping
  BY Zenon DEF MapMemoryReturn
<1>2. /\ map \in Maps /\ CurrentPhysicalPage \in Nat /\ end \in Nat /\ Pml4 # NULL
  BY Zenon, <1>1 DEF IInv, TypeOK, Mapping
<1>3. /\ full \in Nat /\ KernelSize \in Nat /\ PhysicalKernelStart \in Nat
      /\ VirtualKernelStart \in Nat /\ HHDM_Offset \in Nat
  BY Zenon, <1>2, AreaFacts
<1>4. Leveled' /\ TranslationsAsAsked' /\ Areas' /\ HeapPagesApart'
  <2>1. Leveled'
    <3>1. PICK lvl : Tree(tab, Pml4, LastAddress, data, lvl)
      BY Zenon, <1>2, MachineState
    <3> QED
      BY Zenon, <1>1, <3>1, TreeAfter
  <2>2. TranslationsAsAsked'
    BY Zenon, <1>1, Translates DEF IInv, TranslationsAsAsked
  <2>3. Areas' /\ HeapPagesApart'
    BY Zenon, <1>1 DEF IInv, Areas, HeapPagesApart
  <2> QED
    BY Zenon, <2>1, <2>2, <2>3
<1>5. GetFullSizeOfMemory(map') = full
  BY Zenon, <1>1
<1>6. \/ pc = "identity" /\ pc' = "kernel" /\ CurrentVirtualPage' = VirtualKernelStart
         /\ CurrentPhysicalPage' = PhysicalKernelStart /\ end' = PhysicalKernelStart + KernelSize
      \/ pc = "kernel" /\ pc' = "hhdm" /\ CurrentVirtualPage' = HHDM_Offset
         /\ CurrentPhysicalPage' = 0 /\ end' = 0 + full
      \/ pc = "hhdm" /\ pc' = "up" /\ UNCHANGED call
  BY Zenon DEF MapMemoryReturn, StartMapping
<1>7. TypeOK'
  BY <1>1, <1>3, <1>6 DEF IInv, TypeOK, call
<1> HIDE DEF full
<1>8. Progress'
  <2>1. CASE pc = "identity"
    <3>1. LowMapped(full)
      <4>1. LowMapped(CurrentPhysicalPage) /\ CurrentPhysicalPage <= full /\ end = full
        BY Zenon, <2>1 DEF IInv, Progress, full
      <4> QED
        BY <1>1, <1>2, <4>1
    <3> QED
      BY <1>1, <1>3, <1>5, <1>6, <2>1, <3>1 DEF Progress, LowMapped, KernelMapped
  <2>2. CASE pc = "kernel"
    <3>1. LowMapped(full) /\ KernelMapped(KernelSize)
      <4>1. LET done == CurrentPhysicalPage - PhysicalKernelStart
            IN  /\ end = PhysicalKernelStart + KernelSize /\ done \in 0 .. KernelSize
                /\ LowMapped(full) /\ KernelMapped(done)
        BY Zenon, <2>2 DEF IInv, Progress, full
      <4>2. CurrentPhysicalPage - PhysicalKernelStart = KernelSize
        BY <1>1, <1>2, <1>3, <4>1
      <4> QED
        BY Zenon, <4>1, <4>2
    <3> QED
      BY <1>1, <1>3, <1>5, <1>6, <2>2, <3>1 DEF Progress, LowMapped, KernelMapped, HhdmMapped
  <2>3. CASE pc = "hhdm"
    <3>1. LowMapped(full) /\ KernelMapped(KernelSize) /\ HhdmMapped(full)
      <4>1. /\ LowMapped(full) /\ KernelMapped(KernelSize)
            /\ HhdmMapped(CurrentPhysicalPage) /\ CurrentPhysicalPage <= full /\ end = full
        BY Zenon, <2>3 DEF IInv, Progress, full
      <4>2. CurrentPhysicalPage = full
        BY <1>1, <1>2, <4>1
      <4> QED
        BY Zenon, <4>1, <4>2
    <3> QED
      BY Zenon, <1>1, <1>5, <1>6, <2>3, <3>1 DEF Progress, LowMapped, KernelMapped, HhdmMapped
  <2> QED
    BY Zenon, <1>6, <2>1, <2>2, <2>3
<1> QED
  BY Zenon, <1>4, <1>7, <1>8 DEF IInv

\* A page that is allocated and mapped for the heap.
LEMMA MapFreshInv ==
  ASSUME IInv, pc = "up", NEW v \in HeapArea \cup {SystemData}, MapFresh(v),
         UNCHANGED <<map, Pml4, call>>,
         heapPages' = IF pc' = "up" THEN heapPages + 1 ELSE heapPages,
         heapPages = -1 => v = SystemData,
         heapPages >= 0 => v = HeapStart + heapPages /\ heapPages < MaxHeap
  PROVE  IInv'
<1> DEFINE heap == HeapArea \cup {SystemData}
<1>1. Pml4 # NULL /\ map \in Maps /\ LastAddress \in Nat /\ heapPages \in -1 .. MaxHeap
  BY Zenon, MachineState DEF IInv, TypeOK
<1>2. /\ heap \subseteq VPage /\ VPage \subseteq Nat /\ LowArea(map) \subseteq VPage
      /\ LowArea(map) \cap heap = {} /\ SystemData \notin HeapArea /\ HeapStart \in Nat
      /\ HeapArea \subseteq heap /\ SystemData \in heap /\ MaxHeap \in Nat
  BY Zenon, <1>1, AreaFacts
<1>3. v \in VPage
  BY Zenon, <1>2
<1>4. \/ /\ TablesAfter(v, 0, FALSE) /\ pc' = "done" /\ data \subseteq data'
      \/ \E p \in data' : /\ TablesAfter(v, p, TRUE) /\ pc' = "up" /\ p > LastAddress
                          /\ data \subseteq data'
  BY Zenon, <1>1, <1>3, MapFreshStep
<1>5. CASE TablesAfter(v, 0, FALSE) /\ pc' = "done" /\ data \subseteq data'
  BY Zenon, <1>5, Halts
<1>6. ASSUME NEW p \in data', TablesAfter(v, p, TRUE), pc' = "up", p > LastAddress, data \subseteq data'
      PROVE  IInv'
  <2>1. /\ map' = map /\ tab' \in Mem /\ LastAddress' \in Frame /\ data' \subseteq 1 .. LastAddress'
        /\ Leveled' /\ TranslationsAsAsked' /\ want' \in [VPage -> Int]
    BY Zenon, <1>6 DEF TablesAfter
  <2>2. p \in Nat /\ p \in Int /\ p # Absent
    <3>1. LastAddress' \in Nat
      BY Zenon, <2>1, Pages
    <3> QED
      BY <2>1 DEF Absent
  <2>3. Progress'
    BY Zenon, <1>3, <1>6, <2>2, GroundStays
  <2>4. heapPages' = heapPages + 1
    BY Zenon, <1>6
  <2>5. heapPages' \in -1 .. MaxHeap
    BY <1>1, <1>2
  <2>6. TypeOK'
    BY Zenon, <1>1, <1>6, <2>1, <2>5 DEF IInv, TypeOK, Mem, call
  <2>7. \A u \in VPage : want'[u] = IF u = v THEN p ELSE want[u]
    BY Zenon, <1>6 DEF TablesAfter
  <2>8. \A u \in heap : want[u] # Absent => want[u] \in data
    BY Zenon DEF IInv, Areas
  <2>9. \A u \in heap : want'[u] = IF u = v THEN p ELSE want[u]
    BY Zenon, <1>2, <2>7
  <2> HIDE DEF heap
  <2>10. HeapPagesApart'
    <3>1. \A x \in data : x # p
      BY <1>6, MachineState
    <3>2. \A u, w \in heap : u # w /\ want[u] # Absent => want[u] # want[w]
      BY Zenon DEF IInv, HeapPagesApart, heap
    <3>3. \A u \in heap : want[u] # p
      BY Zenon, <2>2, <2>8, <3>1
    <3>4. ASSUME NEW u \in heap, NEW w \in heap, u # w, want'[u] # Absent
          PROVE  want'[u] # want'[w]
      BY Zenon, <2>9, <3>2, <3>3, <3>4
    <3> QED
      BY Zenon, <3>4 DEF HeapPagesApart, heap
  <2>11. Areas'
    <3>1. \A u \in LowArea(map') : want'[u] \in {Absent, u}
      <4>1. \A u \in LowArea(map) : u # v /\ u \in VPage
        BY Zenon, <1>2 DEF heap
      <4> QED
        BY Zenon, <2>1, <2>7, <4>1 DEF IInv, Areas
    <3>2. \A u \in heap : want'[u] # Absent => want'[u] \in data'
      BY Zenon, <1>6, <2>8, <2>9
    <3>3. ASSUME NEW u \in HeapArea, u >= HeapStart + heapPages'
          PROVE  want'[u] = Absent
      <4>1. u \in heap /\ u \in Nat
        BY Zenon, <1>2, <3>3
      <4>2. u # v
        BY <1>1, <1>2, <2>4, <3>3
      <4>3. want[u] = Absent
        <5>1. u >= HeapStart + heapPages
          BY <1>1, <1>2, <3>3
        <5> QED
          BY Zenon, <3>3, <5>1 DEF IInv, Areas
      <4> QED
        BY Zenon, <2>9, <4>1, <4>2, <4>3
    <3>4. heapPages' # -1
      BY <1>1, <2>4
    <3> QED
      BY Zenon, <3>1, <3>2, <3>3, <3>4 DEF Areas, heap
  <2> QED
    BY Zenon, <2>1, <2>3, <2>6, <2>10, <2>11 DEF IInv
<1> QED
  BY Zenon, <1>4, <1>5, <1>6

\* CreateHeap maps the page of system data.
LEMMA MapSystemDataInv ==
  ASSUME IInv, MapSystemData
  PROVE  IInv'
<1>1. /\ pc = "up" /\ heapPages = -1 /\ MapFresh(SystemData) /\ UNCHANGED <<map, Pml4, call>>
      /\ heapPages' = IF pc' = "up" THEN heapPages + 1 ELSE heapPages
  BY DEF MapSystemData
<1> QED
  BY <1>1, MapFreshInv

\* The heap grows by a page.
LEMMA MapHeapPageInv ==
  ASSUME IInv, MapHeapPage
  PROVE  IInv'
<1>1. /\ pc = "up" /\ heapPages \in 0 .. (MaxHeap - 1) /\ MapFresh(HeapStart + heapPages)
      /\ UNCHANGED <<map, Pml4, call>>
      /\ heapPages' = IF pc' = "up" THEN heapPages + 1 ELSE heapPages
  BY Zenon DEF MapHeapPage
<1>2. /\ HeapStart + heapPages \in HeapArea \cup {SystemData}
      /\ heapPages # -1 /\ heapPages < MaxHeap
  BY <1>1, PtmAssumption DEF HeapArea
<1> QED
  BY Zenon, <1>1, <1>2, MapFreshInv

\* The AHCI driver maps a page where it is.
LEMMA MapDeviceInv ==
  ASSUME IInv, NEW p \in Devices, MapDevice(p)
  PROVE  IInv'
<1> DEFINE s2 == MapPage(Machine, Pml4, p, p)
<1>1. /\ pc = "up" /\ UNCHANGED <<map, Pml4, call, heapPages, data>>
      /\ tab' = s2.tab /\ LastAddress' = s2.last /\ pc' = IF s2.ok THEN "up" ELSE "done"
      /\ want' = IF s2.ok THEN [want EXCEPT ![p] = p] ELSE want
  BY Zenon DEF MapDevice, Becomes
<1>2. Pml4 # NULL /\ map \in Maps
  BY Zenon, <1>1 DEF IInv, TypeOK
<1>3. /\ p \in VPage /\ p \in Int /\ p \in LowArea(map)
      /\ p \notin HeapArea \cup {SystemData}
  BY <1>2, AreaFacts
<1>4. TablesAfter(p, p, s2.ok)
  BY Zenon, <1>1, <1>2, <1>3, MapPlain
<1> HIDE DEF s2
<1>5. s2.ok \in BOOLEAN
  BY Zenon, <1>4 DEF TablesAfter
<1>6. CASE s2.ok = FALSE
  BY Zenon, <1>1, <1>4, <1>6, Halts
<1>7. CASE s2.ok = TRUE
  <2>1. TablesAfter(p, p, TRUE)
    BY Zenon, <1>4, <1>7
  <2>2. Areas' /\ HeapPagesApart'
    BY Zenon, <1>1, <1>3, <2>1, OutsideHeap
  <2>3. /\ map' = map /\ tab' \in Mem /\ LastAddress' \in Frame /\ data' \subseteq 1 .. LastAddress'
        /\ Leveled' /\ TranslationsAsAsked' /\ want' \in [VPage -> Int]
    BY Zenon, <2>1 DEF TablesAfter
  <2>4. TypeOK'
    BY Zenon, <1>1, <1>7, <2>3 DEF IInv, TypeOK, Mem, call
  <2>5. Progress'
    BY Zenon, <1>1, <1>3, <1>7, <2>1, GroundStays
  <2> QED
    BY Zenon, <2>2, <2>3, <2>4, <2>5 DEF IInv
<1> QED
  BY Zenon, <1>5, <1>6, <1>7

\* A write to a page that is no table.
LEMMA WriteOffTree ==
  ASSUME IInv, Pml4 # NULL, UNCHANGED <<map, Pml4, want>>,
         NEW q \in Frame, tab' \in Mem, \A t \in Frame : t # q => tab'[t] = tab[t],
         q \in data \/ q > LastAddress,
         LastAddress' \in Frame, LastAddress <= LastAddress',
         \A x \in data' : x \in data \/ x > LastAddress
  PROVE  Leveled' /\ TranslationsAsAsked'
<1>1. tab \in Mem /\ LastAddress \in Nat /\ LastAddress' \in Nat
  BY Zenon, MachineState, Pages
<1>2. PICK lvl : Tree(tab, Pml4, LastAddress, data, lvl)
  BY Zenon, MachineState
<1>3. \A t \in Frame : lvl[t] > 0 => t # q
  BY <1>1, <1>2 DEF Tree
<1>4. \A t \in Frame : lvl[t] > 0 => tab'[t] = tab[t]
  BY Zenon, <1>3
<1>5. /\ Tree(tab', Pml4, LastAddress', data', lvl)
      /\ \A v \in VPage : Walk0(tab', Pml4, v) = Walk0(tab, Pml4, v)
  BY <1>1, <1>2, <1>4, OffTree
<1>6. Leveled'
  BY Zenon, <1>5, TreeAfter
<1>7. TranslationsAsAsked'
  BY Zenon, <1>5, Translates DEF IInv, TranslationsAsAsked
<1> QED
  BY Zenon, <1>6, <1>7

\* A page is allocated for a buffer.
LEMMA AllocateBufferInv ==
  ASSUME IInv, AllocateBuffer
  PROVE  IInv'
<1> DEFINE a == AllocateEmptyPage(Machine)
<1>1. /\ pc = "up" /\ UNCHANGED <<map, Pml4, call, heapPages, want>>
      /\ tab' = a.s.tab /\ LastAddress' = a.s.last /\ pc' = IF a.s.ok THEN "up" ELSE "done"
      /\ data' = IF a.s.ok THEN data \cup {a.page} ELSE data
  BY Zenon DEF AllocateBuffer, Becomes
<1>2. /\ Machine \in State /\ Machine.tab = tab /\ Machine.last = LastAddress
      /\ map \in Maps /\ LastAddress \in Nat /\ tab \in Mem
      /\ \A x \in data : x \in Nat /\ x > 0 /\ x <= LastAddress
  BY Zenon, MachineState
<1>3. Pml4 # NULL /\ LastAddress \in Frame
  BY Zenon, <1>1 DEF IInv, TypeOK
<1>4. \/ /\ a.page \in Frame /\ a.page > LastAddress
         /\ a.s.tab = [tab EXCEPT ![a.page] = EmptyTable]
         /\ a.s.last = a.page /\ a.s.ok = TRUE
      \/ /\ a.s.tab = tab /\ a.s.last = LastAddress /\ a.s.ok = FALSE
  BY Zenon, <1>2, Allocated
<1>5. EmptyTable \in [Index -> Int]
  BY Zenon, Pages DEF EmptyTable
<1> HIDE DEF a
<1>6. CASE a.s.ok = TRUE
  <2>1. /\ a.page \in Frame /\ a.page > LastAddress /\ LastAddress' = a.page
        /\ tab' = [tab EXCEPT ![a.page] = EmptyTable] /\ data' = data \cup {a.page} /\ pc' = "up"
    BY Zenon, <1>1, <1>4, <1>6
  <2>2. /\ LastAddress <= LastAddress' /\ LastAddress' \in Frame
        /\ \A x \in data' : x \in data \/ x > LastAddress
        /\ data \subseteq data' /\ data' \subseteq 1 .. LastAddress'
    <3> DEFINE p == a.page
    <3>1. p \in Frame /\ p > LastAddress /\ LastAddress' = p /\ data' = data \cup {p}
      BY Zenon, <2>1
    <3> HIDE DEF p
    <3> QED
      BY <1>2, <3>1, Pages
  <2>3. tab' \in Mem /\ \A t \in Frame : t # a.page => tab'[t] = tab[t]
    BY Zenon, <1>2, <1>5, <2>1 DEF Mem
  <2>4. Leveled' /\ TranslationsAsAsked'
    BY Zenon, <1>1, <1>3, <2>1, <2>2, <2>3, WriteOffTree
  <2> QED
    BY Zenon, <1>1, <2>1, <2>2, <2>3, <2>4, SameWants
<1>7. CASE a.s.ok = FALSE
  <2>1. tab' = tab /\ LastAddress' = LastAddress /\ data' = data /\ pc' = "done"
    BY Zenon, <1>1, <1>4, <1>7
  <2>2. TablesAfter(0, 0, FALSE)
    <3>1. PICK lvl : Tree(tab, Pml4, LastAddress, data, lvl)
      BY Zenon, <1>3, MachineState
    <3>2. Leveled'
      BY Zenon, <1>1, <2>1, <3>1, TreeAfter
    <3>3. TranslationsAsAsked'
      BY Zenon, <1>1, <2>1, Translates DEF IInv, TranslationsAsAsked
    <3> QED
      BY Zenon, <1>1, <1>2, <1>3, <2>1, <3>2, <3>3 DEF TablesAfter, IInv, TypeOK
  <2> QED
    BY Zenon, <1>1, <2>1, <2>2, Halts
<1> QED
  BY Zenon, <1>4, <1>6, <1>7

\* A page of data is written.
LEMMA WriteDataInv ==
  ASSUME IInv, NEW p \in data, WriteData(p)
  PROVE  IInv'
<1>1. /\ pc = "up" /\ tab' = [tab EXCEPT ![p] = Junk]
      /\ UNCHANGED <<map, LastAddress, Pml4, call, pc, heapPages, want, data>>
  BY Zenon DEF WriteData
<1>2. Pml4 # NULL /\ LastAddress \in Frame /\ data \subseteq 1 .. LastAddress
  BY Zenon, <1>1 DEF IInv, TypeOK
<1>3. p \in Frame /\ LastAddress <= LastAddress
  BY <1>2, PtmAssumption DEF Frame
<1>4. Junk \in [Index -> Int]
  BY Pages DEF Junk
<1>5. tab' \in Mem /\ \A t \in Frame : t # p => tab'[t] = tab[t]
  BY Zenon, <1>1, <1>4, MachineState DEF Mem
<1>6. Leveled' /\ TranslationsAsAsked'
  BY Zenon, <1>1, <1>2, <1>3, <1>5, WriteOffTree
<1> QED
  BY Zenon, <1>1, <1>2, <1>5, <1>6, SameWants

\* A step that changes nothing.
LEMMA StutterInv ==
  ASSUME IInv, UNCHANGED vars
  PROVE  IInv'
<1>1. UNCHANGED <<map, tab, LastAddress, Pml4, pc, heapPages, want, data>> /\ UNCHANGED call
  BY Zenon DEF vars, call
<1>2. Leveled'
  <2>1. CASE Pml4 # NULL
    <3>1. PICK lvl : Tree(tab, Pml4, LastAddress, data, lvl)
      BY Zenon, <2>1, MachineState
    <3> QED
      BY Zenon, <1>1, <3>1, TreeAfter
  <2> QED
    BY Zenon, <1>1, <2>1 DEF Leveled
<1>3. TranslationsAsAsked'
  BY Zenon, <1>1, Translates DEF IInv, TranslationsAsAsked
<1>4. tab' \in Mem /\ LastAddress' \in Frame /\ data' \subseteq 1 .. LastAddress'
  BY Zenon, <1>1 DEF IInv, TypeOK, Mem
<1> QED
  BY Zenon, <1>1, <1>2, <1>3, <1>4, SameWants

\* Every step preserves the inductive invariant.
LEMMA NextInv ==
  ASSUME IInv, [Next]_vars
  PROVE  IInv'
  BY Zenon, CreatePTMInv, MapMemoryIterateInv, MapMemoryReturnInv, MapSystemDataInv, MapHeapPageInv,
     MapDeviceInv, AllocateBufferInv, WriteDataInv, StutterInv DEF Next, Done

\* The inductive invariant holds of every reachable state of the page tables.
THEOREM Invariance == Spec => []IInv
<1>1. Init => IInv
  BY Zenon, InitInv
<1>2. IInv /\ [Next]_vars => IInv'
  BY Zenon, NextInv
<1> QED
  BY <1>1, <1>2, PTL DEF Spec

\* What the processor finds is what was asked for, and what MapMemory asks for
\* replaces nothing: the tables that calls share are extended, never replaced.
THEOREM TranslationsAsAskedHolds == Spec => []TranslationsAsAsked
<1>1. IInv => TranslationsAsAsked
  BY Zenon DEF IInv
<1> QED
  BY <1>1, Invariance, PTL

\* No two pages of heap and system data share a page of memory.
THEOREM HeapPagesApartHolds == Spec => []HeapPagesApart
<1>1. IInv => HeapPagesApart
  BY Zenon DEF IInv
<1> QED
  BY <1>1, Invariance, PTL

\* The entries of tables of one level lead to tables of the next.
LEMMA DownLevel ==
  ASSUME NEW lvl, Tree(tab, Pml4, LastAddress, data, lvl), NEW k \in 2 .. 4,
         NEW T, \A t \in T : t \in Frame /\ lvl[t] = k
  PROVE  \A x \in Down(T) : x \in Frame /\ lvl[x] = k - 1
<1> SUFFICES ASSUME NEW x \in Down(T)
             PROVE  x \in Frame /\ lvl[x] = k - 1
  BY Zenon
<1>1. PICK e \in Links(T) : x = tab[e[1]][e[2]]
  BY Zenon DEF Down
<1>2. e[1] \in T /\ e[2] \in Index /\ tab[e[1]][e[2]] # Absent
  BY Zenon DEF Links
<1> QED
  BY <1>1, <1>2 DEF Tree

\* A page has one level, and only tables have one.
LEMMA LevelsApart ==
  ASSUME IInv, Pml4 # NULL
  PROVE  TablesApart
<1> DEFINE T4 == {Pml4}
           T3 == Down(T4)
           T2 == Down(T3)
           T1 == Down(T2)
           upper == T4 \cup T3 \cup T2
           all == upper \cup T1
<1>1. PICK lvl : Tree(tab, Pml4, LastAddress, data, lvl)
  BY Zenon, MachineState
<1>2. \A t \in T4 : t \in Frame /\ lvl[t] = 4
  BY Zenon, <1>1 DEF Tree
<1>3. \A t \in T3 : t \in Frame /\ lvl[t] = 3
  BY <1>1, <1>2, DownLevel
<1> HIDE DEF T3
<1>4. \A t \in T2 : t \in Frame /\ lvl[t] = 2
  BY <1>1, <1>3, DownLevel
<1> HIDE DEF T2
<1>5. \A t \in T1 : t \in Frame /\ lvl[t] = 1
  BY <1>1, <1>4, DownLevel
<1> HIDE DEF T1, T4
<1>6. /\ T4 \cap T3 = {} /\ T4 \cap T2 = {} /\ T4 \cap T1 = {}
      /\ T3 \cap T2 = {} /\ T3 \cap T1 = {} /\ T2 \cap T1 = {}
  BY <1>2, <1>3, <1>4, <1>5
<1>7. \A t \in upper : t \in Frame /\ lvl[t] > 1
  BY <1>2, <1>3, <1>4
<1>8. \A t \in all : t \in Frame /\ lvl[t] > 0
  BY <1>2, <1>3, <1>4, <1>5
<1> HIDE DEF upper, all
<1>9. ASSUME NEW e \in Links(upper), NEW f \in Links(upper), tab[e[1]][e[2]] = tab[f[1]][f[2]]
      PROVE  e = f
  <2>1. /\ e[1] \in upper /\ e[2] \in Index /\ e = <<e[1], e[2]>> /\ tab[e[1]][e[2]] # Absent
        /\ f[1] \in upper /\ f[2] \in Index /\ f = <<f[1], f[2]>>
    BY SMTT(30) DEF Links
  <2>2. e[1] = f[1] /\ e[2] = f[2]
    BY SMTT(30), <1>1, <1>7, <1>9, <2>1 DEF Tree
  <2> QED
    BY Zenon, <2>1, <2>2
<1>10. all \subseteq UsablePages(map) \ {0} /\ all \cap data = {}
  BY <1>1, <1>8 DEF Tree
<1>11. \A e, f \in Links(upper) : e # f => tab[e[1]][e[2]] # tab[f[1]][f[2]]
  BY Zenon, <1>9
<1> QED
  BY Zenon, <1>6, <1>10, <1>11 DEF TablesApart, T1, T2, T3, T4, upper, all

\* The tables form a tree, and no page of it is anything else.
THEOREM TablesApartHolds == Spec => []TablesApart
<1>1. IInv => TablesApart
  BY Zenon, LevelsApart DEF TablesApart
<1> QED
  BY <1>1, Invariance, PTL

\* From the moment cr3 is loaded the kernel reaches all memory at its physical
\* address, and its own image.
THEOREM KernelKeepsItsGroundHolds == Spec => []KernelKeepsItsGround
<1>1. ASSUME IInv, pc = "up"
      PROVE  KernelKeepsItsGround
  <2> DEFINE full == GetFullSizeOfMemory(map)
  <2>1. map \in Maps /\ Pml4 # NULL
    BY Zenon, <1>1 DEF IInv, TypeOK
  <2>2. \A v \in VPage : Translate(v) = want[v]
    BY Zenon, <1>1, <2>1 DEF IInv, TranslationsAsAsked
  <2>3. LowMapped(full) /\ KernelMapped(KernelSize) /\ HhdmMapped(full)
    BY Zenon, <1>1 DEF IInv, Progress
  <2>4. /\ \A p \in 0 .. (full - 1) : p \in VPage /\ HHDM_Offset + p \in VPage
        /\ \A i \in 0 .. (KernelSize - 1) : VirtualKernelStart + i \in VPage
    BY Zenon, <2>1, AreaFacts
  <2>5. \A p \in UsablePages(map) : p \in 0 .. (full - 1)
    BY Zenon, <2>1, FullSize
  <2> HIDE DEF full
  <2>6. \A p \in UsablePages(map) : Translate(p) = p /\ Translate(HHDM_Offset + p) = p
    BY Zenon, <2>2, <2>3, <2>4, <2>5 DEF LowMapped, HhdmMapped
  <2>7. \A i \in 0 .. (KernelSize - 1) : Translate(VirtualKernelStart + i) = PhysicalKernelStart + i
    BY Zenon, <2>2, <2>3, <2>4 DEF KernelMapped
  <2> QED
    BY Zenon, <2>6, <2>7 DEF KernelKeepsItsGround
<1>2. IInv => KernelKeepsItsGround
  BY Zenon, <1>1 DEF KernelKeepsItsGround
<1> QED
  BY <1>2, Invariance, PTL

\* MapFresh is called for addresses that have no translation.
LEMMA FreshWants ==
  ASSUME IInv, NEW u, MapFresh(u), NEW v \in VPage, want[v] # Absent, want[u] = Absent
  PROVE  want'[v] = want[v]
<1>1. want' = want \/ \E p : want' = [want EXCEPT ![u] = p]
  BY Zenon DEF MapFresh
<1>2. want \in [VPage -> Int]
  BY Zenon, MachineState
<1> QED
  BY Zenon, <1>1, <1>2

\* Once cr3 is loaded, no translation that was asked for is asked for again
\* differently.
LEMMA WantsStay ==
  ASSUME IInv, [Next]_vars, pc = "up", NEW v \in VPage, want[v] # Absent
  PROVE  want'[v] = want[v] /\ Pml4' = Pml4
<1>1. CASE MapSystemData
  <2>1. want[SystemData] = Absent /\ MapFresh(SystemData) /\ Pml4' = Pml4
    BY Zenon, <1>1 DEF MapSystemData, IInv, Areas
  <2> QED
    BY Zenon, <2>1, FreshWants
<1>2. CASE MapHeapPage
  <2>1. heapPages \in 0 .. (MaxHeap - 1) /\ MapFresh(HeapStart + heapPages) /\ Pml4' = Pml4
    BY Zenon, <1>2 DEF MapHeapPage
  <2>2. HeapStart + heapPages \in HeapArea /\ HeapStart + heapPages >= HeapStart + heapPages
    BY <2>1, PtmAssumption DEF HeapArea
  <2>3. want[HeapStart + heapPages] = Absent
    BY Zenon, <2>2 DEF IInv, Areas
  <2> QED
    BY Zenon, <2>1, <2>3, FreshWants
<1>3. ASSUME NEW p \in Devices, MapDevice(p)
      PROVE  want'[v] = want[v] /\ Pml4' = Pml4
  <2>1. Pml4' = Pml4 /\ (want' = want \/ want' = [want EXCEPT ![p] = p])
    BY Zenon, <1>3 DEF MapDevice
  <2>2. map \in Maps /\ want \in [VPage -> Int]
    BY Zenon, MachineState
  <2>3. want[p] \in {Absent, p}
    BY Zenon, <2>2, AreaFacts DEF IInv, Areas
  <2> QED
    BY Zenon, <2>1, <2>2, <2>3
<1>4. CASE AllocateBuffer \/ (\E p \in data : WriteData(p)) \/ Done \/ UNCHANGED vars
  BY Zenon, <1>4 DEF AllocateBuffer, WriteData, Done, vars
<1>5. ~MapMemoryIterate /\ ~MapMemoryReturn /\ \A answered \in BOOLEAN : ~CreatePTM(answered)
  BY Zenon DEF MapMemoryIterate, MapMemoryReturn, Mapping, CreatePTM
<1> QED
  BY Zenon, <1>1, <1>2, <1>3, <1>4, <1>5 DEF Next

\* Once cr3 is loaded no translation that exists ever changes.
THEOREM LiveTranslationsStayHolds == Spec => LiveTranslationsStay
<1>1. ASSUME IInv, IInv', [Next]_vars
      PROVE  [pc = "up" => \A v \in VPage : Translate(v) # Absent => Translate(v)' = Translate(v)]_vars
  <2> SUFFICES ASSUME pc = "up", NEW v \in VPage, Translate(v) # Absent
               PROVE  Translate(v)' = Translate(v)
    BY Zenon
  <2>1. Pml4 # NULL
    BY Zenon, <1>1 DEF IInv, TypeOK
  <2>2. Translate(v) = want[v]
    BY Zenon, <1>1, <2>1 DEF IInv, TranslationsAsAsked
  <2>3. want'[v] = want[v] /\ Pml4' = Pml4
    BY Zenon, <1>1, <2>2, WantsStay
  <2>4. Translate(v)' = want'[v]
    BY Zenon, <1>1, <2>1, <2>3, Translates DEF IInv, TranslationsAsAsked
  <2> QED
    BY Zenon, <2>2, <2>3, <2>4
<1> QED
  BY <1>1, Invariance, PTL DEF Spec, LiveTranslationsStay
=============================================================================
