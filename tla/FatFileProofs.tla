---------------------------- MODULE FatFileProofs ---------------------------
(* Reading and seeking in a file, for every sector and cluster size, every  *)
(* allocation table, sound or damaged, and every sequence of calls. *)
EXTENDS FatFile, SequenceTheorems, TLAPS

\* Quotient and remainder.
LEMMA DivMod ==
  ASSUME NEW n \in Nat, NEW p \in Nat, p > 0
  PROVE  /\ n \div p \in Nat /\ n % p \in 0 .. (p - 1)
         /\ n = (n \div p) * p + (n % p)
  BY SMTT(30)

\* Multiplication is monotone.
LEMMA MulMono ==
  ASSUME NEW a \in Nat, NEW b \in Nat, NEW p \in Nat, a <= b
  PROVE  a * p <= b * p /\ a * p \in Nat
  BY SMTT(30)

\* Two multiples of p that differ do so by at least p.
LEMMA MulGap ==
  ASSUME NEW a \in Nat, NEW b \in Nat, NEW p \in Nat, a * p < b * p
  PROVE  a * p + p <= b * p
<1>1. a < b
  <2>1. CASE a >= b
    BY <2>1, MulMono
  <2> QED
    BY <2>1
<1>2. (a + 1) * p <= b * p
  BY <1>1, MulMono
<1>3. (a + 1) * p = a * p + p
  BY SMTT(30)
<1> QED
  BY Zenon, <1>2, <1>3

\* The quotient and the remainder are the only ones.
LEMMA DivUnique ==
  ASSUME NEW b \in Nat, NEW q \in Nat, NEW r \in Nat, r < b
  PROVE  (q * b + r) \div b = q /\ (q * b + r) % b = r
<1> DEFINE a == q * b + r
           p == a \div b
           s == a % b
<1>1. q * b \in Nat /\ a \in Nat /\ b > 0
  BY MulMono
<1>2. p \in Nat /\ s \in 0 .. (b - 1) /\ a = p * b + s
  BY Zenon, <1>1, DivMod
<1> HIDE DEF p, s
<1>3. p * b \in Nat
  BY <1>2, MulMono
<1>4. p * b = q * b
  <2>1. CASE p * b < q * b
    BY <1>1, <1>2, <1>3, <2>1, MulGap
  <2>2. CASE q * b < p * b
    BY <1>1, <1>2, <1>3, <2>2, MulGap
  <2> QED
    BY <1>1, <1>3, <2>1, <2>2
<1>5. p = q
  <2>1. CASE p < q
    <3>1. (p + 1) * b <= q * b
      BY <1>2, <2>1, MulMono
    <3>2. (p + 1) * b = p * b + b
      BY <1>2, SMTT(30)
    <3> QED
      BY <1>1, <1>3, <1>4, <3>1, <3>2
  <2>2. CASE q < p
    <3>1. (q + 1) * b <= p * b
      BY <1>2, <2>2, MulMono
    <3>2. (q + 1) * b = q * b + b
      BY <1>2, SMTT(30)
    <3> QED
      BY <1>1, <1>3, <1>4, <3>1, <3>2
  <2> QED
    BY <1>2, <2>1, <2>2
<1>6. s = r
  BY <1>1, <1>2, <1>4
<1> QED
  BY Zenon, <1>5, <1>6 DEF p, s

\* The geometry: a cluster is a positive number of bytes.
LEMMA Sizes ==
  /\ SectorSize \in Nat /\ SectorSize >= 1 /\ csize \in Nat /\ csize >= 1
  /\ bcs \in Nat /\ bcs >= SectorSize
<1>1. 1 * SectorSize <= csize * SectorSize /\ csize * SectorSize \in Nat
  BY GeometryAssumption, MulMono
<1> QED
  BY <1>1, GeometryAssumption DEF bcs

\* A position, taken apart: its cluster, its sector in the cluster and its
\* offset in the sector.
LEMMA Parts ==
  ASSUME NEW p \in Nat
  PROVE  /\ p \div bcs \in Nat /\ p \div SectorSize \in Nat
         /\ SectorOffset(p) \in 0 .. (csize - 1)
         /\ p % SectorSize \in 0 .. (SectorSize - 1)
         /\ p = (p \div SectorSize) * SectorSize + (p % SectorSize)
         /\ p \div bcs = (p \div SectorSize) \div csize
         /\ p % bcs = SectorOffset(p) * SectorSize + (p % SectorSize)
         /\ p = (p \div bcs) * bcs + (p % bcs) /\ p % bcs \in 0 .. (bcs - 1)
<1> DEFINE s == p \div SectorSize
           o == p % SectorSize
           k == s \div csize
           w == s % csize
<1>1. s \in Nat /\ o \in 0 .. (SectorSize - 1) /\ p = s * SectorSize + o
  BY Sizes, DivMod
<1>2. k \in Nat /\ w \in 0 .. (csize - 1) /\ s = k * csize + w
  BY <1>1, Sizes, DivMod
<1>3. SectorOffset(p) = w
  BY Zenon DEF SectorOffset
<1> HIDE DEF s, o, k, w
<1>4. w * SectorSize \in Nat /\ w * SectorSize + SectorSize <= bcs
  <2>1. (w + 1) * SectorSize <= csize * SectorSize /\ w * SectorSize \in Nat
    BY <1>2, Sizes, MulMono
  <2>2. (w + 1) * SectorSize = w * SectorSize + SectorSize
    BY <1>2, Sizes, SMTT(30)
  <2> QED
    BY Zenon, <2>1, <2>2 DEF bcs
<1>5. p = k * bcs + (w * SectorSize + o)
  <2>1. (k * csize + w) * SectorSize = k * (csize * SectorSize) + w * SectorSize
    BY <1>2, Sizes, SMTT(30)
  <2>2. k * bcs \in Nat
    BY <1>2, Sizes, MulMono
  <2> QED
    BY <1>1, <1>2, <1>4, <2>1, <2>2 DEF bcs
<1>6. p \div bcs = k /\ p % bcs = w * SectorSize + o
  <2>1. w * SectorSize + o \in Nat /\ w * SectorSize + o < bcs
    BY <1>1, <1>4, Sizes
  <2> QED
    BY Zenon, <1>2, <1>5, <2>1, Sizes, DivUnique
<1>7. w * SectorSize + o \in 0 .. (bcs - 1)
  BY <1>1, <1>4, Sizes
<1> QED
  BY Zenon, <1>1, <1>2, <1>3, <1>5, <1>6, <1>7 DEF s, o, k

\* Positions of one sector differ in their offset only.
LEMMA SameSector ==
  ASSUME NEW p \in Nat, NEW d \in Nat, (p % SectorSize) + d < SectorSize
  PROVE  /\ (p + d) % SectorSize = (p % SectorSize) + d
         /\ SectorOffset(p + d) = SectorOffset(p)
         /\ (p + d) \div bcs = p \div bcs
<1> DEFINE s == p \div SectorSize
           o == p % SectorSize
<1>1. s \in Nat /\ o \in Nat /\ p = s * SectorSize + o /\ p \div bcs = s \div csize
  BY Parts
<1>2. o + d < SectorSize
  BY Zenon
<1> HIDE DEF s, o
<1>3. s * SectorSize \in Nat
  BY <1>1, Sizes, MulMono
<1>4. p + d = s * SectorSize + (o + d) /\ o + d \in Nat
  BY <1>1, <1>3
<1>5. (p + d) \div SectorSize = s /\ (p + d) % SectorSize = o + d
  <2> DEFINE e == o + d
  <2>1. p + d = s * SectorSize + e /\ e \in Nat /\ e < SectorSize
    BY Zenon, <1>2, <1>4
  <2> HIDE DEF e
  <2>2. (p + d) \div SectorSize = s /\ (p + d) % SectorSize = e
    BY <1>1, <2>1, Sizes
  <2> QED
    BY Zenon, <2>2 DEF e
<1>6. (p + d) \div bcs = ((p + d) \div SectorSize) \div csize
  BY Parts
<1> QED
  BY Zenon, <1>1, <1>5, <1>6 DEF s, o, SectorOffset

\* After a transfer that stays in its sector: the last byte passed lies in
\* the cluster it started in, and so does the next one unless the sector is used up.
LEMMA Advance ==
  ASSUME NEW p \in Nat, NEW r \in Nat, 1 <= r, r <= SectorSize - (p % SectorSize)
  PROVE  /\ (p + r - 1) \div bcs = p \div bcs
         /\ (p + r) % SectorSize # 0 =>
                /\ SectorOffset(p + r) = SectorOffset(p)
                /\ (p + r) \div bcs = p \div bcs
<1>1. p % SectorSize \in 0 .. (SectorSize - 1) /\ p \div SectorSize \in Nat
      /\ p = (p \div SectorSize) * SectorSize + (p % SectorSize)
  BY Zenon, Parts
<1>2. (p + r - 1) \div bcs = p \div bcs
  <2>1. r - 1 \in Nat /\ (p % SectorSize) + (r - 1) < SectorSize /\ p + (r - 1) = p + r - 1
    BY <1>1, Sizes
  <2> QED
    BY Zenon, <2>1, SameSector
<1>3. CASE (p % SectorSize) + r < SectorSize
  BY Zenon, <1>2, <1>3, SameSector
<1>4. CASE (p % SectorSize) + r = SectorSize
  <2> DEFINE s == p \div SectorSize
             o == p % SectorSize
  <2>1. s \in Nat /\ o \in Nat /\ p = s * SectorSize + o /\ o + r = SectorSize
    BY <1>1, <1>4
  <2> HIDE DEF s, o
  <2>2. (s + 1) * SectorSize = s * SectorSize + SectorSize /\ s * SectorSize \in Nat
    BY <2>1, Sizes, SMTT(30)
  <2>3. p + r = (s + 1) * SectorSize + 0
    BY <2>1, <2>2, Sizes
  <2>4. (p + r) % SectorSize = 0
    BY SMTT(30), <2>1, <2>3, Sizes, DivUnique
  <2> QED
    BY Zenon, <1>2, <2>4
<1> QED
  BY <1>3, <1>4, Sizes

\* The cluster of the byte before a position: the cluster before when the
\* position starts one, else the position's own.
LEMMA Before ==
  ASSUME NEW p \in Nat, p > 0
  PROVE  /\ p % bcs # 0 => (p - 1) \div bcs = p \div bcs
         /\ p % bcs = 0 => (p - 1) \div bcs = p \div bcs - 1
         /\ (p - 1) \div bcs \in Nat
<1> DEFINE k == p \div bcs
           m == p % bcs
<1>1. k \in Nat /\ m \in 0 .. (bcs - 1) /\ p = k * bcs + m
  BY Zenon, Parts
<1>2. (p - 1) \div bcs \in Nat
  BY Parts
<1> HIDE DEF k, m
<1>3. CASE m # 0
  <2>1. k * bcs \in Nat
    BY <1>1, Sizes, MulMono
  <2>2. p - 1 = k * bcs + (m - 1) /\ m - 1 \in Nat /\ m - 1 < bcs
    BY <1>1, <1>3, <2>1, Sizes
  <2>3. (p - 1) \div bcs = k
    BY <1>1, <2>2, Sizes
  <2> QED
    BY Zenon, <1>2, <1>3, <2>3 DEF k, m
<1>4. CASE m = 0
  <2>1. k # 0
    BY <1>1, <1>4, Sizes, SMTT(30)
  <2>2. (k - 1) * bcs \in Nat /\ k * bcs = (k - 1) * bcs + bcs
    BY <1>1, <2>1, Sizes, SMTT(30)
  <2>3. p - 1 = (k - 1) * bcs + (bcs - 1) /\ bcs - 1 \in Nat /\ k - 1 \in Nat /\ bcs - 1 < bcs
    BY <1>1, <1>4, Sizes
  <2>4. (p - 1) \div bcs = k - 1
    <3> DEFINE q == k - 1
               r == bcs - 1
    <3>1. p - 1 = q * bcs + r /\ r \in Nat /\ q \in Nat /\ r < bcs
      BY Zenon, <2>3
    <3> HIDE DEF q, r
    <3>2. (p - 1) \div bcs = q
      BY <3>1, Sizes, DivUnique
    <3> QED
      BY Zenon, <3>2 DEF q
  <2> QED
    BY Zenon, <1>2, <1>4, <2>4 DEF k, m
<1> QED
  BY Zenon, <1>3, <1>4

\* A position starts a cluster when it starts a sector that is the first of one.
LEMMA Boundary ==
  ASSUME NEW p \in Nat
  PROVE  p % bcs = 0 <=> p % SectorSize = 0 /\ SectorOffset(p) = 0
<1> DEFINE w == SectorOffset(p)
           o == p % SectorSize
<1>1. w \in Nat /\ o \in Nat /\ p % bcs = w * SectorSize + o
  BY Parts
<1> HIDE DEF w, o
<1>2. w # 0 => w * SectorSize >= SectorSize
  <2>1. w # 0 => 1 * SectorSize <= w * SectorSize
    BY <1>1, Sizes, MulMono
  <2> QED
    BY <2>1, Sizes
<1>3. w = 0 => w * SectorSize = 0
  BY Sizes
<1>4. w * SectorSize \in Nat
  BY <1>1, Sizes, MulMono
<1>5. p % bcs = 0 <=> o = 0 /\ w = 0
  BY <1>1, Sizes
<1> QED
  BY Zenon, <1>5 DEF w, o

\* The start of a cluster, and the bytes up to the start of the next.
LEMMA ClusterStart ==
  ASSUME NEW k \in Nat
  PROVE  /\ k * bcs \in Nat /\ (k * bcs) % bcs = 0 /\ (k * bcs) \div bcs = k
         /\ \A m \in 1 .. bcs : (k * bcs + m - 1) \div bcs = k
         /\ (k + 1) * bcs = k * bcs + bcs
<1>1. k * bcs \in Nat /\ (k + 1) * bcs = k * bcs + bcs
  BY Sizes, SMTT(30)
<1>2. (k * bcs + 0) % bcs = 0 /\ (k * bcs + 0) \div bcs = k
  BY Sizes, DivUnique
<1>3. ASSUME NEW m \in 1 .. bcs
      PROVE  (k * bcs + m - 1) \div bcs = k
  <2>1. m - 1 \in Nat /\ m - 1 < bcs /\ k * bcs + m - 1 = k * bcs + (m - 1)
    BY <1>1, Sizes
  <2> QED
    BY Zenon, <2>1, Sizes, DivUnique
<1> QED
  BY <1>1, <1>2, <1>3

\* A byte of a file lies in one of its clusters.
LEMMA InChain ==
  ASSUME NEW p \in Nat, p < MaxChain * bcs
  PROVE  p \div bcs \in 0 .. (MaxChain - 1)
<1> DEFINE k == p \div bcs
<1>1. k \in Nat /\ p % bcs \in Nat /\ p = k * bcs + (p % bcs)
  BY Parts
<1> HIDE DEF k
<1>2. CASE k >= MaxChain
  <2>1. MaxChain * bcs <= k * bcs /\ k * bcs \in Nat
    BY <1>1, <1>2, FilesAssumption, Sizes
  <2>2. MaxChain * bcs \in Nat
    BY FilesAssumption, Sizes
  <2> QED
    BY <1>1, <2>1, <2>2
<1> QED
  BY <1>1, <1>2, FilesAssumption DEF k

-----------------------------------------------------------------------------

\* What holds while a call runs: the file is open, and a read has advanced by
\* what it counts and still has the rest of what it may deliver to go.
InCall ==
    /\ pc # "idle" => file # None
    /\ pc = "idle" => left = 0
    /\ pc = "read" =>
           /\ fptr = call.ifptr + br
           /\ br + left = Smaller(call.arg, file.fsize - call.ifptr)
           /\ call.ifptr <= file.fsize

\* The inductive invariant.
Inv == TypeOK /\ PositionsAgree /\ SeekOnItsWay /\ InCall

\* A file's first cluster is a number, and its size one a chain can hold.
LEMMA FileFacts ==
  ASSUME NEW f \in Files
  PROVE  /\ f # None /\ f.org_clust \in Nat /\ Chain[f][0] = f.org_clust
         /\ f.fsize \in Nat /\ f.fsize <= MaxChain * bcs /\ MaxChain * bcs \in Nat
         /\ \A k \in 0 .. MaxChain : Chain[f][k] \in Nat
         /\ \A k \in 0 .. MaxChain - 1 : Chain[f][k + 1] = get_fat(Chain[f][k])
<1>1. MaxChain * bcs \in Nat
  BY FilesAssumption, Sizes
<1>2. f \in [org_clust : Nat, fsize : 0 .. MaxChain * bcs]
  BY Zenon, FilesAssumption
<1> QED
  BY <1>1, FilesAssumption

\* get_fat and clust2sect yield numbers.
LEMMA FatFacts ==
  ASSUME NEW clst \in Nat
  PROVE  get_fat(clst) \in Nat /\ clust2sect(clst) \in Nat
<1>1. get_fat(clst) \in Nat
  BY Zenon, GeometryAssumption DEF get_fat
<1>2. clst - 2 \in 0 .. n_fatent - 3 => (clst - 2) * csize \in Nat
  <2> SUFFICES ASSUME clst - 2 \in 0 .. n_fatent - 3 PROVE (clst - 2) * csize \in Nat
    BY Zenon
  <2>1. clst - 2 \in Nat
    BY GeometryAssumption
  <2> QED
    BY <2>1, Sizes, MulMono
<1> QED
  BY <1>1, <1>2, GeometryAssumption DEF clust2sect

\* The invariant holds at the start.
LEMMA InvInit == Init => Inv
<1>1. MaxChain * bcs \in Nat
  BY FilesAssumption, Sizes
<1> QED
  BY <1>1 DEF Init, Inv, TypeOK, PositionsAgree, SeekOnItsWay, InCall

\* Opening a file, or failing to.
LEMMA OpenKeeps ==
  ASSUME Inv, pf_open PROVE Inv'
<1> USE DEF Inv, TypeOK, InCall, pf_open
<1>1. CASE \E f \in Files : file' = f /\ fptr' = 0 /\ res' = "OK"
  <2>1. PICK f \in Files : file' = f /\ fptr' = 0 /\ res' = "OK"
    BY Zenon, <1>1
  <2>2. 0 % SectorSize = 0 /\ f.fsize \in Nat /\ MaxChain * bcs \in Nat
    BY SMTT(30), FileFacts, Sizes
  <2> QED
    BY <2>1, <2>2 DEF PositionsAgree, SeekOnItsWay
<1>2. CASE file' = None /\ res' \in {"NO_FILE", "DISK_ERR"} /\ UNCHANGED fptr
  BY Zenon, <1>2 DEF PositionsAgree, SeekOnItsWay
<1> QED
  BY Zenon, <1>1, <1>2

\* pf_read before its loop.
LEMMA ReadCallKeeps ==
  ASSUME Inv, NEW n \in ReadSizes, NEW b \in Buffers, ReadCall(n, b) PROVE Inv'
<1> USE DEF Inv, ReadCall
<1>1. file \in Files /\ n \in Nat /\ b \in Nat /\ fptr \in Nat
  BY RequestsAssumption DEF TypeOK
<1>2. file.fsize \in Nat /\ fptr <= file.fsize
  BY Zenon, <1>1, FileFacts DEF PositionsAgree
<1>3. left' \in Nat /\ left' = Smaller(n, file.fsize - fptr)
  BY <1>1, <1>2 DEF Smaller
<1>4. TypeOK'
  BY Zenon, <1>1, <1>3 DEF TypeOK
<1>5. PositionsAgree' /\ SeekOnItsWay'
  BY Zenon, <1>1 DEF PositionsAgree, SeekOnItsWay, Byte, SectorOffset
<1>6. InCall'
  BY <1>2, <1>3 DEF InCall, TypeOK
<1> QED
  BY Zenon, <1>4, <1>5, <1>6

\* A call without an open file.
LEMMA NotOpenedKeeps ==
  ASSUME Inv, CallNotOpened PROVE Inv'
<1>1. br' \in Nat
  BY DEF Inv, TypeOK, CallNotOpened
<1> QED
  BY Zenon, <1>1 DEF Inv, TypeOK, PositionsAgree, SeekOnItsWay, InCall, CallNotOpened

\* Giving up: the file is closed, whatever the position.
LEMMA AbortKeeps ==
  ASSUME Inv, Abort, fptr' \in 0 .. MaxChain * bcs, curr_clust' \in Nat, dsect' \in Nat,
         UNCHANGED <<call, buff, br>>
  PROVE  Inv'
BY Zenon DEF Inv, TypeOK, PositionsAgree, SeekOnItsWay, InCall, Abort

\* pf_read after its loop.
LEMMA ReadReturnKeeps ==
  ASSUME Inv, ReadReturn PROVE Inv'
<1> USE DEF Inv, ReadReturn, Return
<1>1. TypeOK' /\ InCall'
  BY Zenon DEF TypeOK, InCall
<1>2. PositionsAgree' /\ SeekOnItsWay'
  BY Zenon DEF PositionsAgree, SeekOnItsWay, Byte, SectorOffset
<1> QED
  BY Zenon, <1>1, <1>2

\* Where a read finds its next byte: the sector that a successful transfer
\* reads is the one of the position, found from scratch, from the current
\* cluster or, inside a sector, from dsect.
LEMMA SectorOfRead ==
  ASSUME Inv, pc = "read", left > 0, NEW clst \in Nat, NEW sector,
         IF fptr % SectorSize = 0
         THEN /\ clst \in ReadClusters /\ clst > 1 /\ clust2sect(clst) # 0
              /\ sector = clust2sect(clst) + SectorOffset(fptr)
         ELSE clst = curr_clust /\ sector = dsect
  PROVE  /\ clst = Chain[file][fptr \div bcs]
         /\ clust2sect(clst) # 0
         /\ sector = clust2sect(clst) + SectorOffset(fptr)
         /\ sector \in Nat
         /\ fptr + left <= file.fsize
<1>1. file \in Files /\ fptr \in Nat /\ left \in Nat /\ br \in Nat /\ call.ifptr \in Nat /\ call.arg \in Nat
  BY DEF Inv, TypeOK, InCall
<1>2. file.fsize \in Nat /\ file.fsize <= MaxChain * bcs /\ MaxChain * bcs \in Nat
  BY Zenon, <1>1, FileFacts
<1>3. fptr + left <= file.fsize
  BY <1>1, <1>2 DEF Inv, InCall, Smaller
<1>4. fptr \div bcs \in 0 .. (MaxChain - 1)
  BY <1>1, <1>2, <1>3, InChain
<1>5. clust2sect(clst) \in Nat /\ SectorOffset(fptr) \in Nat
  <2>1. SectorOffset(fptr) \in 0 .. (csize - 1)
    BY Zenon, <1>1, Parts
  <2> QED
    BY <2>1, FatFacts
<1>6. fptr > 0 => /\ curr_clust = Chain[file][(fptr - 1) \div bcs]
                  /\ clust2sect(curr_clust) # 0
  BY Zenon, <1>1, FileFacts DEF Inv, PositionsAgree
<1>7. CASE fptr % SectorSize # 0
  <2>1. fptr > 0
    BY SMTT(30), <1>1, <1>7, Sizes
  <2>2. fptr % bcs # 0
    BY Zenon, <1>1, <1>7, Boundary
  <2>3. clst = Chain[file][fptr \div bcs] /\ clust2sect(clst) # 0
    BY Zenon, <1>1, <1>6, <1>7, <2>1, <2>2, Before
  <2>4. sector = Byte(file, fptr)[1]
    BY Zenon, <1>1, <1>7, FileFacts DEF Inv, PositionsAgree
  <2> QED
    BY <1>3, <1>5, <2>3, <2>4 DEF Byte
<1>8. CASE fptr % SectorSize = 0
  <2>1. /\ clst \in ReadClusters /\ clst > 1 /\ clust2sect(clst) # 0
        /\ sector = clust2sect(clst) + SectorOffset(fptr)
    BY Zenon, <1>8
  <2>2. clst = Chain[file][fptr \div bcs]
    <3>1. CASE SectorOffset(fptr) # 0
      <4>1. clst = curr_clust
        BY Zenon, <2>1, <3>1 DEF ReadClusters
      <4>2. fptr > 0
        <5>1. CASE fptr = 0
          <6>1. (0 * bcs) % bcs = 0 /\ 0 * bcs = 0
            BY Sizes
          <6> QED
            BY Zenon, <1>1, <3>1, <5>1, <6>1, Boundary
        <5> QED
          BY <1>1, <5>1
      <4>3. fptr % bcs # 0
        BY Zenon, <1>1, <3>1, Boundary
      <4> QED
        BY Zenon, <1>1, <1>6, <4>1, <4>2, <4>3, Before
    <3>2. CASE SectorOffset(fptr) = 0 /\ fptr = 0
      <4>1. (0 * bcs) \div bcs = 0 /\ 0 * bcs = 0
        BY Sizes
      <4> QED
        BY Zenon, <1>1, <2>1, <3>2, <4>1, FileFacts DEF ReadClusters
    <3>3. CASE SectorOffset(fptr) = 0 /\ fptr # 0
      <4> DEFINE k == (fptr - 1) \div bcs
      <4>1. fptr % bcs = 0 /\ fptr > 0
        BY <1>1, <1>8, <3>3, Boundary
      <4>2. k = fptr \div bcs - 1 /\ k \in Nat
        BY Zenon, <1>1, <4>1, Before
      <4>3. clst = get_fat(curr_clust)
        BY <2>1, <3>3 DEF ReadClusters, get_fatResults
      <4>4. curr_clust = Chain[file][k]
        BY Zenon, <1>6, <4>1
      <4> HIDE DEF k
      <4>5. k \in 0 .. MaxChain - 1 /\ k + 1 = fptr \div bcs
        BY <1>4, <4>2, FilesAssumption
      <4> QED
        BY Zenon, <1>1, <4>3, <4>4, <4>5, FileFacts
    <3> QED
      BY Zenon, <3>1, <3>2, <3>3
  <2> QED
    BY <1>3, <1>5, <2>1, <2>2
<1> QED
  BY Zenon, <1>7, <1>8

\* A transfer that succeeds keeps position, cluster and sector together.
LEMMA TransferKeeps ==
  ASSUME Inv, pc = "read", left > 0, NEW clst \in Nat, NEW sector \in Nat,
         clst = Chain[file][fptr \div bcs], clust2sect(clst) # 0,
         sector = clust2sect(clst) + SectorOffset(fptr), fptr + left <= file.fsize,
         NEW rcnt, rcnt = Smaller(SectorSize - (fptr % SectorSize), left),
         dsect' = sector, curr_clust' = clst, fptr' = fptr + rcnt, left' = left - rcnt,
         br' = br + rcnt, UNCHANGED <<file, pc, res, call, buff>>
  PROVE  Inv'
<1>1. file \in Files /\ fptr \in Nat /\ left \in Nat /\ br \in Nat /\ call.ifptr \in Nat /\ call.arg \in Nat
  BY DEF Inv, TypeOK, InCall
<1>2. file.fsize \in Nat /\ file.fsize <= MaxChain * bcs /\ MaxChain * bcs \in Nat
  BY Zenon, <1>1, FileFacts
<1>3. rcnt \in Nat /\ 1 <= rcnt /\ rcnt <= left /\ rcnt <= SectorSize - (fptr % SectorSize)
  <2>1. fptr % SectorSize \in 0 .. (SectorSize - 1)
    BY Zenon, <1>1, Parts
  <2> QED
    BY SMTT(30), <1>1, <2>1, Sizes DEF Smaller
<1>4. fptr' \in Nat /\ fptr' > 0 /\ fptr' <= file.fsize /\ left' \in Nat /\ br' \in Nat
  BY <1>1, <1>2, <1>3
<1>5. TypeOK'
  BY <1>2, <1>4 DEF Inv, TypeOK
<1>6. InCall'
  <2>1. fptr = call.ifptr + br /\ br + left = Smaller(call.arg, file.fsize - call.ifptr)
        /\ call.ifptr <= file.fsize /\ file # None
    BY Zenon DEF Inv, InCall
  <2>2. fptr' = call.ifptr + br' /\ br' + left' = br + left
    BY <1>1, <1>3, <2>1
  <2> QED
    BY Zenon, <2>1, <2>2 DEF InCall
<1>7. SeekOnItsWay'
  BY Zenon DEF SeekOnItsWay
<1>8. PositionsAgree'
  <2>1. (fptr' - 1) \div bcs = fptr \div bcs
    BY <1>1, <1>3, Advance
  <2>2. fptr' % SectorSize # 0 => /\ SectorOffset(fptr') = SectorOffset(fptr)
                                  /\ fptr' \div bcs = fptr \div bcs
    BY Zenon, <1>1, <1>3, Advance
  <2>3. fptr' % SectorSize # 0 => dsect' = Byte(file, fptr')[1]
    BY Zenon, <2>2 DEF Byte
  <2> QED
    BY Zenon, <1>4, <2>1, <2>3 DEF PositionsAgree, Byte, SectorOffset
<1> QED
  BY Zenon, <1>5, <1>6, <1>7, <1>8 DEF Inv

\* What one iteration of pf_read's loop does: it gives up, or it transfers
\* from the sector of the position.
LEMMA IterationCases ==
  ASSUME Inv, ReadIteration
  PROVE  \/ Abort /\ fptr' = fptr /\ curr_clust' \in Nat /\ dsect' \in Nat /\ UNCHANGED <<call, buff, br, buf>>
         \/ \E clst \in Nat, sector \in Nat, rcnt \in Nat :
                /\ clst = Chain[file][fptr \div bcs] /\ clust2sect(clst) # 0
                /\ sector = clust2sect(clst) + SectorOffset(fptr) /\ fptr + left <= file.fsize
                /\ rcnt = Smaller(SectorSize - (fptr % SectorSize), left)
                /\ dsect' = sector /\ curr_clust' = clst /\ fptr' = fptr + rcnt
                /\ left' = left - rcnt /\ br' = br + rcnt
                /\ buf' = disk_readp(rbuff, sector, fptr % SectorSize, rcnt)
                /\ UNCHANGED <<file, pc, res, call, buff>>
<1> DEFINE n == Smaller(SectorSize - (fptr % SectorSize), left)
<1>1. /\ pc = "read" /\ left > 0 /\ UNCHANGED <<call, buff>>
      /\ file \in Files /\ fptr \in Nat /\ left \in Nat /\ dsect \in Nat /\ curr_clust \in Nat
  BY DEF Inv, TypeOK, InCall, ReadIteration
<1>2. n \in Nat
  <2>1. fptr % SectorSize \in 0 .. (SectorSize - 1)
    BY Zenon, <1>1, Parts
  <2> QED
    BY <1>1, Sizes DEF Smaller
<1>3. ASSUME NEW clst \in Nat, NEW sector \in Nat, Transfer(sector), curr_clust' = clst,
             clst = Chain[file][fptr \div bcs], clust2sect(clst) # 0,
             sector = clust2sect(clst) + SectorOffset(fptr), fptr + left <= file.fsize
      PROVE  \/ Abort /\ fptr' = fptr /\ curr_clust' \in Nat /\ dsect' \in Nat /\ UNCHANGED <<br, buf>>
             \/ /\ dsect' = sector /\ fptr' = fptr + n
                /\ left' = left - n /\ br' = br + n
                /\ buf' = disk_readp(rbuff, sector, fptr % SectorSize, n)
                /\ UNCHANGED <<file, pc, res>>
  BY Zenon, <1>3 DEF Transfer
<1>4. CASE fptr % SectorSize = 0
  <2>1. PICK clst \in ReadClusters :
           IF clst <= 1 THEN Abort /\ UNCHANGED <<fptr, curr_clust, dsect, br, buf>>
           ELSE /\ curr_clust' = clst
                /\ IF clust2sect(clst) = 0
                   THEN Abort /\ UNCHANGED <<fptr, dsect, br, buf>>
                   ELSE Transfer(clust2sect(clst) + SectorOffset(fptr))
    BY Zenon, <1>4 DEF ReadIteration
  <2>2. clst \in Nat
    BY <1>1, FileFacts, FatFacts DEF ReadClusters, get_fatResults
  <2>3. CASE clst <= 1 \/ clust2sect(clst) = 0
    BY Zenon, <1>1, <2>1, <2>2, <2>3
  <2>4. CASE clst > 1 /\ clust2sect(clst) # 0
    <3> DEFINE sector == clust2sect(clst) + SectorOffset(fptr)
    <3>1. curr_clust' = clst /\ Transfer(sector)
      BY <2>1, <2>2, <2>4
    <3>2. /\ clst = Chain[file][fptr \div bcs] /\ sector \in Nat /\ fptr + left <= file.fsize
      BY Zenon, <1>1, <1>4, <2>2, <2>4, SectorOfRead
    <3> QED
      BY Zenon, <1>1, <1>2, <1>3, <2>2, <2>4, <3>1, <3>2
  <2> QED
    BY <2>2, <2>3, <2>4
<1>5. CASE fptr % SectorSize # 0
  <2>1. Transfer(dsect) /\ curr_clust' = curr_clust
    BY Zenon, <1>5 DEF ReadIteration
  <2>2. /\ curr_clust = Chain[file][fptr \div bcs] /\ clust2sect(curr_clust) # 0
        /\ dsect = clust2sect(curr_clust) + SectorOffset(fptr) /\ fptr + left <= file.fsize
    BY Zenon, <1>1, <1>5, SectorOfRead
  <2> QED
    BY Zenon, <1>1, <1>2, <1>3, <2>1, <2>2
<1> QED
  BY Zenon, <1>4, <1>5

\* One iteration of pf_read's loop.
LEMMA ReadIterationKeeps ==
  ASSUME Inv, ReadIteration PROVE Inv'
<1>1. fptr \in 0 .. MaxChain * bcs /\ pc = "read" /\ left > 0
  BY Zenon DEF Inv, TypeOK, ReadIteration
<1>2. CASE Abort /\ fptr' = fptr /\ curr_clust' \in Nat /\ dsect' \in Nat /\ UNCHANGED <<call, buff, br, buf>>
  BY Zenon, <1>1, <1>2, AbortKeeps
<1> QED
  BY Zenon, <1>1, <1>2, IterationCases, TransferKeeps

\* pf_lseek before its loop: from the current cluster's start, or from the top.
LEMMA LseekCallKeeps ==
  ASSUME Inv, NEW n \in SeekOffsets, LseekCall(n) PROVE Inv'
<1> DEFINE ofs == Smaller(n, file.fsize)
           k == (fptr - 1) \div bcs
<1>1. /\ pc = "idle" /\ file # None /\ ofs > 0 /\ pc' = "lseek"
      /\ call' = [arg |-> n, ifptr |-> fptr] /\ UNCHANGED <<file, dsect, buff, br, buf, res>>
      /\ IF FromCurrent(ofs)
         THEN fptr' = k * bcs /\ left' = ofs - k * bcs /\ UNCHANGED curr_clust
         ELSE fptr' = 0 /\ left' = ofs /\ curr_clust' = file.org_clust
  BY Zenon DEF LseekCall
<1>2. file \in Files /\ fptr \in Nat /\ n \in Nat /\ fptr \in 0 .. MaxChain * bcs
  BY <1>1, RequestsAssumption DEF Inv, TypeOK
<1>3. file.fsize \in Nat /\ file.fsize <= MaxChain * bcs /\ MaxChain * bcs \in Nat /\ fptr <= file.fsize
  BY Zenon, <1>1, <1>2, FileFacts DEF Inv, PositionsAgree
<1>4. ofs \in Nat /\ ofs <= file.fsize
  BY <1>2, <1>3 DEF Smaller
<1>5. /\ fptr' \in Nat /\ left' \in Nat /\ left' > 0 /\ fptr' + left' = ofs
      /\ fptr' % bcs = 0 /\ curr_clust' = Chain[file][fptr' \div bcs] /\ curr_clust' \in Nat
  <2>1. CASE FromCurrent(ofs)
    <3>1. fptr > 0 /\ (ofs - 1) \div bcs >= k
      BY Zenon, <2>1 DEF FromCurrent
    <3>2. k \in Nat
      BY Zenon, <1>2, <3>1, Before
    <3>3. curr_clust = Chain[file][k] /\ curr_clust \in Nat
      BY Zenon, <1>1, <3>1 DEF Inv, PositionsAgree, TypeOK
    <3> HIDE DEF k, ofs
    <3>4. k * bcs \in Nat /\ (k * bcs) % bcs = 0 /\ (k * bcs) \div bcs = k
      BY Zenon, <3>2, ClusterStart
    <3>5. k * bcs < ofs
      <4> DEFINE e == ofs - 1
                 q == e \div bcs
                 m == e % bcs
      <4>1. e \in Nat
        BY <1>1, <1>4
      <4> HIDE DEF e
      <4>2. q \in Nat /\ m \in 0 .. (bcs - 1) /\ e = q * bcs + m
        BY Zenon, <4>1, Parts
      <4>3. k <= q
        BY Zenon, <3>1, <3>2, <4>2 DEF e
      <4> HIDE DEF q, m
      <4>4. k * bcs <= q * bcs /\ q * bcs \in Nat
        BY <3>2, <4>2, <4>3, Sizes
      <4> QED
        BY <1>4, <3>4, <4>2, <4>4 DEF e
    <3> QED
      BY <1>1, <1>4, <2>1, <3>3, <3>4, <3>5
  <2>2. CASE ~FromCurrent(ofs)
    <3>1. (0 * bcs) % bcs = 0 /\ (0 * bcs) \div bcs = 0 /\ 0 * bcs = 0
      BY Sizes
    <3> HIDE DEF k, ofs
    <3> QED
      BY <1>1, <1>2, <1>4, <2>2, <3>1, FileFacts
  <2> QED
    BY Zenon, <2>1, <2>2
<1> HIDE DEF k
<1>6. TypeOK'
  <2>1. fptr' \in 0 .. MaxChain * bcs
    BY <1>3, <1>4, <1>5
  <2> QED
    BY Zenon, <1>1, <1>2, <1>5, <2>1 DEF Inv, TypeOK
<1>7. PositionsAgree'
  <2>1. fptr' <= file.fsize
    BY <1>3, <1>4, <1>5
  <2> QED
    BY Zenon, <1>1, <2>1 DEF PositionsAgree
<1>8. SeekOnItsWay'
  BY Zenon, <1>1, <1>5 DEF SeekOnItsWay
<1>9. InCall'
  BY Zenon, <1>1 DEF InCall
<1> QED
  BY Zenon, <1>6, <1>7, <1>8, <1>9 DEF Inv

\* pf_lseek to the top.
LEMMA LseekTopKeeps ==
  ASSUME Inv, NEW n \in SeekOffsets, LseekTop(n) PROVE Inv'
<1>1. file \in Files /\ n \in Nat /\ file.fsize \in Nat /\ MaxChain * bcs \in Nat
  BY Zenon, RequestsAssumption, FileFacts DEF Inv, TypeOK, LseekTop
<1>2. 0 % SectorSize = 0
  BY Sizes, SMTT(30)
<1>3. TypeOK' /\ InCall'
  BY <1>1 DEF Inv, TypeOK, InCall, LseekTop
<1>4. PositionsAgree' /\ SeekOnItsWay'
  BY <1>1, <1>2 DEF LseekTop, PositionsAgree, SeekOnItsWay
<1> QED
  BY Zenon, <1>3, <1>4 DEF Inv

\* What is known inside pf_lseek's loop.
LEMMA SeekFacts ==
  ASSUME Inv, pc = "lseek"
  PROVE  /\ file \in Files /\ file # None /\ fptr \in Nat /\ left \in Nat /\ left > 0
         /\ fptr + left <= file.fsize /\ fptr + left = Smaller(call.arg, file.fsize)
         /\ file.fsize \in Nat /\ file.fsize <= MaxChain * bcs /\ MaxChain * bcs \in Nat
         /\ fptr \div bcs \in 0 .. (MaxChain - 1) /\ fptr = (fptr \div bcs) * bcs
         /\ curr_clust = Chain[file][fptr \div bcs] /\ curr_clust \in Nat
<1>1. file \in Files /\ file # None /\ fptr \in Nat /\ left \in Nat /\ call.arg \in Nat
  BY DEF Inv, TypeOK, InCall
<1>2. file.fsize \in Nat /\ file.fsize <= MaxChain * bcs /\ MaxChain * bcs \in Nat
  BY Zenon, <1>1, FileFacts
<1>3. left > 0 /\ fptr + left <= file.fsize /\ fptr + left = Smaller(call.arg, file.fsize)
  BY <1>2 DEF Inv, SeekOnItsWay, Smaller
<1>4. fptr \div bcs \in 0 .. (MaxChain - 1)
  BY <1>1, <1>2, <1>3, InChain
<1>5. fptr = (fptr \div bcs) * bcs
  <2> DEFINE c == (fptr \div bcs) * bcs
  <2>1. fptr = c + (fptr % bcs) /\ fptr % bcs = 0 /\ c \in Nat
    BY Zenon, <1>1, Parts, ClusterStart DEF Inv, SeekOnItsWay
  <2> QED
    BY <2>1
<1> QED
  BY Zenon, <1>1, <1>2, <1>3, <1>4, <1>5 DEF Inv, SeekOnItsWay, TypeOK

\* One iteration of pf_lseek's loop.
LEMMA LseekFollowKeeps ==
  ASSUME Inv, LseekFollow PROVE Inv'
<1> DEFINE k == fptr \div bcs
<1>1. pc = "lseek" /\ left > bcs /\ UNCHANGED <<dsect, call, buff, br, buf>>
  BY Zenon DEF LseekFollow
<1>2. /\ file \in Files /\ fptr \in Nat /\ left \in Nat /\ fptr + left <= file.fsize
      /\ file # None /\ fptr + left = Smaller(call.arg, file.fsize)
      /\ file.fsize \in Nat /\ file.fsize <= MaxChain * bcs /\ MaxChain * bcs \in Nat
      /\ k \in 0 .. (MaxChain - 1) /\ fptr = k * bcs /\ curr_clust = Chain[file][k] /\ curr_clust \in Nat
  BY Zenon, <1>1, SeekFacts
<1>3. PICK clst \in get_fatResults(curr_clust) :
         IF clst <= 1 \/ clst >= n_fatent THEN Abort /\ UNCHANGED <<fptr, curr_clust>>
         ELSE /\ curr_clust' = clst /\ fptr' = fptr + bcs /\ left' = left - bcs
              /\ UNCHANGED <<file, pc, res>>
  BY Zenon DEF LseekFollow
<1>4. clst \in Nat
  BY <1>2, FatFacts DEF get_fatResults
<1> HIDE DEF k
<1>5. CASE clst <= 1 \/ clst >= n_fatent
  BY Zenon, <1>1, <1>2, <1>3, <1>5, AbortKeeps DEF Inv, TypeOK
<1>6. CASE ~(clst <= 1 \/ clst >= n_fatent)
  <2>1. /\ curr_clust' = clst /\ fptr' = fptr + bcs /\ left' = left - bcs /\ UNCHANGED <<file, pc, res>>
    BY Zenon, <1>3, <1>6
  <2>2. clst = Chain[file][k + 1]
    <3>1. clst = get_fat(curr_clust)
      BY <1>6 DEF get_fatResults
    <3>2. k \in 0 .. MaxChain - 1
      BY Zenon, <1>2
    <3> QED
      BY Zenon, <1>2, <3>1, <3>2, FileFacts
  <2>3. k \in Nat /\ k + 1 \in Nat
    BY <1>2
  <2>4. fptr' = (k + 1) * bcs
    BY Zenon, <1>2, <2>1, <2>3, ClusterStart
  <2>5. fptr' % bcs = 0 /\ fptr' \div bcs = k + 1
    BY Zenon, <2>3, <2>4, ClusterStart
  <2>6. /\ fptr' \in Nat /\ left' \in Nat /\ left' > 0 /\ fptr' + left' = fptr + left
    BY <1>1, <1>2, <2>1, Sizes
  <2>7. TypeOK'
    <3>1. fptr' \in 0 .. MaxChain * bcs
      BY <1>2, <2>6
    <3> QED
      BY Zenon, <1>1, <1>4, <2>1, <2>6, <3>1 DEF Inv, TypeOK
  <2>8. PositionsAgree'
    <3>1. fptr' <= file.fsize
      BY <1>2, <2>6
    <3> QED
      BY Zenon, <1>1, <2>1, <3>1 DEF PositionsAgree
  <2>9. SeekOnItsWay'
    BY Zenon, <1>1, <1>2, <2>1, <2>2, <2>5, <2>6 DEF SeekOnItsWay
  <2>10. InCall'
    BY Zenon, <1>1, <1>2, <2>1 DEF InCall
  <2> QED
    BY Zenon, <2>7, <2>8, <2>9, <2>10 DEF Inv
<1> QED
  BY Zenon, <1>5, <1>6

\* The end of pf_lseek.
LEMMA LseekEndKeeps ==
  ASSUME Inv, LseekEnd PROVE Inv'
<1> DEFINE k == fptr \div bcs
<1>1. pc = "lseek" /\ left <= bcs /\ UNCHANGED <<curr_clust, call, buff, br, buf>> /\ fptr' = fptr + left
  BY Zenon DEF LseekEnd
<1>2. /\ file \in Files /\ file # None /\ fptr \in Nat /\ left \in Nat /\ left > 0 /\ fptr + left <= file.fsize
      /\ file.fsize \in Nat /\ file.fsize <= MaxChain * bcs /\ MaxChain * bcs \in Nat
      /\ k \in Nat /\ fptr = k * bcs /\ curr_clust = Chain[file][k] /\ curr_clust \in Nat
  BY <1>1, SeekFacts
<1> HIDE DEF k
<1>3. fptr' \in 0 .. MaxChain * bcs /\ fptr' \in Nat /\ fptr' > 0
  BY <1>1, <1>2
<1>4. CASE clust2sect(curr_clust) = 0
  <2>1. Abort /\ UNCHANGED dsect
    BY Zenon, <1>4 DEF LseekEnd
  <2> QED
    BY Zenon, <1>1, <1>2, <1>3, <2>1, AbortKeeps DEF Inv, TypeOK
<1>5. CASE clust2sect(curr_clust) # 0
  <2>1. dsect' = clust2sect(curr_clust) + SectorOffset(fptr') /\ Return /\ UNCHANGED file
    BY Zenon, <1>5 DEF LseekEnd
  <2>2. (fptr' - 1) \div bcs = k
    <3>1. left \in 1 .. bcs
      BY <1>1, <1>2
    <3> QED
      BY <1>1, <1>2, ClusterStart
  <2>3. fptr' % SectorSize # 0 => fptr' \div bcs = k
    BY Zenon, <1>3, <2>2, Before, Boundary
  <2>4. SectorOffset(fptr') \in 0 .. (csize - 1)
    BY Zenon, <1>3, Parts
  <2>5. dsect' \in Nat
    BY <1>2, <2>1, <2>4, FatFacts
  <2>6. TypeOK' /\ InCall'
    BY Zenon, <1>1, <1>2, <1>3, <2>1, <2>5 DEF Inv, TypeOK, InCall, Return
  <2>7. SeekOnItsWay'
    BY Zenon, <2>1 DEF Return, SeekOnItsWay
  <2>8. PositionsAgree'
    BY Zenon, <1>1, <1>2, <1>3, <1>5, <2>1, <2>2, <2>3 DEF PositionsAgree, Byte, SectorOffset
  <2> QED
    BY Zenon, <2>6, <2>7, <2>8 DEF Inv
<1> QED
  BY Zenon, <1>4, <1>5

\* Every step keeps the invariant.
LEMMA InvNext == Inv /\ [Next]_vars => Inv'
<1> SUFFICES ASSUME Inv, [Next]_vars PROVE Inv'
  BY Zenon
<1>1. CASE UNCHANGED vars
  BY <1>1 DEF vars, Inv, TypeOK, PositionsAgree, SeekOnItsWay, InCall
<1>2. CASE Next
  BY Zenon, <1>2, OpenKeeps, ReadCallKeeps, NotOpenedKeeps, ReadIterationKeeps, ReadReturnKeeps,
     LseekCallKeeps, LseekTopKeeps, LseekFollowKeeps, LseekEndKeeps DEF Next
<1> QED
  BY Zenon, <1>1, <1>2

\* The inductive invariant of the open file.
THEOREM FileInvariant == Spec => []Inv
BY InvInit, InvNext, PTL DEF Spec

\* The state keeps its type.
THEOREM FileTypes == Spec => []TypeOK
<1>1. Inv => TypeOK
  BY Zenon DEF Inv
<1> QED
  BY <1>1, FileInvariant, PTL

\* Position, cluster and sector agree after any mixture of pf_open, pf_read
\* and pf_lseek calls, with any of their disk accesses failing, on any volume
\* (pff.c:928 and 1055).
THEOREM FilePositions == Spec => []PositionsAgree
<1>1. Inv => PositionsAgree
  BY Zenon DEF Inv
<1> QED
  BY <1>1, FileInvariant, PTL

\* pf_lseek's loop follows the chain exactly as far as fptr says, whether it
\* started from the current cluster or from the top (pff.c:1055).
THEOREM FileSeeks == Spec => []SeekOnItsWay
<1>1. Inv => SeekOnItsWay
  BY Zenon DEF Inv
<1> QED
  BY <1>1, FileInvariant, PTL

\* A call that returns FR_OK did all it was asked (pff.c:928 and 1055).
THEOREM FileCallsComplete == Spec => CallsComplete
<1> DEFINE A == /\ ReadReturn => /\ br = Smaller(call.arg, file.fsize - call.ifptr)
                                 /\ fptr = call.ifptr + br
                /\ LseekEnd /\ res' = "OK" /\ file' # None => fptr' = Smaller(call.arg, file.fsize)
<1>1. Inv => [A]_vars
  <2>1. ASSUME Inv, ReadReturn
        PROVE  br = Smaller(call.arg, file.fsize - call.ifptr) /\ fptr = call.ifptr + br
    <3>1. left = 0 /\ pc = "read" /\ br \in Nat
      BY Zenon, <2>1 DEF Inv, TypeOK, ReadReturn
    <3> QED
      BY <2>1, <3>1 DEF Inv, InCall
  <2>2. ASSUME Inv, LseekEnd PROVE fptr' = Smaller(call.arg, file.fsize)
    BY Zenon, <2>2, SeekFacts DEF LseekEnd
  <2> QED
    BY Zenon, <2>1, <2>2
<1>2. []Inv => [][A]_vars
  BY <1>1, PTL
<1> QED
  BY Zenon, <1>2, FileInvariant DEF CallsComplete

-----------------------------------------------------------------------------
(* What reads write to memory, when no caller passes a null buffer. *)

\* The bytes counted lie from the start of the buffer on, and nothing else is
\* written.
Written ==
    /\ DOMAIN buf = buff .. buff + br - 1
    /\ pc = "read" => buff # 0

\* What a transfer writes to memory.
LEMMA TransferWrites ==
  ASSUME Written, pc = "read", buff \in Nat, br \in Nat, NEW sector, NEW offset \in Nat, NEW rcnt \in Nat,
         buf' = disk_readp(rbuff, sector, offset, rcnt)
  PROVE  /\ DOMAIN buf' = buff .. buff + (br + rcnt) - 1
         /\ \A i \in 1 .. br : buf'[buff + i - 1] = buf[buff + i - 1]
         /\ \A i \in 1 .. rcnt : buf'[buff + (br + i) - 1] = <<sector, offset + i - 1>>
<1>1. rbuff = buff + br /\ DOMAIN buf = buff .. buff + br - 1
  BY Zenon DEF Written, rbuff
<1>2. buf' = [a \in (buff .. buff + br - 1) \cup (buff + br .. buff + br + rcnt - 1) |->
              IF a \in buff + br .. buff + br + rcnt - 1 THEN <<sector, offset + a - (buff + br)>> ELSE buf[a]]
  BY Zenon, <1>1 DEF disk_readp
<1>3. DOMAIN buf' = buff .. buff + (br + rcnt) - 1
  BY <1>2
<1>4. ASSUME NEW i \in 1 .. br PROVE buf'[buff + i - 1] = buf[buff + i - 1]
  BY <1>2
<1>5. ASSUME NEW i \in 1 .. rcnt PROVE buf'[buff + (br + i) - 1] = <<sector, offset + i - 1>>
  <2> DEFINE a == buff + (br + i) - 1
  <2>1. a \in buff + br .. buff + br + rcnt - 1 /\ offset + a - (buff + br) = offset + i - 1
    OBVIOUS
  <2> HIDE DEF a
  <2>2. buf'[a] = <<sector, offset + a - (buff + br)>>
    BY Zenon, <1>2, <2>1
  <2> QED
    BY Zenon, <2>1, <2>2 DEF a
<1> QED
  BY Zenon, <1>3, <1>4, <1>5

\* Every step keeps what is written in the buffer.
LEMMA WrittenNext ==
  ASSUME 0 \notin Buffers, Inv, Written, [Next]_vars PROVE Written'
<1>1. buff \in Nat /\ br \in Nat
  BY Zenon DEF Inv, TypeOK
<1>2. DOMAIN (<< >>) = {}
  OBVIOUS
<1>3. ASSUME UNCHANGED <<buff, br, buf>>, pc' = pc \/ pc' # "read" PROVE Written'
  BY Zenon, <1>3 DEF Written
<1>4. CASE UNCHANGED vars
  BY Zenon, <1>3, <1>4 DEF vars
<1>5. ASSUME NEW n \in ReadSizes, NEW b \in Buffers, ReadCall(n, b) PROVE Written'
  <2>1. buff' = b /\ b \in Nat /\ b # 0 /\ br' = 0 /\ buf' = << >>
    BY Zenon, <1>5, RequestsAssumption DEF ReadCall
  <2> QED
    BY <2>1 DEF Written
<1>6. CASE CallNotOpened
  <2>1. CASE br' = 0 /\ buf' = << >>
    BY <1>1, <1>6 DEF Written, CallNotOpened
  <2> QED
    BY Zenon, <1>3, <1>6, <2>1 DEF CallNotOpened
<1>7. CASE ReadIteration
  <2>1. pc = "read" /\ fptr % SectorSize \in Nat
    <3>1. fptr \in Nat
      BY DEF Inv, TypeOK
    <3> QED
      BY <1>7, <3>1, Sizes DEF ReadIteration
  <2>2. CASE Abort /\ UNCHANGED <<buff, br, buf>>
    BY Zenon, <1>3, <2>2 DEF Abort
  <2>3. CASE \E sector \in Nat, rcnt \in Nat :
               /\ br' = br + rcnt /\ buf' = disk_readp(rbuff, sector, fptr % SectorSize, rcnt)
               /\ UNCHANGED <<pc, buff>>
    <3>1. PICK sector \in Nat, rcnt \in Nat :
               /\ br' = br + rcnt /\ buf' = disk_readp(rbuff, sector, fptr % SectorSize, rcnt)
               /\ UNCHANGED <<pc, buff>>
      BY Zenon, <2>3
    <3>2. DOMAIN buf' = buff .. buff + (br + rcnt) - 1
      BY Zenon, <1>1, <2>1, <3>1, TransferWrites
    <3> QED
      BY Zenon, <1>1, <3>1, <3>2 DEF Written
  <2> QED
    BY Zenon, <1>7, <2>2, <2>3, IterationCases
<1>8. CASE pf_open \/ ReadReturn \/ (\E n \in SeekOffsets : LseekCall(n) \/ LseekTop(n))
           \/ LseekFollow \/ LseekEnd
  BY Zenon, <1>3, <1>8
  DEF pf_open, ReadReturn, LseekCall, LseekTop, LseekFollow, LseekEnd, Return, Abort
<1> QED
  BY Zenon, <1>4, <1>5, <1>6, <1>7, <1>8 DEF Next

\* Reads write the caller's buffer and nothing else, and never more than was
\* asked, when every buffer has an address other than 0 (pff.c:928).
THEOREM FileWritesOnlyBuffer ==
  ASSUME 0 \notin Buffers PROVE Spec => []WritesOnlyBuffer
<1>1. Init => Written
  BY DEF Init, Written
<1>2. Inv /\ Written /\ [Next]_vars => Written'
  BY Zenon, WrittenNext
<1>3. Inv /\ Written => WritesOnlyBuffer
  <2> SUFFICES ASSUME Inv, Written, pc = "read" PROVE br + left <= call.arg
    BY Zenon DEF Written, WritesOnlyBuffer
  <2>1. file \in Files /\ call.arg \in Nat /\ call.ifptr \in Nat
    BY DEF Inv, TypeOK, InCall
  <2>2. file.fsize \in Nat
    BY Zenon, <2>1, FileFacts
  <2> QED
    BY <2>1, <2>2 DEF Inv, InCall, Smaller
<1> QED
  BY <1>1, <1>2, <1>3, FileInvariant, PTL DEF Spec

-----------------------------------------------------------------------------
(* The open file implements a sequence of bytes with a position. *)

\* A function from the first n numbers is a sequence of length n.
LEMMA IsSequence ==
  ASSUME NEW T, NEW n \in Nat, NEW f \in [1 .. n -> T]
  PROVE  f \in Seq(T) /\ Len(f) = n
<1>1. f \in Seq(T)
  BY Zenon, SeqDef
<1> QED
  BY <1>1, LenProperties

\* Two sequences given by their elements, one after the other.
LEMMA Concatenation ==
  ASSUME NEW T, NEW f \in Seq(T), NEW g \in Seq(T), NEW h \in Seq(T), Len(h) = Len(f) + Len(g),
         \A i \in 1 .. Len(f) : h[i] = f[i], \A i \in 1 .. Len(g) : h[Len(f) + i] = g[i]
  PROVE  h = f \o g
<1> DEFINE m == Len(f)
           n == Len(g)
<1>1. m \in Nat /\ n \in Nat
  BY Zenon, LenProperties
<1>2. Len(f) = m /\ Len(g) = n /\ Len(h) = m + n
  BY Zenon
<1>3. /\ f \o g \in Seq(T) /\ Len(f \o g) = Len(f) + Len(g)
      /\ \A i \in 1 .. Len(f) + Len(g) : (f \o g)[i] = IF i <= Len(f) THEN f[i] ELSE g[i - Len(f)]
  BY Zenon, ConcatProperties
<1> HIDE DEF m, n
<1>4. ASSUME NEW i \in 1 .. Len(h) PROVE h[i] = (f \o g)[i]
  <2>1. CASE i <= m
    <3>1. i \in 1 .. m
      BY <2>1
    <3> QED
      BY Zenon, <1>2, <1>3, <2>1, <3>1
  <2>2. CASE ~(i <= m)
    <3> DEFINE j == i - m
    <3>1. j \in 1 .. n /\ m + j = i
      BY <1>1, <1>2, <2>2
    <3> HIDE DEF j
    <3>2. h[m + j] = g[j]
      BY Zenon, <3>1 DEF m, n
    <3> QED
      BY Zenon, <1>1, <1>2, <1>3, <2>2, <3>1, <3>2 DEF j
  <2> QED
    BY Zenon, <2>1, <2>2
<1> QED
  BY Zenon, <1>1, <1>2, <1>3, <1>4, SeqEqual

\* The bytes that a transfer copies come after the ones delivered before.
LEMMA TransferDelivers ==
  ASSUME Written, pc = "read", buff \in Nat, br \in Nat, NEW sector, NEW offset \in Nat, NEW rcnt \in Nat,
         buff' = buff, br' = br + rcnt, buf' = disk_readp(rbuff, sector, offset, rcnt)
  PROVE  got' = got \o [i \in 1 .. rcnt |-> <<sector, offset + i - 1>>]
<1>1. br \in Nat
  BY Zenon
<1>2. /\ \A i \in 1 .. br : buf'[buff + i - 1] = buf[buff + i - 1]
      /\ \A i \in 1 .. rcnt : buf'[buff + (br + i) - 1] = <<sector, offset + i - 1>>
  BY Zenon, TransferWrites
<1> DEFINE g == [i \in 1 .. rcnt |-> <<sector, offset + i - 1>>]
<1>3. ASSUME NEW i \in 1 .. br PROVE got'[i] = got[i]
  <2>1. i \in 1 .. br + rcnt
    BY <1>1
  <2>2. got'[i] = buf'[buff + i - 1]
    BY Zenon, <2>1 DEF got
  <2> QED
    BY Zenon, <1>2, <2>2 DEF got
<1>4. ASSUME NEW i \in 1 .. rcnt PROVE got'[br + i] = g[i]
  <2>1. br + i \in 1 .. br + rcnt
    BY <1>1
  <2>2. got'[br + i] = buf'[buff + (br + i) - 1]
    BY Zenon, <2>1 DEF got
  <2> QED
    BY Zenon, <1>2, <2>2
<1> DEFINE T == {got'[i] : i \in 1 .. br + rcnt}
<1>5. got \in [1 .. br -> T] /\ g \in [1 .. rcnt -> T] /\ got' \in [1 .. br + rcnt -> T]
  <2>1. got' \in [1 .. br + rcnt -> T]
    BY Zenon DEF got
  <2>2. ASSUME NEW i \in 1 .. br PROVE got[i] \in T
    BY <1>3
  <2>3. ASSUME NEW i \in 1 .. rcnt PROVE g[i] \in T
    <3>1. br + i \in 1 .. br + rcnt
      BY <1>1
    <3> QED
      BY Zenon, <1>4, <3>1
  <2> HIDE DEF T
  <2>4. got \in [1 .. br -> T]
    BY Zenon, <2>2 DEF got
  <2>5. g \in [1 .. rcnt -> T]
    BY Zenon, <2>3
  <2> QED
    BY Zenon, <2>1, <2>4, <2>5
<1> HIDE DEF g, T
<1>6. got' = got \o g
  <2>1. br + rcnt \in Nat
    BY <1>1
  <2>2. got \in Seq(T) /\ g \in Seq(T) /\ got' \in Seq(T)
    BY Zenon, <1>1, <1>5, <2>1, IsSequence
  <2>3. Len(got) = br /\ Len(g) = rcnt /\ Len(got') = br + rcnt
    BY Zenon, <1>1, <1>5, <2>1, IsSequence
  <2> QED
    BY Zenon, <1>1, <1>3, <1>4, <2>2, <2>3, Concatenation
<1> QED
  BY Zenon, <1>6 DEF g

\* The bytes of a file that lie in the sector of a position.
LEMMA BytesOfSector ==
  ASSUME NEW p \in Nat, NEW i \in Nat, 1 <= i, i <= SectorSize - (p % SectorSize), NEW f
  PROVE  Byte(f, p + i - 1) = <<clust2sect(Chain[f][p \div bcs]) + SectorOffset(p), (p % SectorSize) + i - 1>>
<1>1. p % SectorSize \in 0 .. (SectorSize - 1)
  BY Zenon, Parts
<1> DEFINE d == i - 1
<1>2. d \in Nat /\ (p % SectorSize) + d < SectorSize /\ p + i - 1 = p + d
      /\ (p % SectorSize) + i - 1 = (p % SectorSize) + d
  BY Sizes
<1> HIDE DEF d
<1>3. Byte(f, p + d) = <<clust2sect(Chain[f][p \div bcs]) + SectorOffset(p), (p % SectorSize) + d>>
  BY Zenon, <1>2, SameSector DEF Byte
<1> QED
  BY Zenon, <1>2, <1>3

\* The position and the count that the refinement mapping shows.
Pos == IF file = None THEN 0 ELSE IF pc = "lseek" THEN call.ifptr ELSE fptr
Want == IF pc = "read" THEN left ELSE 0

\* A step that fails.
LEMMA FailMaps ==
  ASSUME file' = None, pc' = "idle", UNCHANGED <<buff, br, buf>> PROVE AbstractFile!Fail
BY Zenon DEF AbstractFile!Fail, got

\* One iteration of pf_read's loop delivers bytes, or fails.
LEMMA IterationMaps ==
  ASSUME Inv, Written, ReadIteration PROVE AbstractFile!Deliver \/ AbstractFile!Fail
<1>1. /\ pc = "read" /\ left > 0 /\ file # None
      /\ fptr \in Nat /\ left \in Nat /\ buff \in Nat /\ br \in Nat
  BY DEF Inv, TypeOK, InCall, ReadIteration
<1>2. CASE Abort /\ UNCHANGED <<buff, br, buf>>
  BY Zenon, <1>2, FailMaps DEF Abort
<1>3. CASE \E clst \in Nat, sector \in Nat, rcnt \in Nat :
              /\ clst = Chain[file][fptr \div bcs] /\ sector = clust2sect(clst) + SectorOffset(fptr)
              /\ rcnt = Smaller(SectorSize - (fptr % SectorSize), left)
              /\ fptr' = fptr + rcnt /\ left' = left - rcnt /\ br' = br + rcnt
              /\ buf' = disk_readp(rbuff, sector, fptr % SectorSize, rcnt)
              /\ UNCHANGED <<file, pc, buff>>
  <2>1. PICK clst \in Nat, sector \in Nat, rcnt \in Nat :
              /\ clst = Chain[file][fptr \div bcs] /\ sector = clust2sect(clst) + SectorOffset(fptr)
              /\ rcnt = Smaller(SectorSize - (fptr % SectorSize), left)
              /\ fptr' = fptr + rcnt /\ left' = left - rcnt /\ br' = br + rcnt
              /\ buf' = disk_readp(rbuff, sector, fptr % SectorSize, rcnt)
              /\ UNCHANGED <<file, pc, buff>>
    BY Zenon, <1>3
  <2>2. fptr % SectorSize \in 0 .. (SectorSize - 1)
    BY Zenon, <1>1, Parts
  <2>3. fptr % SectorSize \in Nat /\ rcnt \in 1 .. left /\ rcnt <= SectorSize - (fptr % SectorSize)
    BY <1>1, <2>1, Sizes DEF Smaller
  <2> DEFINE o == fptr % SectorSize
             s == clust2sect(Chain[file][fptr \div bcs]) + SectorOffset(fptr)
  <2>4. /\ buff \in Nat /\ br \in Nat /\ rcnt \in Nat /\ o \in Nat /\ buff' = buff /\ br' = br + rcnt
        /\ buf' = disk_readp(rbuff, s, o, rcnt)
    BY Zenon, <1>1, <2>1, <2>3
  <2>5. [i \in 1 .. rcnt |-> Byte(file, fptr + i - 1)] = [i \in 1 .. rcnt |-> <<s, o + i - 1>>]
    <3>1. ASSUME NEW i \in 1 .. rcnt PROVE Byte(file, fptr + i - 1) = <<s, o + i - 1>>
      <4>1. i \in Nat /\ 1 <= i /\ i <= SectorSize - (fptr % SectorSize)
        BY <2>3, Sizes
      <4> QED
        BY Zenon, <1>1, <4>1, BytesOfSector
    <3> QED
      BY Zenon, <3>1
  <2> HIDE DEF o, s
  <2>6. got' = got \o [i \in 1 .. rcnt |-> Byte(file, fptr + i - 1)]
    <3>1. got' = got \o [i \in 1 .. rcnt |-> <<s, o + i - 1>>]
      BY Zenon, <1>1, <2>4, TransferDelivers
    <3> QED
      BY Zenon, <2>5, <3>1
  <2>7. Pos = fptr /\ Want = left /\ Pos' = fptr + rcnt /\ Want' = left - rcnt
    BY Zenon, <1>1, <2>1 DEF Pos, Want
  <2>8. AbstractFile!Deliver
    <3>1. rcnt \in 1 .. Want /\ got' = got \o [i \in 1 .. rcnt |-> Byte(file, Pos + i - 1)]
          /\ Pos' = Pos + rcnt /\ Want' = Want - rcnt /\ file # None /\ file' = file
      BY Zenon, <1>1, <2>1, <2>3, <2>6, <2>7
    <3> QED
      BY Zenon, <3>1 DEF AbstractFile!Deliver, Pos, Want
  <2> QED
    BY Zenon, <2>8
<1> QED
  BY <1>2, <1>3, IterationCases

\* A step that leaves what has been read alone.
LEMMA GotKept ==
  ASSUME UNCHANGED <<buff, br, buf>> PROVE got' = got
BY Zenon DEF got

\* What has been read when nothing has.
LEMMA GotNothing ==
  ASSUME br = 0 PROVE got = << >>
BY DEF got

\* Opening a file opens it, or fails.
LEMMA OpenMaps ==
  ASSUME Inv, pf_open PROVE AbstractFile!Open \/ AbstractFile!Fail
<1>1. got' = got
  BY Zenon, GotKept DEF pf_open
<1>2. CASE \E f \in Files : file' = f /\ fptr' = 0
  <2>1. file' \in Files /\ fptr' = 0 /\ pc' = "idle"
    BY Zenon, <1>2 DEF pf_open
  <2> QED
    BY Zenon, <1>1, <2>1 DEF AbstractFile!Open
<1>3. CASE file' = None
  BY Zenon, <1>3, FailMaps DEF pf_open
<1> QED
  BY Zenon, <1>2, <1>3 DEF pf_open

\* pf_read before its loop begins a read.
LEMMA ReadCallMaps ==
  ASSUME Inv, NEW n \in ReadSizes, NEW b \in Buffers, ReadCall(n, b) PROVE AbstractFile!BeginRead
<1>1. file \in Files /\ fptr \in Nat /\ n \in Nat
  BY RequestsAssumption DEF Inv, TypeOK, ReadCall
<1>2. file.fsize \in Nat /\ fptr <= file.fsize /\ file # None
  BY Zenon, <1>1, FileFacts DEF Inv, PositionsAgree
<1>3. left' \in 0 .. file.fsize - fptr
  BY <1>1, <1>2 DEF ReadCall, Smaller
<1>4. got' = << >>
  BY DEF ReadCall, got
<1> QED
  BY Zenon, <1>2, <1>3, <1>4 DEF ReadCall, AbstractFile!BeginRead, Size

\* A call without an open file fails.
LEMMA NotOpenedMaps ==
  ASSUME Inv, CallNotOpened PROVE AbstractFile!Fail
<1>1. CASE br' = 0 /\ buf' = << >>
  <2>1. got' = << >>
    BY <1>1 DEF got
  <2> QED
    BY Zenon, <2>1 DEF CallNotOpened, AbstractFile!Fail
<1>2. CASE UNCHANGED <<br, buf>>
  BY Zenon, <1>2, FailMaps DEF CallNotOpened
<1> QED
  BY Zenon, <1>1, <1>2 DEF CallNotOpened

\* A seek moves the position when it returns; before that, nothing is seen of it.
LEMMA LseekMaps ==
  ASSUME Inv, NEW n,
         LseekCall(n) \/ LseekTop(n) \/ LseekFollow \/ LseekEnd \/ ReadReturn
  PROVE  AbstractFile!Seek \/ AbstractFile!Fail \/ UNCHANGED AbstractFile!vars
<1>1. UNCHANGED <<buff, br, buf>>
  BY Zenon DEF LseekCall, LseekTop, LseekFollow, LseekEnd, ReadReturn
<1>2. got' = got
  BY Zenon, <1>1, GotKept
<1>3. file # None /\ file \in Files
  BY Zenon, FilesAssumption
  DEF Inv, TypeOK, InCall, LseekCall, LseekTop, LseekFollow, LseekEnd, ReadReturn
<1>4. file.fsize \in Nat
  BY Zenon, <1>3, FileFacts
<1>5. CASE LseekCall(n)
  <2>1. pc = "idle" /\ pc' = "lseek" /\ call'.ifptr = fptr /\ file' = file
    BY Zenon, <1>5 DEF LseekCall
  <2> QED
    BY Zenon, <1>2, <1>3, <2>1 DEF AbstractFile!vars
<1>6. CASE LseekTop(n)
  BY <1>2, <1>4, <1>6 DEF LseekTop, AbstractFile!Seek, Size
<1>7. CASE Abort
  BY Zenon, <1>1, <1>7, FailMaps DEF Abort
<1>8. CASE LseekFollow /\ ~Abort
  <2>1. pc = "lseek" /\ UNCHANGED <<pc, call, file>>
    BY Zenon, <1>8 DEF LseekFollow
  <2> QED
    BY Zenon, <1>2, <2>1 DEF AbstractFile!vars
<1>9. CASE LseekEnd /\ ~Abort
  <2>1. pc = "lseek" /\ pc' = "idle" /\ file' = file /\ fptr' = fptr + left
    BY Zenon, <1>9 DEF LseekEnd, Return
  <2>2. fptr' \in 0 .. file.fsize
    BY <2>1, SeekFacts
  <2> QED
    BY Zenon, <1>2, <1>3, <2>1, <2>2 DEF AbstractFile!Seek, Size
<1>10. CASE ReadReturn
  <2>1. pc = "read" /\ left = 0 /\ pc' = "idle" /\ UNCHANGED <<file, fptr>>
    BY Zenon, <1>10 DEF ReadReturn, Return
  <2> QED
    BY Zenon, <1>2, <2>1 DEF AbstractFile!vars
<1> QED
  BY Zenon, <1>5, <1>6, <1>7, <1>8, <1>9, <1>10

\* The open file of a mounted volume is a sequence of bytes with a position:
\* pf_open, pf_read and pf_lseek, for every sector and cluster size, every
\* allocation table and every order of calls and disk errors, deliver the
\* bytes that the volume's layout says, in order (pff.c:894, 928 and 1055).
THEOREM FileImplementsSequence ==
  ASSUME 0 \notin Buffers PROVE Spec => ImplementsFile
<1>1. Init => Written
  BY DEF Init, Written
<1>2. Inv /\ Written /\ [Next]_vars => Written'
  BY Zenon, WrittenNext
<1>3. Init => AbstractFile!Init
  <2> SUFFICES ASSUME Init PROVE AbstractFile!Init
    BY Zenon
  <2>1. got = << >>
    BY Zenon, GotNothing DEF Init
  <2> QED
    BY Zenon, <2>1 DEF Init, AbstractFile!Init
<1>4. Inv /\ Written /\ [Next]_vars => [AbstractFile!Next]_(AbstractFile!vars)
  <2> SUFFICES ASSUME Inv, Written, [Next]_vars
               PROVE  AbstractFile!Next \/ UNCHANGED AbstractFile!vars
    BY Zenon
  <2>1. CASE UNCHANGED vars
    <3>1. got' = got
      BY Zenon, <2>1, GotKept DEF vars
    <3> QED
      BY Zenon, <2>1, <3>1 DEF vars, AbstractFile!vars
  <2>2. CASE pf_open
    BY Zenon, <2>2, OpenMaps DEF AbstractFile!Next
  <2>3. ASSUME NEW n \in ReadSizes, NEW b \in Buffers, ReadCall(n, b) PROVE AbstractFile!Next
    BY Zenon, <2>3, ReadCallMaps DEF AbstractFile!Next
  <2>4. CASE CallNotOpened
    BY Zenon, <2>4, NotOpenedMaps DEF AbstractFile!Next
  <2>5. CASE ReadIteration
    BY Zenon, <2>5, IterationMaps DEF AbstractFile!Next
  <2>6. ASSUME NEW n \in SeekOffsets, LseekCall(n) \/ LseekTop(n)
        PROVE  AbstractFile!Next \/ UNCHANGED AbstractFile!vars
    BY Zenon, <2>6, LseekMaps DEF AbstractFile!Next
  <2>7. CASE LseekFollow \/ LseekEnd \/ ReadReturn
    BY Zenon, <2>7, LseekMaps DEF AbstractFile!Next
  <2> QED
    BY Zenon, <2>1, <2>2, <2>3, <2>4, <2>5, <2>6, <2>7 DEF Next
<1> QED
  BY <1>1, <1>2, <1>3, <1>4, FileInvariant, PTL DEF Spec, ImplementsFile, AbstractFile!Spec
=============================================================================
