-------------------------- MODULE MuslMallocProofs --------------------------
(* The slot allocator keeps every slot, for any number of threads and of   *)
(* groups and any shapes of a group: the invariant, lemmas on lists and    *)
(* masks, the steps of malloc, the steps of free, and the theorems.        *)
EXTENDS MuslMalloc, TLAPS

\* Where a thread is while it has the lock, and while it frees a slot.
Locked == {"head", "mask", "mask2", "inactive", "activate", "store", "take",
           "group", "nontrivial", "or", "reactivate", "restore"}

Unlocked == {"idle", "freed", "avail", "cas", "lock"}

Frees == {"freed", "avail", "cas", "lock", "nontrivial", "or"}

Takes == {"store", "restore"}

Slots == Metas \X Nat

Types ==
    /\ lock \in SUBSET Threads
    /\ active \in Seq(Metas)
    /\ used \in SUBSET Metas
    /\ last_idx \in [Metas -> Nat] /\ active_idx \in [Metas -> Nat]
    /\ avail_mask \in [Metas -> SUBSET Nat]
    /\ freed_mask \in [Metas -> SUBSET Nat]
    /\ live \in SUBSET Slots
    /\ pc \in [Threads -> Locked \union Unlocked]
    /\ slot \in [Threads -> Slots \union {None}]
    /\ mask \in [Threads -> SUBSET Nat]
    /\ crashed = FALSE

\* One thread at most has the lock, and it is where it needs it.
LockHeld ==
    /\ \A t \in Threads : t \in lock <=> pc[t] \in Locked
    /\ \A t, u \in lock : t = u

\* Masks and slots are within a group that there is.
Within ==
    /\ \A g \in Metas : avail_mask[g] \union freed_mask[g] \subseteq All(g)
    /\ \A g \in Metas \ used : avail_mask[g] = {} /\ freed_mask[g] = {}
    /\ \A s \in live : s[1] \in used /\ s[2] \in All(s[1])
    /\ \A t \in Threads : pc[t] \in Frees =>
        slot[t] \in Slots /\ Group(t) \in used /\ Index(t) \in All(Group(t))
    /\ \A t \in Threads : pc[t] \in Takes =>
        active # <<>> /\ mask[t] \subseteq All(active[1])

\* A slot is in one place at most ...
Apart ==
    /\ \A g \in Metas : avail_mask[g] \intersect freed_mask[g] = {}
    /\ \A s \in live : s[2] \notin avail_mask[s[1]] \union freed_mask[s[1]]
    /\ \A t \in Threads : pc[t] \in Frees =>
        /\ slot[t] \notin live
        /\ Index(t) \notin avail_mask[Group(t)] \union freed_mask[Group(t)]
        /\ \A u \in Threads : pc[u] \in Frees /\ slot[u] = slot[t] => u = t
    /\ \A t \in Threads : pc[t] \in Takes => \A i \in mask[t] :
        /\ i \notin avail_mask[active[1]] \union freed_mask[active[1]]
        /\ <<active[1], i>> \notin live
        /\ \A u \in Threads : pc[u] \in Frees => slot[u] # <<active[1], i>>

\* ... and in one at least.
Place(g, i) ==
    \/ <<g, i>> \in live
    \/ i \in avail_mask[g]
    \/ i \in freed_mask[g]
    \/ \E t \in Threads : pc[t] \in Frees /\ slot[t] = <<g, i>>
    \/ \E t \in Threads : pc[t] \in Takes /\ active[1] = g /\ i \in mask[t]

Somewhere == \A g \in used : \A i \in All(g) : Place(g, i)

\* The list: no group twice, every group that has a free slot, and all but
\* the head with slots freed and none available.
OnList(g) == \E n \in 1 .. Len(active) : active[n] = g

List ==
    /\ \A m, n \in 1 .. Len(active) : active[m] = active[n] => m = n
    /\ \A n \in 1 .. Len(active) : active[n] \in used
    /\ \A g \in used : ~OnList(g) => avail_mask[g] = {} /\ freed_mask[g] = {}
    /\ \A n \in 2 .. Len(active) :
        /\ avail_mask[active[n]] = {}
        /\ \/ freed_mask[active[n]] # {}
           \/ \E t \in Threads : pc[t] = "or" /\ Group(t) = active[n]

\* Slots that are not active yet are free, and only one group has some.
Inactive ==
    /\ \A g \in used : active_idx[g] <= last_idx[g]
    /\ \A g \in used : \A i \in All(g) : i > active_idx[g] => i \in freed_mask[g]
    /\ \A g, h \in used :
        active_idx[g] < last_idx[g] /\ active_idx[h] < last_idx[h] => g = h

\* What malloc knows of the head of the list while it looks for a slot.
LooksAt(t) ==
    /\ pc[t] \in {"head", "mask", "mask2", "inactive", "activate", "store",
                  "reactivate", "restore"} =>
        active # <<>> /\ avail_mask[active[1]] = {}
    /\ pc[t] \in {"mask", "mask2", "inactive", "activate", "reactivate"} =>
        freed_mask[active[1]] # {}
    /\ pc[t] = "inactive" =>
        mask[t] # {} /\ mask[t] \subseteq freed_mask[active[1]]
    /\ pc[t] = "activate" =>
        \E i \in freed_mask[active[1]] : i <= active_idx[active[1]]
    /\ pc[t] \in Takes => \A i \in mask[t] : i <= active_idx[active[1]]
    /\ pc[t] = "store" => mask[t] # {}
    /\ pc[t] = "take" =>
        active # <<>> /\ avail_mask[active[1]] = mask[t] /\ mask[t] # {}
    /\ pc[t] = "group" => active = <<>>

Looking == \A t \in Threads : LooksAt(t)

\* What free knows of the masks it has read.
HasRead(t) ==
    /\ pc[t] = "avail" => Index(t) \notin mask[t]
    /\ pc[t] = "cas" => mask[t] # {}
    /\ pc[t] = "nontrivial" =>
        /\ mask[t] \subseteq freed_mask[Group(t)] \union avail_mask[Group(t)]
        /\ mask[t] = {} => freed_mask[Group(t)] \union avail_mask[Group(t)] = {}
    /\ pc[t] = "or" => OnList(Group(t))

Freeing == \A t \in Threads : HasRead(t)

\* The inductive invariant.
IInv == Types /\ LockHeld /\ Within /\ Apart /\ Somewhere /\ List /\ Inactive
            /\ Looking /\ Freeing

USE DEF Locked, Unlocked, Frees, Takes, Slots, Group, Index, All, Act, None

-----------------------------------------------------------------------------
(* The operators of the model. *)

\* The list with its head moved to the end.
LEMMA RotatedSeq ==
  ASSUME NEW S, NEW s \in Seq(S), s # <<>>
  PROVE  /\ Rotated(s) \in Seq(S)
         /\ Len(Rotated(s)) = Len(s)
         /\ \A k \in 1 .. Len(s) :
                Rotated(s)[k] = IF k < Len(s) THEN s[k + 1] ELSE s[1]
  BY DEF Rotated

\* The list without its head.
LEMMA TailSeq ==
  ASSUME NEW S, NEW s \in Seq(S), s # <<>>
  PROVE  /\ Head(s) = s[1] /\ Len(s) \in Nat \ {0}
         /\ Tail(s) \in Seq(S)
         /\ Len(Tail(s)) = Len(s) - 1
         /\ \A k \in 1 .. Len(s) - 1 : Tail(s)[k] = s[k + 1]
  OBVIOUS

\* The list with a group queued.
LEMMA AppendSeq ==
  ASSUME NEW S, NEW s \in Seq(S), NEW g \in S
  PROVE  /\ Append(s, g) \in Seq(S)
         /\ Len(Append(s, g)) = Len(s) + 1
         /\ \A k \in 1 .. Len(s) + 1 :
                Append(s, g)[k] = IF k <= Len(s) THEN s[k] ELSE g
  OBVIOUS

\* The list with the group at n taken out.
Without(s, n) == SubSeq(s, 1, n - 1) \o SubSeq(s, n + 1, Len(s))

\* What dequeue leaves on the list, and in what order.
LEMMA WithoutSeq ==
  ASSUME NEW S, NEW s \in Seq(S), NEW n \in 1 .. Len(s)
  PROVE  /\ Without(s, n) \in Seq(S)
         /\ Len(Without(s, n)) = Len(s) - 1
         /\ \A k \in 1 .. Len(s) - 1 :
                Without(s, n)[k] = IF k < n THEN s[k] ELSE s[k + 1]
<1> DEFINE a == SubSeq(s, 1, n - 1)
           b == SubSeq(s, n + 1, Len(s))
           r == Without(s, n)
           L == Len(s)
<1>1. /\ a \in Seq(S) /\ Len(a) = n - 1
      /\ \A k \in 1 .. n - 1 : a[k] = s[k]
  OBVIOUS
<1>2. /\ b \in Seq(S) /\ Len(b) = L - n
      /\ \A k \in 1 .. L - n : b[k] = s[n + k]
  OBVIOUS
<1>3. r = a \o b /\ L \in Nat /\ n \in 1 .. L
  BY DEF Without
<1> HIDE DEF a, b, r, L
<1>4. a \o b \in Seq(S) /\ Len(a \o b) = Len(a) + Len(b)
  <2>1. a \in Seq(S) /\ b \in Seq(S)
    BY Zenon, <1>1, <1>2
  <2>2. a \o b \in Seq(S)
    BY <2>1
  <2>3. Len(a \o b) = Len(a) + Len(b)
    BY <2>1
  <2> QED BY Zenon, <2>2, <2>3
<1>5. r \in Seq(S) /\ Len(r) = L - 1
  BY <1>1, <1>2, <1>3, <1>4
<1>6. ASSUME NEW k \in 1 .. n - 1 PROVE r[k] = s[k]
  <2>1. (a \o b)[k] = a[k]
    BY <1>1, <1>2
  <2> QED BY Zenon, <1>1, <1>3, <2>1
<1>7. ASSUME NEW k \in n .. L - 1 PROVE r[k] = s[k + 1]
  <2> DEFINE m == k - Len(a)
  <2>1. m \in 1 .. L - n /\ n + m = k + 1 /\ k \in Len(a) + 1 .. Len(a) + Len(b)
    BY <1>1, <1>2, <1>3
  <2>2. (a \o b)[k] = b[m]
    BY SMTT(30), <1>1, <1>2, <2>1
  <2> HIDE DEF m
  <2>3. b[m] = s[n + m]
    BY Zenon, <1>2, <2>1
  <2> QED BY Zenon, <1>3, <2>1, <2>2, <2>3
<1>8. ASSUME NEW k \in 1 .. L - 1
      PROVE  r[k] = IF k < n THEN s[k] ELSE s[k + 1]
  <2>1. CASE k < n
    <3>1. k \in 1 .. n - 1
      BY <1>3, <2>1
    <3> QED BY Zenon, <1>6, <2>1, <3>1
  <2>2. CASE ~(k < n)
    <3>1. k \in n .. L - 1
      BY <1>3, <2>2
    <3> QED BY Zenon, <1>7, <2>2, <3>1
  <2> QED BY Zenon, <2>1, <2>2
<1> QED BY Zenon, <1>5, <1>8 DEF r, L

-----------------------------------------------------------------------------
(* Every action keeps the invariant. *)

\* Before the first call there is no group.
LEMMA InitInv == Init => IInv
<1> SUFFICES ASSUME Init PROVE IInv
  BY Zenon
<1> QED BY
  DEF Init, IInv, Types, LockHeld, Within, Apart, Somewhere, List, Inactive, Looking, Freeing,
      LooksAt, HasRead

\* A thread that returns: it is idle, without the lock, and the others are
\* where they were.
LEMMA Returns ==
  ASSUME IInv, NEW t \in Threads, Return(t)
  PROVE  /\ pc' \in [Threads -> Locked \union Unlocked] /\ pc'[t] = "idle"
         /\ slot' \in [Threads -> Slots \union {None}]
         /\ mask' \in [Threads -> SUBSET Nat]
         /\ \A u \in Threads : u # t =>
                pc'[u] = pc[u] /\ slot'[u] = slot[u] /\ mask'[u] = mask[u]
         /\ lock' \in SUBSET Threads /\ LockHeld'
<1>1. /\ pc' \in [Threads -> Locked \union Unlocked] /\ pc'[t] = "idle"
      /\ slot' \in [Threads -> Slots \union {None}]
      /\ mask' \in [Threads -> SUBSET Nat]
      /\ \A u \in Threads : u # t =>
            pc'[u] = pc[u] /\ slot'[u] = slot[u] /\ mask'[u] = mask[u]
  BY Zenon DEF Return, Goto, Local, IInv, Types
<1>2. lock' = lock \ {t}
  BY Zenon DEF Return
<1> QED BY Zenon, <1>1, <1>2 DEF IInv, Types, LockHeld

\* A thread that goes on, and keeps the lock or does without.
LEMMA GoesOn ==
  ASSUME IInv, NEW t \in Threads, NEW at \in Locked \union Unlocked, Goto(t, at),
         UNCHANGED lock, at \in Locked <=> pc[t] \in Locked
  PROVE  /\ pc' \in [Threads -> Locked \union Unlocked] /\ pc'[t] = at
         /\ \A u \in Threads : u # t => pc'[u] = pc[u]
         /\ lock' \in SUBSET Threads /\ LockHeld'
<1> HIDE DEF Locked, Unlocked
<1>1. /\ pc' \in [Threads -> Locked \union Unlocked] /\ pc'[t] = at
      /\ \A u \in Threads : u # t => pc'[u] = pc[u]
  BY Zenon DEF Goto, IInv, Types
<1> QED BY Zenon, <1>1 DEF IInv, Types, LockHeld

\* What the others know while one has the lock.
LEMMA Bystander ==
  ASSUME IInv, NEW u \in Threads, pc[u] \notin Locked,
         pc'[u] = pc[u], slot'[u] = slot[u], mask'[u] = mask[u]
  PROVE  LooksAt(u)' /\ HasRead(u)'
<1>1. HasRead(u)
  BY Zenon DEF IInv, Freeing
<1> QED BY Zenon, <1>1 DEF LooksAt, HasRead

\* A slot that is being freed is nowhere else, and freed by one thread.
LEMMA FreeingSlot ==
  ASSUME IInv, NEW u \in Threads, pc[u] \in Frees
  PROVE  /\ slot[u] \in Slots /\ slot[u] = <<slot[u][1], slot[u][2]>>
         /\ slot[u][1] \in used /\ slot[u][1] \in Metas
         /\ slot[u][2] \in All(slot[u][1]) /\ slot[u][2] \in Nat
         /\ slot[u] \notin live
         /\ slot[u][2] \notin avail_mask[slot[u][1]] \union freed_mask[slot[u][1]]
         /\ \A v \in Threads : pc[v] \in Frees /\ slot[v] = slot[u] => v = u
<1> HIDE DEF Frees
<1>1. slot[u] \in Slots /\ slot[u][1] \in used /\ slot[u][2] \in All(slot[u][1])
  BY Zenon DEF IInv, Within
<1>2. slot[u] = <<slot[u][1], slot[u][2]>> /\ slot[u][1] \in Metas /\ slot[u][2] \in Nat
  BY <1>1
<1>3. /\ slot[u] \notin live
      /\ slot[u][2] \notin avail_mask[slot[u][1]] \union freed_mask[slot[u][1]]
      /\ \A v \in Threads : pc[v] \in Frees /\ slot[v] = slot[u] => v = u
  BY Zenon DEF IInv, Apart
<1> QED BY Zenon, <1>1, <1>2, <1>3

\* A slot leaves the avail_mask of a group.
LEMMA LessOne ==
  ASSUME Types, NEW g \in Metas, NEW i,
         avail_mask' = [avail_mask EXCEPT ![g] = @ \ {i}]
  PROVE  /\ avail_mask' \in [Metas -> SUBSET Nat]
         /\ avail_mask'[g] = avail_mask[g] \ {i}
         /\ \A x \in Metas : x # g => avail_mask'[x] = avail_mask[x]
         /\ \A x \in Metas : avail_mask'[x] \subseteq avail_mask[x]
  BY DEF Types

\* A slot goes from avail_mask of the head to the caller, who is done.
LEMMA HandsOutInv ==
  ASSUME IInv, NEW t \in Threads, pc[t] \in {"idle", "take"},
         \A u \in Threads : u # t => pc[u] \notin Locked,
         active # <<>>, NEW i \in avail_mask[active[1]],
         avail_mask' = [avail_mask EXCEPT ![active[1]] = @ \ {i}],
         live' = live \union {<<active[1], i>>},
         UNCHANGED <<active, used, last_idx, active_idx, freed_mask, crashed>>,
         pc' \in [Threads -> Locked \union Unlocked], pc'[t] = "idle",
         slot' \in [Threads -> Slots \union {None}],
         mask' \in [Threads -> SUBSET Nat],
         \A u \in Threads : u # t =>
            pc'[u] = pc[u] /\ slot'[u] = slot[u] /\ mask'[u] = mask[u],
         lock' \in SUBSET Threads, LockHeld'
  PROVE  IInv'
<1> DEFINE g == active[1]
<1>1. g \in Metas /\ g \in used /\ 1 \in 1 .. Len(active)
  BY DEF IInv, Types, List
<1>2. i \in avail_mask[g] /\ i \in Nat
  BY Zenon, <1>1 DEF IInv, Types
<1>3. /\ avail_mask' \in [Metas -> SUBSET Nat]
      /\ avail_mask'[g] = avail_mask[g] \ {i}
      /\ \A x \in Metas : x # g => avail_mask'[x] = avail_mask[x]
      /\ \A x \in Metas : avail_mask'[x] \subseteq avail_mask[x]
      /\ live' = live \union {<<g, i>>}
  BY Zenon, <1>1, LessOne DEF IInv
<1> HIDE DEF g
<1>4. Types'
  <2>1. live' \in SUBSET Slots
    BY <1>1, <1>2, <1>3 DEF IInv, Types
  <2> QED BY Zenon, <1>3, <2>1 DEF IInv, Types
<1>5. \A u \in Threads : /\ pc'[u] \in Frees <=> pc[u] \in Frees
                         /\ pc'[u] \in Frees => slot'[u] = slot[u]
                         /\ pc'[u] \notin Takes /\ pc[u] \notin Takes
                         /\ pc[u] # "or"
  BY Zenon
<1>6. Within'
  <2>1. i \in All(g)
    BY Zenon, <1>1, <1>2 DEF IInv, Within
  <2>2. \A s \in live' : s[1] \in used /\ s[2] \in All(s[1])
    BY <1>1, <1>3, <2>1 DEF IInv, Within
  <2>3. \A x \in Metas : /\ avail_mask'[x] \union freed_mask[x] \subseteq All(x)
                         /\ x \notin used => avail_mask'[x] = {} /\ freed_mask[x] = {}
    BY Zenon, <1>3 DEF IInv, Within
  <2> HIDE DEF Frees, Takes
  <2> QED BY Zenon, <1>5, <2>2, <2>3 DEF IInv, Within
<1>7. Apart'
  <2>1. i \notin avail_mask'[g] \union freed_mask[g]
    BY Zenon, <1>1, <1>2, <1>3 DEF IInv, Apart
  <2>2. ASSUME NEW s \in live'
        PROVE  s[2] \notin avail_mask'[s[1]] \union freed_mask[s[1]]
    <3>1. CASE s \in live
      <4>1. s[1] \in Metas /\ s[2] \notin avail_mask[s[1]] \union freed_mask[s[1]]
        BY <3>1 DEF IInv, Types, Apart
      <4> QED BY Zenon, <1>3, <4>1
    <3>2. CASE s = <<g, i>>
      BY Zenon, <2>1, <3>2
    <3> QED BY Zenon, <1>3, <3>1, <3>2
  <2>3. ASSUME NEW u \in Threads, pc[u] \in Frees
        PROVE  /\ slot[u] \notin live'
               /\ slot[u][2] \notin avail_mask'[slot[u][1]] \union freed_mask[slot[u][1]]
    <3>1. /\ slot[u] \notin live /\ slot[u][1] \in Metas
          /\ slot[u][2] \notin avail_mask[slot[u][1]] \union freed_mask[slot[u][1]]
      BY Zenon, <2>3, FreeingSlot
    <3>2. ASSUME slot[u] = <<g, i>> PROVE FALSE
      <4>1. slot[u][1] = g /\ slot[u][2] = i
        BY <3>2
      <4> QED BY Zenon, <1>2, <3>1, <4>1
    <3> QED BY Zenon, <1>3, <3>1, <3>2
  <2>4. \A u, v \in Threads : pc[u] \in Frees /\ pc[v] \in Frees /\ slot[v] = slot[u]
            => v = u
    BY Zenon DEF IInv, Apart
  <2>5. \A x \in Metas : avail_mask'[x] \intersect freed_mask[x] = {}
    BY Zenon, <1>3 DEF IInv, Apart
  <2> HIDE DEF Frees, Takes
  <2> QED BY Zenon, <1>5, <2>2, <2>3, <2>4, <2>5 DEF Apart
<1>8. Somewhere'
  <2>1. <<g, i>> \in live'
    BY Zenon, <1>3
  <2>2. \A x \in Metas, k \in Nat : <<x, k>> # <<g, i>> =>
            (k \in avail_mask'[x] <=> k \in avail_mask[x])
    BY Zenon, <1>3
  <2> SUFFICES ASSUME NEW x \in used, NEW k \in All(x) PROVE Place(x, k)'
    BY Zenon DEF Somewhere
  <2>3. CASE <<x, k>> = <<g, i>>
    BY Zenon, <2>1, <2>3 DEF Place
  <2>4. CASE <<x, k>> # <<g, i>>
    <3>1. x \in Metas /\ k \in Nat /\ Place(x, k)
      BY DEF IInv, Types, Somewhere
    <3>2. <<x, k>> \in live => <<x, k>> \in live'
      BY Zenon, <1>3
    <3> HIDE DEF Frees, Takes
    <3> QED BY Zenon, <1>5, <2>2, <2>4, <3>1, <3>2 DEF Place
  <2> QED BY Zenon, <2>3, <2>4
<1>9. List'
  <2>1. \A n \in 2 .. Len(active) : active[n] # g
    BY Zenon, <1>1 DEF IInv, List, g
  <2>2. OnList(g)
    BY Zenon, <1>1 DEF OnList, g
  <2>3. \A x \in used : ~OnList(x) => avail_mask'[x] = {} /\ freed_mask[x] = {}
    BY Zenon, <1>3, <2>2 DEF IInv, Types, List
  <2>4. \A n \in 2 .. Len(active) : avail_mask'[active[n]] = {}
    BY SMTT(30), <1>3, <2>1 DEF IInv, Types, List
  <2>5. \A n \in 2 .. Len(active) : freed_mask[active[n]] # {}
    BY Zenon, <1>5 DEF IInv, List
  <2> QED BY <2>3, <2>4, <2>5 DEF IInv, List, OnList
<1>10. Inactive'
  BY Zenon DEF IInv, Inactive
<1>11. LooksAt(t)' /\ HasRead(t)'
  BY Zenon DEF LooksAt, HasRead
<1>12. Looking' /\ Freeing'
  BY Zenon, <1>11, Bystander DEF Looking, Freeing
<1> QED BY Zenon, <1>4, <1>6, <1>7, <1>8, <1>9, <1>10, <1>12 DEF IInv

\* malloc's fast path: the slot goes from avail_mask to the caller.
LEMMA mallocInv ==
  ASSUME IInv, NEW t \in Threads, malloc(t)
  PROVE  IInv'
<1>1. /\ pc[t] = "idle" /\ lock = {} /\ active # <<>>
      /\ UNCHANGED <<lock, active, used, last_idx, active_idx, freed_mask, pc,
                     slot, mask, crashed>>
  BY Zenon DEF malloc, Layout
<1>2. Head(active) = active[1]
  BY Zenon, <1>1, TailSeq DEF IInv, Types
<1>3. PICK i \in avail_mask[active[1]] :
        /\ avail_mask' = [avail_mask EXCEPT ![active[1]] = @ \ {i}]
        /\ live' = live \union {<<active[1], i>>}
  BY Zenon, <1>2 DEF malloc, First
<1>4. \A u \in Threads : pc[u] \notin Locked
  BY Zenon, <1>1 DEF IInv, LockHeld
<1>5. /\ pc' \in [Threads -> Locked \union Unlocked] /\ pc'[t] = "idle"
      /\ slot' \in [Threads -> Slots \union {None}]
      /\ mask' \in [Threads -> SUBSET Nat]
      /\ lock' \in SUBSET Threads /\ LockHeld'
  BY Zenon, <1>1 DEF IInv, Types, LockHeld
<1> HIDE DEF Locked, Unlocked, Slots
<1> QED BY Zenon, <1>1, <1>3, <1>4, <1>5, HandsOutInv

\* While a thread has the lock the others do not.
LEMMA Others ==
  ASSUME IInv, NEW t \in Threads, pc[t] \in Locked
  PROVE  \A u \in Threads : u # t => pc[u] \notin Locked
  BY Zenon DEF IInv, LockHeld

\* A step that moves no slot.
LEMMA QuietSlots ==
  ASSUME IInv,
         UNCHANGED <<used, last_idx, avail_mask, freed_mask, live>>,
         UNCHANGED active \/ \A u \in Threads : pc[u] \notin Takes,
         \A u \in Threads :
            /\ pc'[u] \in Frees <=> pc[u] \in Frees
            /\ pc[u] \in Frees => slot'[u] = slot[u]
            /\ pc'[u] \in Takes <=> pc[u] \in Takes
            /\ pc[u] \in Takes => mask'[u] = mask[u]
  PROVE  Within' /\ Apart' /\ Somewhere'
<1> HIDE DEF Frees, Takes
<1>1. Within'
  BY Zenon DEF IInv, Within
<1>2. Apart'
  <2>1. \A u \in Threads : pc'[u] \in Frees =>
            /\ slot'[u] \notin live
            /\ slot'[u][2] \notin avail_mask[slot'[u][1]] \union freed_mask[slot'[u][1]]
            /\ \A v \in Threads : pc'[v] \in Frees /\ slot'[v] = slot'[u] => v = u
    BY Zenon DEF IInv, Apart
  <2>2. \A u \in Threads : pc'[u] \in Takes => \A i \in mask'[u] :
            /\ i \notin avail_mask[active'[1]] \union freed_mask[active'[1]]
            /\ <<active'[1], i>> \notin live
            /\ \A v \in Threads : pc'[v] \in Frees => slot'[v] # <<active'[1], i>>
    BY DEF IInv, Apart
  <2> QED BY Zenon, <2>1, <2>2 DEF IInv, Apart
<1>3. Somewhere'
  <2> SUFFICES ASSUME NEW g \in used, NEW i \in All(g) PROVE Place(g, i)'
    BY Zenon DEF Somewhere
  <2>1. Place(g, i)
    BY Zenon DEF IInv, Somewhere
  <2> QED BY Zenon, <2>1 DEF Place
<1> QED BY Zenon, <1>1, <1>2, <1>3

\* A step that leaves the list and the masks alone.
LEMMA QuietList ==
  ASSUME IInv,
         UNCHANGED <<active, used, last_idx, active_idx, avail_mask, freed_mask>>,
         \A u \in Threads : pc[u] = "or" => pc'[u] = "or" /\ slot'[u] = slot[u]
  PROVE  List' /\ Inactive'
<1>1. List'
  <2>1. ASSUME NEW n \in 2 .. Len(active)
        PROVE  /\ avail_mask[active[n]] = {}
               /\ \/ freed_mask[active[n]] # {}
                  \/ \E u \in Threads : pc'[u] = "or" /\ slot'[u][1] = active[n]
    <3>1. /\ avail_mask[active[n]] = {}
          /\ \/ freed_mask[active[n]] # {}
             \/ \E u \in Threads : pc[u] = "or" /\ slot[u][1] = active[n]
      BY Zenon DEF IInv, List
    <3> QED BY Zenon, <3>1
  <2> QED BY DEF IInv, List, OnList
<1>2. Inactive'
  BY Zenon DEF IInv, Inactive
<1> QED BY Zenon, <1>1, <1>2

\* malloc takes the lock; nothing else changes.
LEMMA mallocSlowInv ==
  ASSUME IInv, NEW t \in Threads, mallocSlow(t)
  PROVE  IInv'
<1>1. /\ pc[t] = "idle" /\ lock = {} /\ lock' = {t}
      /\ active # <<>> => active[1] = Head(active)
      /\ active # <<>> => avail_mask[active[1]] = {}
      /\ UNCHANGED <<active, used, last_idx, active_idx, avail_mask, freed_mask,
                     live, slot, mask, crashed>>
  BY Zenon, TailSeq DEF mallocSlow, Layout, IInv, Types
<1>2. /\ pc' \in [Threads -> Locked \union Unlocked]
      /\ pc'[t] = IF active = <<>> THEN "group" ELSE "head"
      /\ \A u \in Threads : u # t => pc'[u] = pc[u]
  BY Zenon DEF mallocSlow, Goto, IInv, Types
<1>3. \A u \in Threads : pc[u] \notin Locked
  BY Zenon, <1>1 DEF IInv, LockHeld
<1>4. Types' /\ LockHeld'
  BY Zenon, <1>1, <1>2, <1>3 DEF IInv, Types, LockHeld
<1>5. Within' /\ Apart' /\ Somewhere'
  BY Zenon, <1>1, <1>2, QuietSlots
<1>6. List' /\ Inactive'
  BY Zenon, <1>1, <1>2, QuietList
<1>7. LooksAt(t)' /\ HasRead(t)'
  BY Zenon, <1>1, <1>2 DEF LooksAt, HasRead
<1>8. Looking' /\ Freeing'
  BY Zenon, <1>1, <1>2, <1>3, <1>7, Bystander DEF Looking, Freeing
<1> QED BY Zenon, <1>4, <1>5, <1>6, <1>8 DEF IInv

\* alloc_group finds no memory; malloc gives the lock back.
LEMMA mallocFailsInv ==
  ASSUME IInv, NEW t \in Threads, mallocFails(t)
  PROVE  IInv'
<1>1. /\ pc[t] = "group" /\ Return(t)
      /\ UNCHANGED <<active, used, last_idx, active_idx, avail_mask, freed_mask,
                     live, crashed>>
  BY Zenon DEF mallocFails, Layout
<1>2. /\ pc' \in [Threads -> Locked \union Unlocked] /\ pc'[t] = "idle"
      /\ slot' \in [Threads -> Slots \union {None}]
      /\ mask' \in [Threads -> SUBSET Nat]
      /\ \A u \in Threads : u # t =>
            pc'[u] = pc[u] /\ slot'[u] = slot[u] /\ mask'[u] = mask[u]
      /\ lock' \in SUBSET Threads /\ LockHeld'
  BY Zenon, <1>1, Returns
<1>3. \A u \in Threads : u # t => pc[u] \notin Locked
  BY Zenon, <1>1, Others
<1>4. Types'
  BY Zenon, <1>1, <1>2 DEF IInv, Types
<1>5. Within' /\ Apart' /\ Somewhere'
  BY Zenon, <1>1, <1>2, QuietSlots
<1>6. List' /\ Inactive'
  BY Zenon, <1>1, <1>2, QuietList
<1>7. LooksAt(t)' /\ HasRead(t)'
  BY Zenon, <1>2 DEF LooksAt, HasRead
<1>8. Looking' /\ Freeing'
  BY Zenon, <1>2, <1>3, <1>7, Bystander DEF Looking, Freeing
<1> QED BY Zenon, <1>2, <1>4, <1>5, <1>6, <1>8 DEF IInv

\* What a thread that has the lock knows of the list behind its head.
LEMMA BehindHead ==
  ASSUME IInv, NEW t \in Threads, pc[t] \in Locked, pc[t] # "or"
  PROVE  \A n \in 2 .. Len(active) :
            avail_mask[active[n]] = {} /\ freed_mask[active[n]] # {}
<1>1. \A u \in Threads : pc[u] # "or"
  BY Zenon, Others
<1> QED BY Zenon, <1>1 DEF IInv, List

\* A list on which all but the head have slots freed, or are about to.
LEMMA ListFrom ==
  ASSUME NEW K \in Nat, Len(active') = K,
         \A m, n \in 1 .. K : active'[m] = active'[n] => m = n,
         \A n \in 1 .. K : active'[n] \in used',
         \A g \in used' : ~(\E n \in 1 .. K : active'[n] = g) =>
            avail_mask'[g] = {} /\ freed_mask'[g] = {},
         \A n \in 2 .. K :
            /\ avail_mask'[active'[n]] = {}
            /\ \/ freed_mask'[active'[n]] # {}
               \/ \E u \in Threads : pc'[u] = "or" /\ slot'[u][1] = active'[n]
  PROVE  List'
  BY Zenon DEF List, OnList

\* The next group becomes the head, while all of them have slots freed and
\* none available.
LEMMA RotatedList ==
  ASSUME IInv, active # <<>>, active' = Rotated(active),
         UNCHANGED <<used, avail_mask, freed_mask>>,
         \A n \in 1 .. Len(active) :
            avail_mask[active[n]] = {} /\ freed_mask[active[n]] # {}
  PROVE  /\ active' \in Seq(Metas) /\ active' # <<>> /\ List'
         /\ avail_mask[active'[1]] = {} /\ freed_mask[active'[1]] # {}
         /\ Len(active) > 1 => active'[1] = active[2]
<1> DEFINE L == Len(active)
<1>1. /\ active \in Seq(Metas) /\ L \in Nat \ {0} /\ Len(active') = L
      /\ active' \in Seq(Metas)
      /\ \A k \in 1 .. L : active'[k] = IF k < L THEN active[k + 1] ELSE active[1]
  BY Zenon, RotatedSeq, TailSeq DEF IInv, Types
<1> HIDE DEF L
<1>2. \A k \in 1 .. L : \E n \in 1 .. L : active'[k] = active[n]
  BY <1>1
<1>3. \A n \in 1 .. L : \E k \in 1 .. L : active'[k] = active[n]
  <2> TAKE n \in 1 .. L
  <2>1. CASE n = 1
    BY <1>1, <2>1
  <2>2. CASE n # 1
    <3>1. n - 1 \in 1 .. L /\ active'[n - 1] = active[n]
      BY <1>1, <2>2
    <3> QED BY Zenon, <3>1
  <2> QED BY Zenon, <2>1, <2>2
<1>4. \A m, n \in 1 .. L : active'[m] = active'[n] => m = n
  BY SMTT(30), <1>1 DEF IInv, List, L
<1>5. ASSUME NEW k \in 1 .. L
      PROVE  /\ active'[k] \in used
             /\ avail_mask[active'[k]] = {} /\ freed_mask[active'[k]] # {}
  <2>1. \A n \in 1 .. L : /\ active[n] \in used
                          /\ avail_mask[active[n]] = {} /\ freed_mask[active[n]] # {}
    BY Zenon DEF IInv, List, L
  <2>2. PICK n \in 1 .. L : active'[k] = active[n]
    BY Zenon, <1>2
  <2> QED BY Zenon, <2>1, <2>2
<1>6. \A g \in used : (\A k \in 1 .. L : active'[k] # g) =>
            avail_mask[g] = {} /\ freed_mask[g] = {}
  BY <1>3 DEF IInv, List, OnList, L
<1>7. List'
  <2>1. \A k \in 2 .. L : avail_mask[active'[k]] = {} /\ freed_mask[active'[k]] # {}
    BY <1>5
  <2>2. \A k \in 1 .. L : active'[k] \in used
    BY Zenon, <1>5
  <2> QED BY SMTT(30), <1>1, <1>4, <1>6, <2>1, <2>2 DEF List, OnList
<1> QED BY <1>1, <1>5, <1>7 DEF L

\* The head that has no free slot leaves the list.
LEMMA TailList ==
  ASSUME IInv, active # <<>>, active' = Tail(active),
         UNCHANGED <<used, avail_mask, freed_mask>>,
         avail_mask[active[1]] = {}, freed_mask[active[1]] = {},
         \A n \in 2 .. Len(active) :
            avail_mask[active[n]] = {} /\ freed_mask[active[n]] # {}
  PROVE  /\ active' \in Seq(Metas) /\ List'
         /\ active' # <<>> =>
                avail_mask[active'[1]] = {} /\ freed_mask[active'[1]] # {}
<1> DEFINE L == Len(active)
<1>1. /\ active \in Seq(Metas) /\ L \in Nat \ {0} /\ Len(active') = L - 1
      /\ active' \in Seq(Metas)
      /\ \A k \in 1 .. L - 1 : active'[k] = active[k + 1]
  BY DEF IInv, Types
<1> HIDE DEF L
<1>2. \A n \in 2 .. L : n - 1 \in 1 .. L - 1 /\ active'[n - 1] = active[n]
  BY <1>1
<1>3. \A m, n \in 1 .. L - 1 : active'[m] = active'[n] => m = n
  BY DEF IInv, List, L
<1>4. \A k \in 1 .. L - 1 :
            /\ active'[k] \in used
            /\ avail_mask[active'[k]] = {} /\ freed_mask[active'[k]] # {}
  BY DEF IInv, List, L
<1>5. ASSUME NEW g \in used, \A k \in 1 .. L - 1 : active'[k] # g
      PROVE  avail_mask[g] = {} /\ freed_mask[g] = {}
  <2>1. ASSUME NEW n \in 2 .. L PROVE active[n] # g
    <3>1. n - 1 \in 1 .. L - 1 /\ active'[n - 1] = active[n]
      BY Zenon, <1>2
    <3> QED BY Zenon, <1>5, <3>1
  <2>2. CASE active[1] = g
    BY Zenon, <2>2
  <2>3. CASE active[1] # g
    <3>1. \A n \in 1 .. L : active[n] # g
      BY <2>1, <2>3
    <3> QED BY Zenon, <3>1 DEF IInv, List, OnList, L
  <2> QED BY Zenon, <2>2, <2>3
<1>6. List'
  <2>1. \A k \in 2 .. L - 1 :
            avail_mask[active'[k]] = {} /\ freed_mask[active'[k]] # {}
    <3>1. 2 .. L - 1 \subseteq 1 .. L - 1
      BY <1>1
    <3> QED BY Zenon, <1>4, <3>1
  <2>2. \A k \in 1 .. L - 1 : active'[k] \in used
    BY Zenon, <1>4
  <2>3. \A g \in used : ~(\E k \in 1 .. L - 1 : active'[k] = g) =>
            avail_mask[g] = {} /\ freed_mask[g] = {}
    BY Zenon, <1>5
  <2>4. L - 1 \in Nat
    BY <1>1
  <2> QED BY Zenon, <1>1, <1>3, <2>1, <2>2, <2>3, <2>4, ListFrom
<1>7. active' # <<>> => 1 \in 1 .. L - 1
  BY <1>1
<1> QED BY Zenon, <1>1, <1>4, <1>6, <1>7

\* try_avail takes a head without free slots off the list, or rotates the list.
LEMMA TryHeadInv ==
  ASSUME IInv, NEW t \in Threads, TryHead(t)
  PROVE  IInv'
<1>1. /\ pc[t] = "head" /\ active # <<>> /\ Head(active) = active[1]
      /\ avail_mask[active[1]] = {} /\ 1 \in 1 .. Len(active)
      /\ UNCHANGED <<lock, used, last_idx, active_idx, avail_mask, freed_mask,
                     live, slot, mask, crashed>>
  <2>1. pc[t] = "head" /\ LooksAt(t)
    BY Zenon DEF TryHead, IInv, Looking
  <2> QED BY <2>1 DEF TryHead, Layout, LooksAt
<1>2. \A n \in 2 .. Len(active) :
            avail_mask[active[n]] = {} /\ freed_mask[active[n]] # {}
  BY Zenon, <1>1, BehindHead
<1>3. /\ active' \in Seq(Metas) /\ List'
      /\ active' # <<>> =>
            avail_mask[active'[1]] = {} /\ freed_mask[active'[1]] # {}
  <2>1. CASE freed_mask[active[1]] = {}
    BY Zenon, <1>1, <1>2, <2>1, TailList DEF TryHead
  <2>2. CASE freed_mask[active[1]] # {}
    <3>1. \A n \in 1 .. Len(active) :
            avail_mask[active[n]] = {} /\ freed_mask[active[n]] # {}
      BY <1>1, <1>2, <2>2
    <3> QED BY Zenon, <1>1, <2>2, <3>1, RotatedList DEF TryHead
  <2> QED BY Zenon, <2>1, <2>2
<1>4. /\ pc' \in [Threads -> Locked \union Unlocked]
      /\ pc'[t] = IF active' = <<>> THEN "group" ELSE "mask"
      /\ \A u \in Threads : u # t => pc'[u] = pc[u]
      /\ lock' \in SUBSET Threads /\ LockHeld'
  BY Zenon, <1>1, GoesOn DEF TryHead
<1>5. \A u \in Threads : u # t => pc[u] \notin Locked
  BY Zenon, <1>1, Others
<1>6. Types'
  BY Zenon, <1>1, <1>3, <1>4 DEF IInv, Types
<1>7. Within' /\ Apart' /\ Somewhere'
  BY Zenon, <1>1, <1>4, <1>5, QuietSlots
<1>8. Inactive'
  BY Zenon, <1>1 DEF IInv, Inactive
<1>9. LooksAt(t)' /\ HasRead(t)'
  BY Zenon, <1>1, <1>3, <1>4 DEF LooksAt, HasRead
<1>10. Looking' /\ Freeing'
  BY Zenon, <1>1, <1>4, <1>5, <1>9, Bystander DEF Looking, Freeing
<1> QED BY Zenon, <1>3, <1>4, <1>6, <1>7, <1>8, <1>10 DEF IInv

\* What malloc knows of all groups on the list once it has passed the head.
LEMMA AllFreed ==
  ASSUME IInv, NEW t \in Threads,
         pc[t] \in {"mask", "mask2", "inactive", "activate", "reactivate"}
  PROVE  /\ active # <<>> /\ Head(active) = active[1] /\ 1 \in 1 .. Len(active)
         /\ active[1] \in used /\ active[1] \in Metas
         /\ \A n \in 1 .. Len(active) :
                avail_mask[active[n]] = {} /\ freed_mask[active[n]] # {}
<1>1. active # <<>> /\ avail_mask[active[1]] = {} /\ freed_mask[active[1]] # {}
  BY Zenon DEF IInv, Looking, LooksAt
<1>2. Head(active) = active[1] /\ Len(active) \in Nat \ {0}
  BY Zenon, <1>1, TailSeq DEF IInv, Types
<1>3. \A n \in 2 .. Len(active) :
            avail_mask[active[n]] = {} /\ freed_mask[active[n]] # {}
  BY Zenon, BehindHead
<1>4. active[1] \in used /\ active[1] \in Metas
  BY <1>2 DEF IInv, Types, List
<1>5. \A n \in 1 .. Len(active) : n = 1 \/ n \in 2 .. Len(active)
  BY <1>2
<1>6. \A n \in 1 .. Len(active) :
            avail_mask[active[n]] = {} /\ freed_mask[active[n]] # {}
  BY Zenon, <1>1, <1>3, <1>5
<1> QED BY <1>2, <1>4, <1>6

\* try_avail reads freed_mask of the head, or passes over a group all free.
LEMMA TryMaskInv ==
  ASSUME IInv, NEW t \in Threads, TryMask(t)
  PROVE  IInv'
<1>1. /\ pc[t] = "mask"
      /\ UNCHANGED <<lock, used, last_idx, active_idx, avail_mask, freed_mask,
                     live, slot, crashed>>
  BY Zenon DEF TryMask, Layout
<1>2. /\ active # <<>> /\ Head(active) = active[1] /\ active[1] \in Metas
      /\ 1 \in 1 .. Len(active)
      /\ \A n \in 1 .. Len(active) :
            avail_mask[active[n]] = {} /\ freed_mask[active[n]] # {}
  BY Zenon, <1>1, AllFreed
<1>3. \/ /\ active' = Rotated(active)
         /\ Goto(t, "mask2") /\ UNCHANGED mask
      \/ /\ Local(t, freed_mask[active[1]])
         /\ Goto(t, "inactive") /\ UNCHANGED active
  BY Zenon, <1>2 DEF TryMask
<1>4. /\ active' \in Seq(Metas) /\ active' # <<>> /\ List'
      /\ avail_mask[active'[1]] = {} /\ freed_mask[active'[1]] # {}
  <2>1. CASE active' = Rotated(active)
    BY Zenon, <1>1, <1>2, <2>1, RotatedList
  <2>2. CASE UNCHANGED active /\ Goto(t, "inactive")
    <3>1. \A u \in Threads : pc[u] # "or"
      BY Zenon, <1>1, Others
    <3>2. List'
      BY Zenon, <1>1, <2>2, <3>1, QuietList
    <3> QED BY Zenon, <1>2, <2>2, <3>2 DEF IInv, Types
  <2> QED BY Zenon, <1>3, <2>1, <2>2
<1>5. /\ pc' \in [Threads -> Locked \union Unlocked]
      /\ pc'[t] \in {"mask2", "inactive"}
      /\ \A u \in Threads : u # t => pc'[u] = pc[u]
      /\ lock' \in SUBSET Threads /\ LockHeld'
  BY Zenon, <1>1, <1>3, GoesOn
<1>6. /\ mask' \in [Threads -> SUBSET Nat]
      /\ \A u \in Threads : u # t => mask'[u] = mask[u]
      /\ pc'[t] = "inactive" => active' = active /\ mask'[t] = freed_mask[active[1]]
  <2>1. freed_mask[active[1]] \in SUBSET Nat
    BY Zenon, <1>2 DEF IInv, Types
  <2> QED BY Zenon, <1>2, <1>3, <2>1 DEF Local, Goto, IInv, Types
<1>7. \A u \in Threads : u # t => pc[u] \notin Locked
  BY Zenon, <1>1, Others
<1>8. Types'
  BY Zenon, <1>1, <1>4, <1>5, <1>6 DEF IInv, Types
<1>9. Within' /\ Apart' /\ Somewhere'
  BY Zenon, <1>1, <1>5, <1>7, QuietSlots
<1>10. Inactive'
  BY Zenon, <1>1 DEF IInv, Inactive
<1>11. LooksAt(t)' /\ HasRead(t)'
  BY Zenon, <1>1, <1>4, <1>5, <1>6 DEF LooksAt, HasRead
<1>12. Looking' /\ Freeing'
  BY Zenon, <1>1, <1>5, <1>6, <1>7, <1>11, Bystander DEF Looking, Freeing
<1> QED BY Zenon, <1>4, <1>5, <1>8, <1>9, <1>10, <1>12 DEF IInv

\* freed_mask of the group after the one that was passed over.
LEMMA TryMask2Inv ==
  ASSUME IInv, NEW t \in Threads, TryMask2(t)
  PROVE  IInv'
<1>1. /\ pc[t] = "mask2"
      /\ UNCHANGED <<lock, active, used, last_idx, active_idx, avail_mask,
                     freed_mask, live, slot, crashed>>
  BY Zenon DEF TryMask2, Layout
<1>2. /\ active # <<>> /\ Head(active) = active[1] /\ active[1] \in Metas
      /\ avail_mask[active[1]] = {} /\ freed_mask[active[1]] # {}
  BY Zenon, <1>1, AllFreed
<1>3. /\ pc' \in [Threads -> Locked \union Unlocked] /\ pc'[t] = "inactive"
      /\ \A u \in Threads : u # t => pc'[u] = pc[u]
      /\ lock' \in SUBSET Threads /\ LockHeld'
  BY Zenon, <1>1, GoesOn DEF TryMask2
<1>4. /\ mask' \in [Threads -> SUBSET Nat] /\ mask'[t] = freed_mask[active[1]]
      /\ \A u \in Threads : u # t => mask'[u] = mask[u]
  BY Zenon, <1>2 DEF TryMask2, Local, IInv, Types
<1>5. \A u \in Threads : u # t => pc[u] \notin Locked
  BY Zenon, <1>1, Others
<1>6. Types'
  BY Zenon, <1>1, <1>3, <1>4 DEF IInv, Types
<1>7. Within' /\ Apart' /\ Somewhere'
  BY Zenon, <1>1, <1>3, <1>5, QuietSlots
<1>8. List' /\ Inactive'
  BY Zenon, <1>1, <1>3, QuietList
<1>9. LooksAt(t)' /\ HasRead(t)'
  BY Zenon, <1>1, <1>2, <1>3, <1>4 DEF LooksAt, HasRead
<1>10. Looking' /\ Freeing'
  BY Zenon, <1>1, <1>3, <1>4, <1>5, <1>9, Bystander DEF Looking, Freeing
<1> QED BY Zenon, <1>3, <1>6, <1>7, <1>8, <1>10 DEF IInv

\* Whichever way malloc goes, the head then has a slot that is freed and
\* active.
LEMMA TryInactiveInv ==
  ASSUME IInv, NEW t \in Threads, TryInactive(t)
  PROVE  IInv'
<1> DEFINE g == active[1]
<1>1. /\ pc[t] = "inactive"
      /\ UNCHANGED <<lock, used, last_idx, avail_mask, freed_mask, live, slot,
                     mask, crashed>>
  BY Zenon DEF TryInactive
<1>2. /\ active # <<>> /\ Head(active) = g /\ g \in Metas /\ g \in used
      /\ 1 \in 1 .. Len(active) /\ active \in Seq(Metas)
      /\ \A n \in 1 .. Len(active) :
            avail_mask[active[n]] = {} /\ freed_mask[active[n]] # {}
  BY Zenon, <1>1, AllFreed DEF IInv, Types
<1>3. mask[t] \in SUBSET Nat /\ mask[t] # {} /\ mask[t] \subseteq freed_mask[g]
  BY Zenon, <1>1 DEF IInv, Looking, LooksAt, Types
<1>4. /\ pc' \in [Threads -> Locked \union Unlocked] /\ pc'[t] = "activate"
      /\ \A u \in Threads : u # t => pc'[u] = pc[u]
      /\ lock' \in SUBSET Threads /\ LockHeld'
  BY Zenon, <1>1, GoesOn DEF TryInactive
<1>5. \A u \in Threads : u # t => pc[u] \notin Locked
  BY Zenon, <1>1, Others
<1>6. /\ last_idx[g] \in Nat /\ active_idx[g] \in Nat
      /\ active_idx \in [Metas -> Nat] /\ last_idx \in [Metas -> Nat]
      /\ freed_mask[g] \subseteq 0 .. last_idx[g]
  BY Zenon, <1>2 DEF IInv, Types, Within
<1>7. /\ active' \in Seq(Metas) /\ active' # <<>> /\ List'
      /\ avail_mask[active'[1]] = {} /\ freed_mask[active'[1]] # {}
      /\ active_idx' \in [Metas -> Nat] /\ Inactive'
      /\ \E i \in freed_mask[active'[1]] : i <= active_idx'[active'[1]]
  <2>1. UNCHANGED active => List'
    <3> SUFFICES ASSUME UNCHANGED active PROVE List'
      BY Zenon
    <3>1. \A n \in 2 .. Len(active) :
            avail_mask[active[n]] = {} /\ freed_mask[active[n]] # {}
      BY Zenon, <1>1, BehindHead
    <3>2. /\ \A m, n \in 1 .. Len(active) : active[m] = active[n] => m = n
          /\ \A n \in 1 .. Len(active) : active[n] \in used
          /\ \A h \in used : ~OnList(h) => avail_mask[h] = {} /\ freed_mask[h] = {}
      BY Zenon DEF IInv, List
    <3> QED BY Zenon, <1>1, <3>1, <3>2 DEF List, OnList
  <2>2. UNCHANGED active_idx => Inactive'
    BY Zenon, <1>1 DEF IInv, Inactive
  <2>3. CASE mask[t] \intersect Act(g) # {} /\ UNCHANGED <<active, active_idx>>
    <3>1. \E i \in freed_mask[g] : i <= active_idx[g]
      BY <1>3, <2>3
    <3> QED BY Zenon, <1>2, <1>6, <2>1, <2>2, <2>3, <3>1
  <2>4. ASSUME mask[t] \intersect Act(g) = {}
        PROVE  active_idx[g] < last_idx[g]
    BY <1>3, <1>6, <2>4
  <2>5. CASE /\ mask[t] \intersect Act(g) = {} /\ Len(active) > 1
             /\ active' = Rotated(active) /\ UNCHANGED active_idx
    <3> DEFINE h == active[2]
    <3>1. /\ active' \in Seq(Metas) /\ active' # <<>> /\ List' /\ active'[1] = h
          /\ avail_mask[h] = {} /\ freed_mask[h] # {}
      BY Zenon, <1>1, <1>2, <2>5, RotatedList
    <3>2. 2 \in 1 .. Len(active) /\ Len(active) \in Nat
      BY <1>2, <2>5
    <3>3. h \in used /\ h \in Metas /\ h # g
      BY <3>2 DEF IInv, List, Types
    <3> HIDE DEF h
    <3>4. last_idx[h] <= active_idx[h]
      BY <1>2, <1>6, <2>4, <2>5, <3>3 DEF IInv, Inactive
    <3>5. freed_mask[h] \subseteq 0 .. last_idx[h] /\ last_idx[h] \in Nat
          /\ active_idx[h] \in Nat
      BY Zenon, <1>6, <3>3 DEF IInv, Within
    <3>6. \E i \in freed_mask[h] : i <= active_idx[h]
      BY <3>1, <3>4, <3>5
    <3> QED BY Zenon, <1>6, <2>2, <2>5, <3>1, <3>6
  <2>6. CASE /\ mask[t] \intersect Act(g) = {} /\ UNCHANGED active
             /\ \E n \in active_idx[g] .. last_idx[g] :
                    /\ n > active_idx[g] \/ n = last_idx[g]
                    /\ active_idx' = [active_idx EXCEPT ![g] = n]
    <3>1. active_idx[g] < last_idx[g]
      BY Zenon, <2>4, <2>6
    <3>2. /\ active_idx' \in [Metas -> Nat]
          /\ active_idx'[g] \in active_idx[g] + 1 .. last_idx[g]
          /\ \A h \in Metas : h # g => active_idx'[h] = active_idx[h]
      BY SMTT(30), <1>2, <1>6, <2>6, <3>1
    <3> HIDE DEF g
    <3>3. Inactive'
      <4>1. ASSUME NEW h \in used
            PROVE  /\ active_idx[h] <= active_idx'[h]
                   /\ active_idx'[h] <= last_idx[h]
                   /\ active_idx[h] \in Nat /\ active_idx'[h] \in Nat
                   /\ last_idx[h] \in Nat
        <5>1. h \in Metas /\ active_idx[h] <= last_idx[h]
          BY Zenon DEF IInv, Inactive, Types
        <5>2. CASE h = g
          BY <1>6, <3>2, <5>2
        <5>3. CASE h # g
          BY <1>6, <3>2, <5>1
        <5> QED BY Zenon, <5>2, <5>3
      <4> QED BY <1>1, <4>1 DEF IInv, Inactive
    <3>4. active_idx[g] + 1 \in freed_mask[g]
      BY SMTT(30), <1>2, <1>6, <3>1 DEF IInv, Inactive
    <3>5. \E i \in freed_mask[g] : i <= active_idx'[g]
      BY <3>2, <3>4
    <3> QED BY Zenon, <1>2, <2>1, <2>6, <3>2, <3>3, <3>5 DEF g
  <2> QED BY <2>3, <2>5, <2>6 DEF TryInactive
<1>8. Types'
  BY Zenon, <1>1, <1>4, <1>7 DEF IInv, Types
<1>9. Within' /\ Apart' /\ Somewhere'
  BY Zenon, <1>1, <1>4, <1>5, QuietSlots
<1>10. LooksAt(t)' /\ HasRead(t)'
  BY Zenon, <1>1, <1>4, <1>7 DEF LooksAt, HasRead
<1>11. Looking' /\ Freeing'
  BY Zenon, <1>1, <1>4, <1>5, <1>10, Bystander DEF Looking, Freeing
<1> QED BY Zenon, <1>4, <1>7, <1>8, <1>9, <1>11 DEF IInv

\* activate_group takes what is freed and active out of freed_mask.
LEMMA TakesInv ==
  ASSUME IInv, NEW t \in Threads, NEW at \in Takes,
         pc[t] = IF at = "store" THEN "activate" ELSE "reactivate",
         ActivateTakes(t, Head(active)), Goto(t, at),
         UNCHANGED <<lock, active, used, last_idx, active_idx, avail_mask, live,
                     slot>>
  PROVE  IInv'
<1> DEFINE g == active[1]
           m == freed_mask[g] \intersect Act(g)
<1>1. /\ active # <<>> /\ Head(active) = g /\ g \in Metas /\ g \in used
      /\ 1 \in 1 .. Len(active) /\ avail_mask[g] = {}
      /\ freed_mask[g] \in SUBSET Nat /\ freed_mask[g] \subseteq All(g)
  BY Zenon, AllFreed DEF IInv, Types, Within
<1>2. /\ crashed' = FALSE
      /\ mask' \in [Threads -> SUBSET Nat] /\ mask'[t] = m
      /\ \A u \in Threads : u # t => mask'[u] = mask[u]
      /\ freed_mask' \in [Metas -> SUBSET Nat] /\ freed_mask'[g] = freed_mask[g] \ m
      /\ \A h \in Metas : h # g => freed_mask'[h] = freed_mask[h]
  BY Zenon, <1>1 DEF ActivateTakes, Local, IInv, Types
<1>3. /\ pc' \in [Threads -> Locked \union Unlocked] /\ pc'[t] = at
      /\ \A u \in Threads : u # t => pc'[u] = pc[u]
      /\ lock' \in SUBSET Threads /\ LockHeld'
  BY Zenon, GoesOn
<1>4. \A u \in Threads : u # t => pc[u] \notin Locked
  BY Zenon, Others
<1>5. \A i \in m : i \in freed_mask[g] /\ i \in Nat /\ i <= active_idx[g]
  OBVIOUS
<1>6. \A u \in Threads : pc'[u] \in Frees <=> pc[u] \in Frees
  BY Zenon, <1>3
<1>7. \A u \in Threads : pc'[u] \in Takes <=> u = t
  BY Zenon, <1>3, <1>4
<1>8. \A h \in Metas : freed_mask'[h] \subseteq freed_mask[h]
  BY Zenon, <1>2
<1>9. Types'
  BY Zenon, <1>2, <1>3 DEF IInv, Types
<1>10. Within'
  <2>1. mask'[t] \subseteq All(g)
    BY Zenon, <1>1, <1>2
  <2> HIDE DEF g, m, Frees, Takes
  <2>2. \A h \in Metas : avail_mask[h] \union freed_mask'[h] \subseteq All(h)
    BY Zenon, <1>8 DEF IInv, Within
  <2>3. \A h \in Metas \ used : avail_mask[h] = {} /\ freed_mask'[h] = {}
    BY Zenon, <1>8 DEF IInv, Within
  <2> QED BY Zenon, <1>1, <1>6, <1>7, <2>1, <2>2, <2>3 DEF IInv, Within, g
<1>11. Apart'
  <2>1. \A i \in m : i \notin avail_mask[g] \union freed_mask'[g]
    BY Zenon, <1>1, <1>2
  <2>2. \A i \in m : <<g, i>> \notin live
    BY Zenon, <1>5 DEF IInv, Apart
  <2>3. \A i \in m : \A u \in Threads : pc[u] \in Frees => slot[u] # <<g, i>>
    BY DEF IInv, Apart
  <2> HIDE DEF m, Frees, Takes
  <2>4. \A h \in Metas : avail_mask[h] \intersect freed_mask'[h] = {}
    BY Zenon, <1>8 DEF IInv, Apart
  <2>5. \A s \in live : s[2] \notin avail_mask[s[1]] \union freed_mask'[s[1]]
    BY Zenon, <1>8 DEF IInv, Apart, Types
  <2>6. \A u \in Threads : pc[u] \in Frees =>
            slot[u][2] \notin avail_mask[slot[u][1]] \union freed_mask'[slot[u][1]]
    BY <1>8 DEF IInv, Apart, Within
  <2>7. \A u \in Threads : pc'[u] \in Takes => \A i \in mask'[u] :
            /\ i \notin avail_mask[g] \union freed_mask'[g]
            /\ <<g, i>> \notin live
            /\ \A v \in Threads : pc'[v] \in Frees => slot[v] # <<g, i>>
    BY Zenon, <1>2, <1>6, <1>7, <2>1, <2>2, <2>3
  <2> QED BY Zenon, <1>6, <2>4, <2>5, <2>6, <2>7 DEF IInv, Apart
<1>12. Somewhere'
  <2> SUFFICES ASSUME NEW h \in used, NEW i \in All(h) PROVE Place(h, i)'
    BY Zenon DEF Somewhere
  <2>1. h \in Metas /\ Place(h, i)
    BY Zenon DEF IInv, Types, Somewhere
  <2>2. CASE h = g /\ i \in m
    BY Zenon, <1>2, <1>3, <2>2 DEF Place
  <2>3. CASE ~(h = g /\ i \in m)
    <3>1. i \in freed_mask[h] => i \in freed_mask'[h]
      BY Zenon, <1>2, <2>1, <2>3
    <3>2. \A u \in Threads : pc[u] \notin Takes
      BY Zenon, <1>4
    <3> QED BY Zenon, <1>6, <2>1, <3>1, <3>2 DEF Place
  <2> QED BY Zenon, <2>2, <2>3
<1>13. List'
  <2>1. \A n \in 2 .. Len(active) : active[n] # g
    BY DEF IInv, List
  <2>2. \A n \in 2 .. Len(active) :
            avail_mask[active[n]] = {} /\ freed_mask'[active[n]] # {}
    <3>1. \A n \in 2 .. Len(active) :
            avail_mask[active[n]] = {} /\ freed_mask[active[n]] # {}
      BY AllFreed
    <3> HIDE DEF g
    <3> QED BY <1>2, <2>1, <3>1 DEF IInv, Types
  <2>3. \A h \in used : ~OnList(h) => avail_mask[h] = {} /\ freed_mask'[h] = {}
    <3>1. OnList(g)
      BY Zenon, <1>1 DEF OnList
    <3> HIDE DEF g
    <3> QED BY <1>2 DEF IInv, Types, List
  <2> QED BY <2>2, <2>3 DEF IInv, List, OnList
<1>14. Inactive'
  <2>1. ASSUME NEW h \in used, NEW i \in All(h), i > active_idx[h]
        PROVE  i \in freed_mask'[h]
    <3>1. i \in freed_mask[h] /\ h \in Metas
      BY Zenon, <2>1 DEF IInv, Types, Inactive
    <3>2. h = g => i \notin m
      BY <2>1 DEF IInv, Types
    <3> QED BY Zenon, <1>2, <3>1, <3>2
  <2> QED BY Zenon, <2>1 DEF IInv, Inactive
<1>15. LooksAt(t)' /\ HasRead(t)'
  <2>1. at = "store" => m # {}
    <3>1. at = "store" => \E i \in freed_mask[g] : i <= active_idx[g]
      BY Zenon DEF IInv, Looking, LooksAt
    <3> QED BY <1>1, <3>1
  <2> QED BY Zenon, <1>1, <1>2, <1>3, <1>5, <2>1 DEF LooksAt, HasRead
<1>16. Looking' /\ Freeing'
  BY Zenon, <1>2, <1>3, <1>4, <1>15, Bystander DEF Looking, Freeing
<1> QED BY Zenon, <1>3, <1>9, <1>10, <1>11, <1>12, <1>13, <1>14, <1>16 DEF IInv

\* activate_group, called by try_avail, takes the freed slots.
LEMMA ActivateInv ==
  ASSUME IInv, NEW t \in Threads, Activate(t) \/ Reactivate(t)
  PROVE  IInv'
<1>1. CASE Activate(t)
  BY Zenon, <1>1, TakesInv DEF Activate, Layout
<1>2. CASE Reactivate(t)
  BY Zenon, <1>2, TakesInv DEF Reactivate, Layout
<1> QED BY Zenon, <1>1, <1>2

\* ... and stores it in avail_mask, and is done or goes on to take a slot.
LEMMA StoreInv ==
  ASSUME IInv, NEW t \in Threads, pc[t] \in Takes,
         avail_mask' = [avail_mask EXCEPT ![Head(active)] = mask[t]],
         UNCHANGED <<active, used, last_idx, active_idx, freed_mask, live, crashed>>,
         \/ Return(t)
         \/ pc[t] = "store" /\ Goto(t, "take") /\ UNCHANGED <<lock, slot, mask>>
  PROVE  IInv'
<1> DEFINE g == active[1]
           m == mask[t]
<1>1. active # <<>> /\ avail_mask[g] = {} /\ m \subseteq All(g) /\ m \in SUBSET Nat
  BY Zenon DEF IInv, Looking, LooksAt, Within, Types
<1>2. /\ Head(active) = g /\ g \in Metas /\ g \in used
      /\ 1 \in 1 .. Len(active) /\ Len(active) \in Nat
  BY <1>1 DEF IInv, Types, List
<1>3. \A i \in m : /\ i \notin freed_mask[g] /\ <<g, i>> \notin live
                   /\ \A u \in Threads : pc[u] \in Frees => slot[u] # <<g, i>>
  BY Zenon DEF IInv, Apart
<1>4. /\ avail_mask' \in [Metas -> SUBSET Nat] /\ avail_mask'[g] = m
      /\ \A h \in Metas : h # g => avail_mask'[h] = avail_mask[h]
  BY Zenon, <1>1, <1>2 DEF IInv, Types
<1>5. /\ pc' \in [Threads -> Locked \union Unlocked] /\ pc'[t] \in {"idle", "take"}
      /\ pc'[t] = "take" => pc[t] = "store" /\ mask'[t] = m
      /\ slot' \in [Threads -> Slots \union {None}]
      /\ mask' \in [Threads -> SUBSET Nat]
      /\ \A u \in Threads : u # t =>
            pc'[u] = pc[u] /\ slot'[u] = slot[u] /\ mask'[u] = mask[u]
      /\ lock' \in SUBSET Threads /\ LockHeld'
  <2>1. CASE Return(t)
    BY Zenon, <2>1, Returns
  <2>2. CASE pc[t] = "store" /\ Goto(t, "take") /\ UNCHANGED <<lock, slot, mask>>
    BY Zenon, <2>2, GoesOn DEF IInv, Types
  <2> QED BY Zenon, <2>1, <2>2
<1>6. \A u \in Threads : u # t => pc[u] \notin Locked
  BY Zenon, Others
<1>7. \A u \in Threads : pc'[u] \notin Takes
  BY Zenon, <1>5, <1>6
<1>8. \A u \in Threads : /\ pc'[u] \in Frees <=> pc[u] \in Frees
                         /\ pc'[u] \in Frees => slot'[u] = slot[u]
  BY Zenon, <1>5
<1>9. m # {} \/ pc'[t] = "idle"
  BY Zenon, <1>5 DEF IInv, Looking, LooksAt
<1> HIDE DEF g, m
<1>10. Types'
  BY Zenon, <1>4, <1>5 DEF IInv, Types
<1>11. Within'
  <2>1. ASSUME NEW h \in Metas
        PROVE  /\ avail_mask'[h] \union freed_mask[h] \subseteq All(h)
               /\ h \notin used => avail_mask'[h] = {} /\ freed_mask[h] = {}
    BY Zenon, <1>1, <1>2, <1>4 DEF IInv, Within
  <2> HIDE DEF Frees, Takes
  <2> QED BY Zenon, <1>7, <1>8, <2>1 DEF IInv, Within
<1>12. Apart'
  <2>1. \A h \in Metas : avail_mask'[h] \intersect freed_mask[h] = {}
    BY Zenon, <1>3, <1>4 DEF IInv, Apart
  <2>2. ASSUME NEW s \in live
        PROVE  s[2] \notin avail_mask'[s[1]] \union freed_mask[s[1]]
    <3>1. /\ s \in Slots /\ s[2] \notin freed_mask[s[1]]
          /\ s[2] \notin avail_mask[s[1]] /\ s[1] \in Metas /\ s = <<s[1], s[2]>>
      BY <2>2 DEF IInv, Apart, Types
    <3>2. s[1] = g => s[2] \notin m
      BY Zenon, <1>3, <2>2, <3>1
    <3> QED BY Zenon, <1>4, <3>1, <3>2
  <2>3. ASSUME NEW u \in Threads, pc[u] \in Frees
        PROVE  /\ slot[u] \notin live
               /\ slot[u][2] \notin avail_mask'[slot[u][1]] \union freed_mask[slot[u][1]]
    <3>1. /\ slot[u] = <<slot[u][1], slot[u][2]>>
          /\ slot[u][1] \in Metas /\ slot[u] \notin live
          /\ slot[u][2] \notin avail_mask[slot[u][1]] \union freed_mask[slot[u][1]]
      BY Zenon, <2>3, FreeingSlot
    <3>2. slot[u][1] = g => slot[u][2] \notin m
      BY Zenon, <1>3, <2>3, <3>1
    <3> QED BY Zenon, <1>4, <3>1, <3>2
  <2>4. \A u, v \in Threads : pc[u] \in Frees /\ pc[v] \in Frees /\ slot[v] = slot[u]
            => v = u
    BY Zenon DEF IInv, Apart
  <2> HIDE DEF Frees, Takes
  <2> QED BY Zenon, <1>7, <1>8, <2>1, <2>2, <2>3, <2>4 DEF Apart
<1>13. Somewhere'
  <2> SUFFICES ASSUME NEW h \in used, NEW i \in All(h) PROVE Place(h, i)'
    BY Zenon DEF Somewhere
  <2>1. h \in Metas /\ Place(h, i)
    BY Zenon DEF IInv, Types, Somewhere
  <2>2. CASE h = g /\ i \in m
    BY Zenon, <1>4, <2>1, <2>2 DEF Place
  <2>3. CASE ~(h = g /\ i \in m)
    <3>1. i \in avail_mask[h] => i \in avail_mask'[h]
      BY Zenon, <1>1, <1>4, <2>1, <2>3
    <3>2. ASSUME NEW u \in Threads, pc[u] \in Takes, active[1] = h, i \in mask[u]
          PROVE  FALSE
      BY Zenon, <1>6, <2>3, <3>2 DEF g, m
    <3> HIDE DEF Frees, Takes
    <3> QED BY Zenon, <1>8, <2>1, <3>1, <3>2 DEF Place
  <2> QED BY Zenon, <2>2, <2>3
<1>14. List'
  <2>1. \A n \in 2 .. Len(active) :
            /\ active[n] # g /\ active[n] \in Metas
            /\ avail_mask[active[n]] = {} /\ freed_mask[active[n]] # {}
    <3>1. \A n \in 2 .. Len(active) :
            avail_mask[active[n]] = {} /\ freed_mask[active[n]] # {}
      BY Zenon, BehindHead
    <3>2. \A n \in 2 .. Len(active) : active[n] # g /\ active[n] \in Metas
      BY DEF IInv, Types, List, g
    <3> QED BY Zenon, <3>1, <3>2
  <2>2. \A n \in 2 .. Len(active) :
            avail_mask'[active[n]] = {} /\ freed_mask[active[n]] # {}
    BY Zenon, <1>4, <2>1
  <2>3. OnList(g)
    BY Zenon, <1>2 DEF OnList, g
  <2>4. \A h \in used : ~OnList(h) => avail_mask'[h] = {} /\ freed_mask[h] = {}
    BY <1>4, <2>3 DEF IInv, List
  <2> QED BY <2>2, <2>4 DEF IInv, List, OnList
<1>15. Inactive'
  BY Zenon DEF IInv, Inactive
<1>16. LooksAt(t)' /\ HasRead(t)'
  BY Zenon, <1>1, <1>4, <1>5, <1>9 DEF LooksAt, HasRead, g
<1>17. Looking' /\ Freeing'
  BY Zenon, <1>5, <1>6, <1>16, Bystander DEF Looking, Freeing
<1> QED BY Zenon, <1>5, <1>10, <1>11, <1>12, <1>13, <1>14, <1>15, <1>17 DEF IInv

\* activate_group, called by try_avail, stores what it took.
LEMMA ActivateStoreInv ==
  ASSUME IInv, NEW t \in Threads, ActivateStore(t)
  PROVE  IInv'
<1>1. /\ pc[t] = "store" /\ Goto(t, "take") /\ UNCHANGED <<lock, slot, mask>>
      /\ avail_mask' = [avail_mask EXCEPT ![Head(active)] = mask[t]]
      /\ UNCHANGED <<active, used, last_idx, active_idx, freed_mask, live>>
  BY Zenon DEF ActivateStore, Layout
<1>2. mask[t] # {} /\ crashed = FALSE
  BY Zenon, <1>1 DEF IInv, Looking, LooksAt, Types
<1>3. UNCHANGED crashed
  BY Zenon, <1>2 DEF ActivateStore
<1> QED BY Zenon, <1>1, <1>3, StoreInv

\* try_avail hands out the first slot of what is now available.
LEMMA TakeFirstInv ==
  ASSUME IInv, NEW t \in Threads, TakeFirst(t)
  PROVE  IInv'
<1>1. /\ pc[t] = "take" /\ Return(t)
      /\ UNCHANGED <<active, used, last_idx, active_idx, freed_mask, crashed>>
  BY Zenon DEF TakeFirst, Layout
<1>2. active # <<>> /\ avail_mask[active[1]] = mask[t]
  BY Zenon, <1>1 DEF IInv, Looking, LooksAt
<1>3. Head(active) = active[1]
  BY Zenon, <1>2, TailSeq DEF IInv, Types
<1>4. PICK i \in avail_mask[active[1]] :
        /\ avail_mask' = [avail_mask EXCEPT ![active[1]] = mask[t] \ {i}]
        /\ live' = live \union {<<active[1], i>>}
  BY Zenon, <1>2, <1>3 DEF TakeFirst, First
<1>5. avail_mask' = [avail_mask EXCEPT ![active[1]] = @ \ {i}]
  BY Zenon, <1>2, <1>4
<1>6. \A u \in Threads : u # t => pc[u] \notin Locked
  BY Zenon, <1>1, Others
<1>7. /\ pc' \in [Threads -> Locked \union Unlocked] /\ pc'[t] = "idle"
      /\ slot' \in [Threads -> Slots \union {None}]
      /\ mask' \in [Threads -> SUBSET Nat]
      /\ \A u \in Threads : u # t =>
            pc'[u] = pc[u] /\ slot'[u] = slot[u] /\ mask'[u] = mask[u]
      /\ lock' \in SUBSET Threads /\ LockHeld'
  BY Zenon, <1>1, Returns
<1> HIDE DEF Locked, Unlocked, Slots
<1> QED BY Zenon, <1>1, <1>2, <1>4, <1>5, <1>6, <1>7, HandsOutInv

\* activate_group, called by nontrivial_free, stores what it took.
LEMMA ReactivateStoreInv ==
  ASSUME IInv, NEW t \in Threads, ReactivateStore(t)
  PROVE  IInv'
<1>1. /\ pc[t] = "restore" /\ Return(t)
      /\ avail_mask' = [avail_mask EXCEPT ![Head(active)] = mask[t]]
      /\ UNCHANGED <<active, used, last_idx, active_idx, freed_mask, live, crashed>>
  BY Zenon DEF ReactivateStore, Layout
<1> QED BY Zenon, <1>1, StoreInv

\* A new group; the only one with slots that are not active.
LEMMA alloc_groupInv ==
  ASSUME IInv, NEW t \in Threads, alloc_group(t)
  PROVE  IInv'
<1>1. /\ pc[t] = "group" /\ Return(t) /\ UNCHANGED crashed
  BY Zenon DEF alloc_group
<1>2. PICK g \in Metas \ used, s \in Shapes :
        /\ used' = used \union {g}
        /\ last_idx' = [last_idx EXCEPT ![g] = s[1]]
        /\ active_idx' = [active_idx EXCEPT ![g] = s[2]]
        /\ avail_mask' = [avail_mask EXCEPT ![g] = 1 .. s[2]]
        /\ freed_mask' = [freed_mask EXCEPT ![g] = s[2] + 1 .. s[1]]
        /\ active' = Append(active, g)
        /\ live' = live \union {<<g, 0>>}
  BY Zenon DEF alloc_group
<1> DEFINE a == s[2]
           l == s[1]
<1>3. a \in Nat /\ l \in Nat /\ a <= l
  BY Zenon, ShapesAssumption
<1>4. /\ last_idx' \in [Metas -> Nat] /\ last_idx'[g] = l
      /\ active_idx' \in [Metas -> Nat] /\ active_idx'[g] = a
      /\ avail_mask' \in [Metas -> SUBSET Nat] /\ avail_mask'[g] = 1 .. a
      /\ freed_mask' \in [Metas -> SUBSET Nat] /\ freed_mask'[g] = a + 1 .. l
      /\ \A h \in Metas : h # g =>
            /\ last_idx'[h] = last_idx[h] /\ active_idx'[h] = active_idx[h]
            /\ avail_mask'[h] = avail_mask[h] /\ freed_mask'[h] = freed_mask[h]
  <2>1. (1 .. a) \in SUBSET Nat /\ (a + 1 .. l) \in SUBSET Nat
    BY <1>3
  <2> QED BY Zenon, <1>2, <1>3, <2>1 DEF IInv, Types
<1> HIDE DEF a, l
<1>5. active = <<>> /\ active' \in Seq(Metas) /\ Len(active') = 1 /\ active'[1] = g
  <2>1. active = <<>>
    BY Zenon, <1>1 DEF IInv, Looking, LooksAt
  <2> QED BY <1>2, <2>1
<1>6. /\ pc' \in [Threads -> Locked \union Unlocked] /\ pc'[t] = "idle"
      /\ slot' \in [Threads -> Slots \union {None}]
      /\ mask' \in [Threads -> SUBSET Nat]
      /\ \A u \in Threads : u # t =>
            pc'[u] = pc[u] /\ slot'[u] = slot[u] /\ mask'[u] = mask[u]
      /\ lock' \in SUBSET Threads /\ LockHeld'
  BY Zenon, <1>1, Returns
<1>7. \A u \in Threads : u # t => pc[u] \notin Locked
  BY Zenon, <1>1, Others
<1>8. \A u \in Threads : pc'[u] \notin Takes /\ pc[u] \notin Takes
  BY Zenon, <1>1, <1>6, <1>7
<1>9. \A u \in Threads : /\ pc'[u] \in Frees <=> pc[u] \in Frees
                         /\ pc'[u] \in Frees => slot'[u] = slot[u]
  BY Zenon, <1>1, <1>6
<1>10. \A h \in used : h \in Metas /\ h # g
  BY Zenon DEF IInv, Types
<1>11. /\ \A x \in live : x \in Slots /\ x[1] \in used /\ x[2] \in All(x[1])
       /\ \A u \in Threads : pc[u] \in Frees =>
            slot[u] \in Slots /\ slot[u][1] \in used
            /\ slot[u][2] \in All(slot[u][1])
  BY Zenon DEF IInv, Types, Within
<1>12. \A x \in live' : x \in live \/ x = <<g, 0>>
  BY Zenon, <1>2
<1>13. Types'
  <2>1. 0 \in Nat
    OBVIOUS
  <2>2. used' \in SUBSET Metas /\ live' \in SUBSET Slots
    <3>1. <<g, 0>> \in Slots /\ g \in Metas
      BY Zenon, <2>1
    <3>2. used \in SUBSET Metas /\ live \in SUBSET Slots
      BY Zenon DEF IInv, Types
    <3> HIDE DEF Slots
    <3> QED BY <1>2, <3>1, <3>2
  <2> HIDE DEF Locked, Unlocked, Slots
  <2> QED BY Zenon, <1>1, <1>4, <1>5, <1>6, <2>2 DEF IInv, Types
<1>14. Within'
  <2>1. ASSUME NEW h \in Metas
        PROVE  /\ avail_mask'[h] \union freed_mask'[h] \subseteq 0 .. last_idx'[h]
               /\ h \notin used' => avail_mask'[h] = {} /\ freed_mask'[h] = {}
    <3>1. (1 .. a) \union (a + 1 .. l) \subseteq 0 .. l
      BY <1>3
    <3>2. CASE h = g
      BY Zenon, <1>2, <1>4, <3>1, <3>2
    <3>3. CASE h # g
      <4>1. /\ avail_mask[h] \union freed_mask[h] \subseteq 0 .. last_idx[h]
            /\ h \notin used => avail_mask[h] = {} /\ freed_mask[h] = {}
        BY Zenon DEF IInv, Within
      <4>2. /\ last_idx'[h] = last_idx[h] /\ avail_mask'[h] = avail_mask[h]
            /\ freed_mask'[h] = freed_mask[h] /\ (h \notin used' => h \notin used)
        BY Zenon, <1>2, <1>4, <3>3
      <4> QED BY Zenon, <4>1, <4>2
    <3> QED BY Zenon, <3>2, <3>3
  <2>2. ASSUME NEW x \in live' PROVE x[1] \in used' /\ x[2] \in 0 .. last_idx'[x[1]]
    <3>1. CASE x \in live
      <4>1. x[1] \in used /\ x[2] \in 0 .. last_idx[x[1]]
        BY Zenon, <1>11, <3>1
      <4> QED BY Zenon, <1>2, <1>4, <1>10, <4>1
    <3>2. CASE x = <<g, 0>>
      <4>1. g \in used' /\ 0 \in 0 .. last_idx'[g]
        BY <1>2, <1>3, <1>4
      <4>2. x[1] = g /\ x[2] = 0
        BY Zenon, <3>2
      <4> QED BY Zenon, <4>1, <4>2
    <3> QED BY Zenon, <1>12, <3>1, <3>2
  <2>3. ASSUME NEW u \in Threads, pc'[u] \in Frees
        PROVE  /\ slot'[u] \in Slots /\ slot'[u][1] \in used'
               /\ slot'[u][2] \in 0 .. last_idx'[slot'[u][1]]
    <3> HIDE DEF Frees
    <3>1. slot'[u] = slot[u] /\ slot[u] \in Slots /\ slot[u][1] \in used
          /\ slot[u][2] \in 0 .. last_idx[slot[u][1]]
      BY Zenon, <1>9, <1>11, <2>3
    <3>2. slot[u][1] \in used' /\ last_idx'[slot[u][1]] = last_idx[slot[u][1]]
      BY Zenon, <1>2, <1>4, <1>10, <3>1
    <3> QED BY Zenon, <3>1, <3>2
  <2> HIDE DEF Frees, Takes
  <2> QED BY Zenon, <1>8, <2>1, <2>2, <2>3 DEF Within
<1>15. Apart'
  <2>1. \A h \in Metas : avail_mask'[h] \intersect freed_mask'[h] = {}
    <3>1. (1 .. a) \intersect (a + 1 .. l) = {}
      BY <1>3
    <3> QED BY Zenon, <1>4, <3>1 DEF IInv, Apart
  <2>2. ASSUME NEW x \in live'
        PROVE  x[2] \notin avail_mask'[x[1]] \union freed_mask'[x[1]]
    <3>1. CASE x \in live
      <4>1. /\ x[1] \in Metas /\ x[1] # g
            /\ x[2] \notin avail_mask[x[1]] \union freed_mask[x[1]]
        BY Zenon, <1>10, <1>11, <3>1 DEF IInv, Apart
      <4> QED BY Zenon, <1>4, <4>1
    <3>2. CASE x = <<g, 0>>
      BY <1>4, <3>2
    <3> QED BY Zenon, <1>12, <3>1, <3>2
  <2>3. ASSUME NEW u \in Threads, pc[u] \in Frees
        PROVE  /\ slot[u] \notin live'
               /\ slot[u][2] \notin avail_mask'[slot[u][1]] \union freed_mask'[slot[u][1]]
    <3>1. /\ slot[u] \notin live /\ slot[u][1] \in used
          /\ slot[u][2] \notin avail_mask[slot[u][1]] \union freed_mask[slot[u][1]]
      BY Zenon, <1>11, <2>3 DEF IInv, Apart
    <3>2. slot[u] # <<g, 0>>
      BY <3>1
    <3> QED BY Zenon, <1>4, <1>10, <1>12, <3>1, <3>2
  <2>4. \A u, v \in Threads : pc[u] \in Frees /\ pc[v] \in Frees /\ slot[v] = slot[u]
            => v = u
    BY Zenon DEF IInv, Apart
  <2> HIDE DEF Frees, Takes
  <2> QED BY Zenon, <1>8, <1>9, <2>1, <2>2, <2>3, <2>4 DEF Apart
<1>16. Somewhere'
  <2> SUFFICES ASSUME NEW h \in used', NEW i \in 0 .. last_idx'[h] PROVE Place(h, i)'
    BY Zenon DEF Somewhere
  <2>1. CASE h = g
    <3>1. i = 0 \/ i \in 1 .. a \/ i \in a + 1 .. l
      BY <1>4, <2>1
    <3>2. <<g, 0>> \in live'
      BY Zenon, <1>2
    <3> QED BY Zenon, <1>4, <2>1, <3>1, <3>2 DEF Place
  <2>2. CASE h # g
    <3>1. h \in used /\ h \in Metas /\ i \in All(h)
      BY Zenon, <1>2, <1>4, <1>10, <2>2
    <3>2. Place(h, i)
      BY Zenon, <3>1 DEF IInv, Somewhere
    <3>3. /\ avail_mask'[h] = avail_mask[h] /\ freed_mask'[h] = freed_mask[h]
          /\ <<h, i>> \in live => <<h, i>> \in live'
      BY Zenon, <1>2, <1>4, <2>2, <3>1
    <3> HIDE DEF Frees, Takes
    <3> QED BY Zenon, <1>8, <1>9, <3>2, <3>3 DEF Place
  <2> QED BY Zenon, <2>1, <2>2
<1>17. \A h \in used : /\ avail_mask[h] = {} /\ freed_mask[h] = {}
                       /\ active_idx[h] = last_idx[h]
  <2> SUFFICES ASSUME NEW h \in used
               PROVE  /\ avail_mask[h] = {} /\ freed_mask[h] = {}
                      /\ active_idx[h] = last_idx[h]
    BY Zenon
  <2>1. avail_mask[h] = {} /\ freed_mask[h] = {}
    <3>1. ~OnList(h)
      BY <1>5 DEF OnList
    <3> QED BY Zenon, <3>1 DEF IInv, List
  <2>2. active_idx[h] \in Nat /\ last_idx[h] \in Nat /\ active_idx[h] <= last_idx[h]
    BY Zenon, <1>10 DEF IInv, Types, Inactive
  <2>3. active_idx[h] < last_idx[h] => last_idx[h] \in freed_mask[h]
    BY <2>2 DEF IInv, Inactive
  <2> QED BY <2>1, <2>2, <2>3
<1>18. List'
  <2>1. \A h \in used' : ~(\E n \in 1 .. 1 : active'[n] = h) =>
            avail_mask'[h] = {} /\ freed_mask'[h] = {}
    BY <1>2, <1>5, <1>17
  <2>2. \A n \in 1 .. 1 : active'[n] \in used'
    BY <1>2, <1>5
  <2> QED BY <1>5, <2>1, <2>2, ListFrom
<1>19. Inactive'
  <2>1. ASSUME NEW h \in used'
        PROVE  /\ active_idx'[h] <= last_idx'[h]
               /\ h # g => active_idx'[h] = last_idx'[h]
               /\ active_idx'[h] \in Nat /\ last_idx'[h] \in Nat
    BY SMTT(30), <1>2, <1>3, <1>4, <1>10, <1>17
  <2>2. ASSUME NEW h \in used', NEW i \in 0 .. last_idx'[h], i > active_idx'[h]
        PROVE  i \in freed_mask'[h]
    <3>1. h = g
      BY <2>1, <2>2
    <3> QED BY <1>4, <2>2, <3>1
  <2>3. ASSUME NEW h \in used', active_idx'[h] < last_idx'[h]
        PROVE  h = g
    BY <2>1, <2>3
  <2> QED BY Zenon, <2>1, <2>2, <2>3 DEF Inactive
<1>20. LooksAt(t)' /\ HasRead(t)'
  BY Zenon, <1>6 DEF LooksAt, HasRead
<1>21. Looking' /\ Freeing'
  BY Zenon, <1>6, <1>7, <1>20, Bystander DEF Looking, Freeing
<1> QED BY Zenon, <1>6, <1>13, <1>14, <1>15, <1>16, <1>18, <1>19, <1>21 DEF IInv

-----------------------------------------------------------------------------
(* free. *)

\* What a thread knows while the list and the masks do not change.
LEMMA Unmoved ==
  ASSUME IInv, NEW u \in Threads,
         pc'[u] = pc[u], slot'[u] = slot[u], mask'[u] = mask[u],
         UNCHANGED <<active, active_idx, avail_mask, freed_mask>>
  PROVE  LooksAt(u)' /\ HasRead(u)'
<1>1. LooksAt(u) /\ HasRead(u)
  BY Zenon DEF IInv, Looking, Freeing
<1>2. LooksAt(u)'
  BY Zenon, <1>1 DEF LooksAt
<1>3. HasRead(u)'
  BY Zenon, <1>1 DEF HasRead, OnList
<1> QED BY Zenon, <1>2, <1>3

\* free is called: the slot is no longer the application's.
LEMMA freeInv ==
  ASSUME IInv, NEW t \in Threads, NEW s \in live, free(t, s)
  PROVE  IInv'
<1>1. /\ pc[t] = "idle" /\ live' = live \ {s}
      /\ UNCHANGED <<lock, active, used, last_idx, active_idx, avail_mask,
                     freed_mask, mask>>
  BY Zenon DEF free, Layout
<1>2. /\ s \in Slots /\ s[1] \in used /\ s[2] \in All(s[1]) /\ s[1] \in Metas
      /\ s[2] \notin avail_mask[s[1]] \union freed_mask[s[1]]
  BY Zenon DEF IInv, Types, Within, Apart
<1>3. /\ slot' \in [Threads -> Slots \union {None}] /\ slot'[t] = s
      /\ \A u \in Threads : u # t => slot'[u] = slot[u]
      /\ crashed' = FALSE
  BY Zenon, <1>2 DEF free, IInv, Types
<1>4. /\ pc' \in [Threads -> Locked \union Unlocked] /\ pc'[t] = "freed"
      /\ \A u \in Threads : u # t => pc'[u] = pc[u]
      /\ lock' \in SUBSET Threads /\ LockHeld'
  BY Zenon, <1>1, GoesOn DEF free
<1>5. \A u \in Threads : u # t =>
            (pc'[u] \in Frees <=> pc[u] \in Frees) /\ slot'[u] = slot[u]
  BY Zenon, <1>3, <1>4
<1>6. \A u \in Threads : /\ pc'[u] \in Takes <=> pc[u] \in Takes
                         /\ pc[u] \in Takes => u # t
  BY Zenon, <1>1, <1>4
<1>7. pc[t] \notin Frees /\ pc'[t] \in Frees
  BY Zenon, <1>1, <1>4
<1>8. Types'
  BY Zenon, <1>1, <1>3, <1>4 DEF IInv, Types
<1>9. Within'
  <2> HIDE DEF Frees, Takes
  <2>1. ASSUME NEW u \in Threads, pc'[u] \in Frees
        PROVE  /\ slot'[u] \in Slots /\ slot'[u][1] \in used
               /\ slot'[u][2] \in All(slot'[u][1])
    BY Zenon, <1>2, <1>3, <1>5, <2>1 DEF IInv, Within
  <2> QED BY Zenon, <1>1, <1>6, <2>1 DEF IInv, Within
<1>10. Apart'
  <2> HIDE DEF Frees, Takes
  <2>1. \A u \in Threads : pc[u] \in Frees => slot[u] # s
    BY Zenon DEF IInv, Apart
  <2>2. ASSUME NEW u \in Threads, pc'[u] \in Frees
        PROVE  /\ slot'[u] \notin live'
               /\ slot'[u][2] \notin avail_mask[slot'[u][1]]
                                        \union freed_mask[slot'[u][1]]
    BY Zenon, <1>1, <1>2, <1>3, <1>5, <2>2 DEF IInv, Apart
  <2>3. ASSUME NEW u \in Threads, NEW v \in Threads, pc'[u] \in Frees,
               pc'[v] \in Frees, slot'[v] = slot'[u]
        PROVE  v = u
    <3>1. CASE u = t
      BY Zenon, <1>3, <1>5, <2>1, <2>3, <3>1
    <3>2. CASE v = t
      BY Zenon, <1>3, <1>5, <2>1, <2>3, <3>2
    <3>3. CASE u # t /\ v # t
      BY Zenon, <1>5, <2>3, <3>3 DEF IInv, Apart
    <3> QED BY Zenon, <3>1, <3>2, <3>3
  <2>4. ASSUME NEW u \in Threads, pc[u] \in Takes, NEW i \in mask[u]
        PROVE  /\ i \notin avail_mask[active[1]] \union freed_mask[active[1]]
               /\ <<active[1], i>> \notin live'
               /\ \A v \in Threads : pc'[v] \in Frees => slot'[v] # <<active[1], i>>
    <3>1. /\ i \notin avail_mask[active[1]] \union freed_mask[active[1]]
          /\ <<active[1], i>> \notin live
          /\ \A v \in Threads : pc[v] \in Frees => slot[v] # <<active[1], i>>
      BY Zenon, <2>4 DEF IInv, Apart
    <3> QED BY Zenon, <1>1, <1>3, <1>5, <3>1
  <2>5. /\ \A h \in Metas : avail_mask[h] \intersect freed_mask[h] = {}
        /\ \A x \in live' : x[2] \notin avail_mask[x[1]] \union freed_mask[x[1]]
    BY Zenon, <1>1 DEF IInv, Apart
  <2> QED BY Zenon, <1>1, <1>6, <2>2, <2>3, <2>4, <2>5 DEF Apart
<1>11. Somewhere'
  <2> SUFFICES ASSUME NEW h \in used, NEW i \in All(h) PROVE Place(h, i)'
    BY Zenon, <1>1 DEF Somewhere
  <2>1. Place(h, i)
    BY Zenon DEF IInv, Somewhere
  <2>2. CASE <<h, i>> = s
    BY Zenon, <1>3, <1>7, <2>2 DEF Place
  <2>3. CASE <<h, i>> # s
    <3> HIDE DEF Frees, Takes
    <3> QED BY Zenon, <1>1, <1>5, <1>6, <1>7, <2>1, <2>3 DEF Place
  <2> QED BY Zenon, <2>2, <2>3
<1>12. List' /\ Inactive'
  BY Zenon, <1>1, <1>3, <1>4, QuietList
<1>13. LooksAt(t)' /\ HasRead(t)'
  BY Zenon, <1>4 DEF LooksAt, HasRead
<1>14. Looking' /\ Freeing'
  BY Zenon, <1>1, <1>3, <1>4, <1>13, Unmoved DEF Looking, Freeing
<1> QED BY Zenon, <1>4, <1>8, <1>9, <1>10, <1>11, <1>12, <1>14 DEF IInv

\* free reads freed_mask; the slot is not in it.
LEMMA ReadFreedInv ==
  ASSUME IInv, NEW t \in Threads, ReadFreed(t)
  PROVE  IInv'
<1>1. /\ pc[t] = "freed"
      /\ UNCHANGED <<lock, active, used, last_idx, active_idx, avail_mask,
                     freed_mask, live, slot, crashed>>
  BY Zenon DEF ReadFreed, Layout
<1>2. /\ slot[t] \in Slots /\ Group(t) \in Metas
      /\ Index(t) \notin freed_mask[Group(t)]
  BY Zenon, <1>1 DEF IInv, Within, Apart
<1>3. /\ pc' \in [Threads -> Locked \union Unlocked] /\ pc'[t] = "avail"
      /\ \A u \in Threads : u # t => pc'[u] = pc[u]
      /\ lock' \in SUBSET Threads /\ LockHeld'
  BY Zenon, <1>1, GoesOn DEF ReadFreed
<1>4. /\ mask' \in [Threads -> SUBSET Nat] /\ mask'[t] = freed_mask[Group(t)]
      /\ \A u \in Threads : u # t => mask'[u] = mask[u]
  BY Zenon, <1>2 DEF ReadFreed, Local, IInv, Types
<1>5. Types'
  BY Zenon, <1>1, <1>3, <1>4 DEF IInv, Types
<1>6. Within' /\ Apart' /\ Somewhere'
  BY Zenon, <1>1, <1>3, <1>4, QuietSlots
<1>7. List' /\ Inactive'
  BY Zenon, <1>1, <1>3, QuietList
<1>8. LooksAt(t)' /\ HasRead(t)'
  BY Zenon, <1>1, <1>2, <1>3, <1>4 DEF LooksAt, HasRead
<1>9. Looking' /\ Freeing'
  BY Zenon, <1>1, <1>3, <1>4, <1>8, Unmoved DEF Looking, Freeing
<1> QED BY Zenon, <1>3, <1>5, <1>6, <1>7, <1>9 DEF IInv

\* free reads avail_mask and chooses between the lock and the exchange.
LEMMA ReadAvailInv ==
  ASSUME IInv, NEW t \in Threads, ReadAvail(t)
  PROVE  IInv'
<1>1. /\ pc[t] = "avail"
      /\ UNCHANGED <<lock, active, used, last_idx, active_idx, avail_mask,
                     freed_mask, live, slot, mask>>
      /\ crashed' = (crashed \/ Index(t) \in mask[t] \union avail_mask[Group(t)])
      /\ \/ Goto(t, "lock")
         \/ Goto(t, "cas") /\ mask[t] # {}
  BY Zenon DEF ReadAvail, Layout, WithLock
<1>2. Index(t) \notin mask[t] /\ Index(t) \notin avail_mask[Group(t)]
  BY Zenon, <1>1 DEF IInv, Apart, Freeing, HasRead
<1>3. /\ pc' \in [Threads -> Locked \union Unlocked]
      /\ pc'[t] = "lock" \/ (pc'[t] = "cas" /\ mask[t] # {})
      /\ \A u \in Threads : u # t => pc'[u] = pc[u]
      /\ lock' \in SUBSET Threads /\ LockHeld'
  <2>1. CASE Goto(t, "lock")
    BY Zenon, <1>1, <2>1, GoesOn
  <2>2. CASE Goto(t, "cas") /\ mask[t] # {}
    BY Zenon, <1>1, <2>2, GoesOn
  <2> QED BY Zenon, <1>1, <2>1, <2>2
<1>4. Types'
  BY Zenon, <1>1, <1>2, <1>3 DEF IInv, Types
<1>5. Within' /\ Apart' /\ Somewhere'
  BY Zenon, <1>1, <1>3, QuietSlots
<1>6. List' /\ Inactive'
  BY Zenon, <1>1, <1>3, QuietList
<1>7. LooksAt(t)' /\ HasRead(t)'
  BY Zenon, <1>1, <1>3 DEF LooksAt, HasRead
<1>8. Looking' /\ Freeing'
  BY Zenon, <1>1, <1>3, <1>7, Unmoved DEF Looking, Freeing
<1> QED BY Zenon, <1>3, <1>4, <1>5, <1>6, <1>8 DEF IInv

\* free has the lock, with the masks as they are now.
LEMMA NontrivialInv ==
  ASSUME IInv, NEW t \in Threads, Nontrivial(t)
  PROVE  IInv'
<1>1. /\ pc[t] = "lock" /\ lock = {} /\ lock' = {t}
      /\ UNCHANGED <<active, used, last_idx, active_idx, avail_mask, freed_mask,
                     live, slot, crashed>>
  BY Zenon DEF Nontrivial, Layout
<1>2. slot[t] \in Slots /\ Group(t) \in Metas
  BY Zenon, <1>1 DEF IInv, Within
<1>3. /\ pc' \in [Threads -> Locked \union Unlocked] /\ pc'[t] = "nontrivial"
      /\ \A u \in Threads : u # t => pc'[u] = pc[u]
  BY Zenon DEF Nontrivial, Goto, IInv, Types
<1>4. /\ mask' \in [Threads -> SUBSET Nat]
      /\ mask'[t] = freed_mask[Group(t)] \union avail_mask[Group(t)]
      /\ \A u \in Threads : u # t => mask'[u] = mask[u]
  BY <1>2 DEF Nontrivial, Local, IInv, Types
<1>5. \A u \in Threads : pc[u] \notin Locked
  BY Zenon, <1>1 DEF IInv, LockHeld
<1>6. Types' /\ LockHeld'
  BY Zenon, <1>1, <1>3, <1>4, <1>5 DEF IInv, Types, LockHeld
<1>7. Within' /\ Apart' /\ Somewhere'
  BY Zenon, <1>1, <1>3, <1>4, QuietSlots
<1>8. List' /\ Inactive'
  BY Zenon, <1>1, <1>3, QuietList
<1>9. LooksAt(t)' /\ HasRead(t)'
  BY Zenon, <1>1, <1>3, <1>4 DEF LooksAt, HasRead
<1>10. Looking' /\ Freeing'
  BY Zenon, <1>1, <1>3, <1>4, <1>5, <1>9, Bystander DEF Looking, Freeing
<1> QED BY Zenon, <1>6, <1>7, <1>8, <1>10 DEF IInv

\* The list stays, while masks change.
LEMMA ListKept ==
  ASSUME IInv, UNCHANGED <<active, used>>,
         \A g \in used : ~OnList(g) => avail_mask'[g] = {} /\ freed_mask'[g] = {},
         \A n \in 2 .. Len(active) :
            /\ avail_mask'[active[n]] = {}
            /\ \/ freed_mask'[active[n]] # {}
               \/ \E u \in Threads : pc'[u] = "or" /\ slot'[u][1] = active[n]
  PROVE  List'
<1> DEFINE K == Len(active)
<1>1. K \in Nat
  BY DEF IInv, Types
<1>2. /\ \A m, n \in 1 .. K : active[m] = active[n] => m = n
      /\ \A n \in 1 .. K : active[n] \in used
  BY Zenon DEF IInv, List
<1> HIDE DEF K
<1>3. Len(active') = K
  BY Zenon DEF K
<1>4. \A n \in 2 .. K : /\ avail_mask'[active'[n]] = {}
                        /\ \/ freed_mask'[active'[n]] # {}
                           \/ \E u \in Threads : pc'[u] = "or" /\ slot'[u][1] = active'[n]
  BY Zenon DEF K
<1>5. \A g \in used' : ~(\E n \in 1 .. K : active'[n] = g) =>
            avail_mask'[g] = {} /\ freed_mask'[g] = {}
  BY Zenon DEF K, OnList
<1>6. /\ \A m, n \in 1 .. K : active'[m] = active'[n] => m = n
      /\ \A n \in 1 .. K : active'[n] \in used'
  BY Zenon, <1>2
<1> QED BY Zenon, <1>1, <1>3, <1>4, <1>5, <1>6, ListFrom

\* A slot goes from the thread that frees it to freed_mask.
LEMMA FreedInv ==
  ASSUME IInv, NEW t \in Threads, pc[t] \in {"cas", "or"}, Return(t),
         freed_mask' = [freed_mask EXCEPT ![Group(t)] = @ \union {Index(t)}],
         pc[t] = "cas" => freed_mask[Group(t)] # {},
         UNCHANGED <<active, used, last_idx, active_idx, avail_mask, live, crashed>>
  PROVE  IInv'
<1> DEFINE g == slot[t][1]
           i == slot[t][2]
<1>1. /\ slot[t] \in Slots /\ g \in used /\ g \in Metas /\ i \in All(g) /\ i \in Nat
      /\ slot[t] = <<g, i>> /\ slot[t] \notin live
      /\ i \notin avail_mask[g] \union freed_mask[g]
      /\ \A u \in Threads : pc[u] \in Frees /\ slot[u] = slot[t] => u = t
  BY Zenon, FreeingSlot
<1>2. OnList(g)
  <2>1. CASE pc[t] = "or"
    BY Zenon, <2>1 DEF IInv, Freeing, HasRead
  <2>2. CASE pc[t] = "cas"
    BY Zenon, <1>1, <2>2 DEF IInv, List
  <2> QED BY Zenon, <2>1, <2>2
<1>3. /\ freed_mask' \in [Metas -> SUBSET Nat]
      /\ freed_mask'[g] = freed_mask[g] \union {i}
      /\ \A h \in Metas : h # g => freed_mask'[h] = freed_mask[h]
  <2>1. freed_mask \in [Metas -> SUBSET Nat]
    BY Zenon DEF IInv, Types
  <2>2. freed_mask[g] \union {i} \in SUBSET Nat
    BY Zenon, <1>1, <2>1
  <2> QED BY Zenon, <1>1, <2>1, <2>2
<1>4. /\ pc' \in [Threads -> Locked \union Unlocked] /\ pc'[t] = "idle"
      /\ slot' \in [Threads -> Slots \union {None}]
      /\ mask' \in [Threads -> SUBSET Nat]
      /\ \A u \in Threads : u # t =>
            pc'[u] = pc[u] /\ slot'[u] = slot[u] /\ mask'[u] = mask[u]
      /\ lock' \in SUBSET Threads /\ LockHeld'
  BY Zenon, Returns
<1>5. \A u \in Threads :
            /\ pc'[u] \in Frees <=> pc[u] \in Frees /\ u # t
            /\ pc'[u] \in Frees => slot'[u] = slot[u]
            /\ pc'[u] \in Takes <=> pc[u] \in Takes
            /\ pc[u] \in Takes => mask'[u] = mask[u]
  BY Zenon, <1>4
<1>6. pc[t] = "cas" => freed_mask[g] # {}
  BY Zenon
<1> HIDE DEF g, i
<1>7. Types'
  BY Zenon, <1>3, <1>4 DEF IInv, Types
<1>8. Within'
  <2> HIDE DEF Frees, Takes
  <2>1. ASSUME NEW h \in Metas
        PROVE  /\ avail_mask[h] \union freed_mask'[h] \subseteq All(h)
               /\ h \notin used => avail_mask[h] = {} /\ freed_mask'[h] = {}
    BY <1>1 DEF IInv, Within
  <2> QED BY Zenon, <1>5, <2>1 DEF IInv, Within
<1>9. Apart'
  <2> HIDE DEF Frees, Takes
  <2>1. \A h \in Metas : avail_mask[h] \intersect freed_mask'[h] = {}
    <3> SUFFICES ASSUME NEW h \in Metas
                 PROVE  avail_mask[h] \intersect freed_mask'[h] = {}
      BY Zenon
    <3>1. avail_mask[h] \intersect freed_mask[h] = {}
      BY Zenon DEF IInv, Apart
    <3>2. CASE h = g
      <4>1. freed_mask'[h] = freed_mask[h] \union {i} /\ i \notin avail_mask[h]
        BY Zenon, <1>1, <1>3, <3>2
      <4> QED BY Zenon, <3>1, <4>1
    <3>3. CASE h # g
      <4>1. freed_mask'[h] = freed_mask[h]
        BY Zenon, <1>3, <3>3
      <4> QED BY Zenon, <3>1, <4>1
    <3> QED BY Zenon, <3>2, <3>3
  <2>2. ASSUME NEW h \in Metas, NEW k \in Nat, <<h, k>> # slot[t],
               k \notin avail_mask[h] \union freed_mask[h]
        PROVE  k \notin avail_mask[h] \union freed_mask'[h]
    BY Zenon, <1>1, <1>3, <2>2
  <2>3. ASSUME NEW s \in live PROVE s[2] \notin avail_mask[s[1]] \union freed_mask'[s[1]]
    <3>1. /\ s = <<s[1], s[2]>> /\ s[1] \in Metas /\ s[2] \in Nat /\ s # slot[t]
          /\ s[2] \notin avail_mask[s[1]] \union freed_mask[s[1]]
      <4>1. s \in Slots
        BY Zenon DEF IInv, Types
      <4>2. s[2] \notin avail_mask[s[1]] \union freed_mask[s[1]]
        BY Zenon DEF IInv, Apart
      <4> QED BY <1>1, <4>1, <4>2
    <3> QED BY Zenon, <2>2, <3>1
  <2>4. ASSUME NEW u \in Threads, pc'[u] \in Frees
        PROVE  slot[u][2] \notin avail_mask[slot[u][1]] \union freed_mask'[slot[u][1]]
    <3>1. /\ slot[u] \in Slots /\ slot[u] # slot[t]
          /\ slot[u][2] \notin avail_mask[slot[u][1]] \union freed_mask[slot[u][1]]
      BY Zenon, <1>1, <1>5, <2>4 DEF IInv, Within, Apart
    <3>2. slot[u] = <<slot[u][1], slot[u][2]>> /\ slot[u][1] \in Metas /\ slot[u][2] \in Nat
      BY <3>1
    <3> QED BY Zenon, <2>2, <3>1, <3>2
  <2>5. ASSUME NEW u \in Threads, pc[u] \in Takes, NEW k \in mask[u]
        PROVE  k \notin avail_mask[active[1]] \union freed_mask'[active[1]]
    <3>1. /\ k \notin avail_mask[active[1]] \union freed_mask[active[1]]
          /\ <<active[1], k>> # slot[t] /\ k \in Nat
      BY Zenon, <2>5 DEF IInv, Apart, Types, Frees
    <3>2. active[1] \in Metas
      <4>1. active # <<>>
        BY Zenon, <2>5 DEF IInv, Within
      <4> QED BY <4>1 DEF IInv, Types
    <3> QED BY Zenon, <2>2, <3>1, <3>2
  <2>6. ASSUME NEW u \in Threads, pc'[u] \in Frees
        PROVE  /\ slot'[u] = slot[u] /\ slot[u] \notin live
               /\ \A v \in Threads : pc'[v] \in Frees /\ slot'[v] = slot'[u] => v = u
    BY Zenon, <1>5, <2>6 DEF IInv, Apart
  <2>7. ASSUME NEW u \in Threads, pc'[u] \in Takes, NEW k \in mask'[u]
        PROVE  /\ k \notin avail_mask[active[1]] \union freed_mask'[active[1]]
               /\ <<active[1], k>> \notin live
               /\ \A v \in Threads : pc'[v] \in Frees => slot'[v] # <<active[1], k>>
    <3>1. pc[u] \in Takes /\ k \in mask[u]
      BY Zenon, <1>5, <2>7
    <3>2. /\ <<active[1], k>> \notin live
          /\ \A v \in Threads : pc[v] \in Frees => slot[v] # <<active[1], k>>
      BY Zenon, <3>1 DEF IInv, Apart
    <3> QED BY Zenon, <1>5, <2>5, <3>1, <3>2
  <2> QED BY Zenon, <2>1, <2>3, <2>4, <2>6, <2>7 DEF IInv, Apart
<1>10. Somewhere'
  <2> SUFFICES ASSUME NEW h \in used, NEW k \in All(h) PROVE Place(h, k)'
    BY Zenon DEF Somewhere
  <2>1. h \in Metas /\ Place(h, k)
    BY Zenon DEF IInv, Types, Somewhere
  <2>2. CASE h = g /\ k = i
    BY Zenon, <1>3, <2>2 DEF Place
  <2>3. CASE ~(h = g /\ k = i)
    <3>1. <<h, k>> # slot[t] /\ (k \in freed_mask[h] => k \in freed_mask'[h])
      BY <1>1, <2>3
    <3> HIDE DEF Frees, Takes
    <3>2. \A u \in Threads : pc[u] \in Frees /\ slot[u] = <<h, k>> =>
              pc'[u] \in Frees /\ slot'[u] = <<h, k>>
      BY Zenon, <1>5, <3>1
    <3> QED BY Zenon, <1>5, <2>1, <3>1, <3>2 DEF Place
  <2> QED BY Zenon, <2>2, <2>3
<1>11. List'
  <2>1. \A h \in used : ~OnList(h) => avail_mask[h] = {} /\ freed_mask'[h] = {}
    <3> SUFFICES ASSUME NEW h \in used, ~OnList(h)
                 PROVE  avail_mask[h] = {} /\ freed_mask'[h] = {}
      BY Zenon
    <3>1. h \in Metas /\ h # g /\ avail_mask[h] = {} /\ freed_mask[h] = {}
      BY Zenon, <1>2 DEF IInv, Types, List
    <3> QED BY Zenon, <1>3, <3>1
  <2>2. ASSUME NEW n \in 2 .. Len(active)
        PROVE  /\ avail_mask[active[n]] = {}
               /\ \/ freed_mask'[active[n]] # {}
                  \/ \E u \in Threads : pc'[u] = "or" /\ slot'[u][1] = active[n]
    <3>1. /\ avail_mask[active[n]] = {}
          /\ \/ freed_mask[active[n]] # {}
             \/ \E u \in Threads : pc[u] = "or" /\ slot[u][1] = active[n]
      BY Zenon DEF IInv, List
    <3>2. active[n] \in Metas
      BY DEF IInv, Types
    <3>3. CASE active[n] = g
      BY Zenon, <1>3, <3>1, <3>3
    <3>4. CASE active[n] # g
      BY <1>4, <3>1, <3>4 DEF g
    <3> QED BY Zenon, <3>3, <3>4
  <2> QED BY Zenon, <2>1, <2>2, ListKept
<1>12. Inactive'
  BY Zenon, <1>1, <1>3 DEF IInv, Types, Inactive
<1>13. LooksAt(t)' /\ HasRead(t)'
  BY Zenon, <1>4 DEF LooksAt, HasRead
<1>14. ASSUME NEW u \in Threads, u # t PROVE LooksAt(u)' /\ HasRead(u)'
  <2>1. CASE pc[u] \notin Locked
    BY Zenon, <1>4, <1>14, <2>1, Bystander
  <2>2. CASE pc[u] \in Locked
    <3>1. freed_mask[g] # {}
      BY Zenon, <1>6, <1>14, <2>2, Others
    <3>2. \A h \in Metas : /\ freed_mask[h] \subseteq freed_mask'[h]
                           /\ freed_mask[h] = {} => freed_mask'[h] = {}
      BY Zenon, <1>3, <3>1
    <3>3. LooksAt(u) /\ HasRead(u)
      BY Zenon DEF IInv, Looking, Freeing
    <3>4. active # <<>> => active[1] \in Metas
      BY DEF IInv, Types
    <3>5. pc[u] \in Frees => slot[u][1] \in Metas
      BY Zenon DEF IInv, Within
    <3>6. LooksAt(u)'
      BY Zenon, <1>4, <1>14, <3>2, <3>3, <3>4 DEF LooksAt
    <3>7. HasRead(u)'
      <4>1. pc'[u] = pc[u] /\ slot'[u] = slot[u] /\ mask'[u] = mask[u]
        BY Zenon, <1>4, <1>14
      <4>2. CASE pc[u] = "nontrivial"
        BY Zenon, <3>2, <3>3, <3>5, <4>1, <4>2 DEF HasRead
      <4>3. CASE pc[u] = "or"
        BY Zenon, <3>3, <4>1, <4>3 DEF HasRead, OnList
      <4>4. CASE pc[u] \notin {"nontrivial", "or"}
        BY Zenon, <2>2, <4>1, <4>4 DEF HasRead
      <4> QED BY Zenon, <4>2, <4>3, <4>4
    <3> QED BY Zenon, <3>6, <3>7
  <2> QED BY Zenon, <2>1, <2>2
<1>15. Looking' /\ Freeing'
  BY Zenon, <1>13, <1>14 DEF Looking, Freeing
<1> QED BY Zenon, <1>4, <1>7, <1>8, <1>9, <1>10, <1>11, <1>12, <1>15 DEF IInv

\* nontrivial_free adds the slot to freed_mask with the lock held.
LEMMA OrInv ==
  ASSUME IInv, NEW t \in Threads, Or(t)
  PROVE  IInv'
  BY Zenon, FreedInv DEF Or, Layout

\* The exchange of freed_mask that free makes without the lock: it adds the
\* slot, or another thread was faster and free starts over.
LEMMA CasInv ==
  ASSUME IInv, NEW t \in Threads, Cas(t)
  PROVE  IInv'
<1>1. /\ pc[t] = "cas" /\ mask[t] # {}
      /\ UNCHANGED <<active, used, last_idx, active_idx, avail_mask, live, crashed>>
  BY Zenon DEF Cas, Layout, IInv, Freeing, HasRead
<1>2. CASE /\ freed_mask[Group(t)] = mask[t]
           /\ freed_mask' = [freed_mask EXCEPT ![Group(t)] = @ \union {Index(t)}]
           /\ Return(t)
  BY Zenon, <1>1, <1>2, FreedInv
<1>3. CASE Goto(t, "freed") /\ Local(t, {}) /\ UNCHANGED <<lock, freed_mask, slot>>
  <2>1. /\ pc' \in [Threads -> Locked \union Unlocked] /\ pc'[t] = "freed"
        /\ \A u \in Threads : u # t => pc'[u] = pc[u]
        /\ lock' \in SUBSET Threads /\ LockHeld'
    BY Zenon, <1>1, <1>3, GoesOn
  <2>2. /\ mask' \in [Threads -> SUBSET Nat]
        /\ \A u \in Threads : u # t => mask'[u] = mask[u]
    BY Zenon, <1>3 DEF Local, IInv, Types
  <2>3. Types'
    BY Zenon, <1>1, <1>3, <2>1, <2>2 DEF IInv, Types
  <2>4. Within' /\ Apart' /\ Somewhere'
    BY Zenon, <1>1, <1>3, <2>1, <2>2, QuietSlots
  <2>5. List' /\ Inactive'
    BY Zenon, <1>1, <1>3, <2>1, QuietList
  <2>6. LooksAt(t)' /\ HasRead(t)'
    BY Zenon, <2>1 DEF LooksAt, HasRead
  <2>7. Looking' /\ Freeing'
    BY Zenon, <1>1, <1>3, <2>1, <2>2, <2>6, Unmoved DEF Looking, Freeing
  <2> QED BY Zenon, <2>1, <2>3, <2>4, <2>5, <2>7 DEF IInv
<1> QED BY Zenon, <1>2, <1>3 DEF Cas

\* nontrivial_free queues the group, if it is not on the list, and goes on.
LEMMA KeepGroupInv ==
  ASSUME IInv, NEW t \in Threads, KeepGroup(t)
  PROVE  IInv'
<1> DEFINE g == slot[t][1]
<1>1. /\ pc[t] = "nontrivial"
      /\ active' = IF mask[t] = {} /\ (active # <<>> => Head(active) # g)
                   THEN Append(active, g) ELSE active
      /\ UNCHANGED <<lock, used, last_idx, active_idx, avail_mask, freed_mask,
                     live, slot, mask, crashed>>
  BY Zenon DEF KeepGroup, Layout
<1>2. /\ g \in used /\ g \in Metas
      /\ mask[t] \subseteq freed_mask[g] \union avail_mask[g]
      /\ mask[t] = {} => freed_mask[g] = {} /\ avail_mask[g] = {}
  <2>1. g \in used /\ g \in Metas
    BY Zenon, <1>1 DEF IInv, Types, Within
  <2>2. HasRead(t)
    BY Zenon DEF IInv, Freeing
  <2> QED BY Zenon, <1>1, <2>1, <2>2 DEF HasRead
<1>3. /\ pc' \in [Threads -> Locked \union Unlocked] /\ pc'[t] = "or"
      /\ \A u \in Threads : u # t => pc'[u] = pc[u]
      /\ lock' \in SUBSET Threads /\ LockHeld'
  BY Zenon, <1>1, GoesOn DEF KeepGroup
<1>4. \A u \in Threads : u # t => pc[u] \notin Locked
  BY Zenon, <1>1, Others
<1>5. \A n \in 2 .. Len(active) :
            avail_mask[active[n]] = {} /\ freed_mask[active[n]] # {}
  BY Zenon, <1>1, BehindHead
<1>6. active # <<>> => Head(active) = active[1] /\ Len(active) \in Nat \ {0}
  BY Zenon, TailSeq DEF IInv, Types
<1>7. active' \in Seq(Metas) /\ List' /\ \E n \in 1 .. Len(active') : active'[n] = g
  <2>1. CASE mask[t] = {} /\ (active # <<>> => Head(active) # g)
    <3> DEFINE L == Len(active)
    <3>1. /\ L \in Nat /\ active' \in Seq(Metas) /\ Len(active') = L + 1
          /\ \A k \in 1 .. L : active'[k] = active[k]
          /\ active'[L + 1] = g
      BY <1>1, <1>2, <2>1 DEF IInv, Types
    <3> HIDE DEF L
    <3>2. \A k \in 1 .. L : active[k] # g
      <4> TAKE k \in 1 .. L
      <4>1. CASE k = 1
        <5>1. active # <<>>
          BY <3>1, <4>1 DEF L
        <5> QED BY Zenon, <1>6, <2>1, <4>1, <5>1
      <4>2. CASE k # 1
        <5>1. k \in 2 .. Len(active)
          BY <3>1, <4>2 DEF L
        <5> QED BY Zenon, <1>2, <1>5, <2>1, <5>1
      <4> QED BY Zenon, <4>1, <4>2
    <3>3. \A k \in 1 .. L + 1 : k \in 1 .. L \/ k = L + 1
      BY <3>1
    <3>4. \A m, n \in 1 .. L + 1 : active'[m] = active'[n] => m = n
      <4>1. \A m, n \in 1 .. L : active[m] = active[n] => m = n
        BY Zenon DEF IInv, List, L
      <4> QED BY <3>1, <3>2, <4>1
    <3>5. \A n \in 1 .. L + 1 : active'[n] \in used
      <4>1. \A n \in 1 .. L : active[n] \in used
        BY Zenon DEF IInv, List, L
      <4> QED BY Zenon, <1>2, <3>1, <3>3, <4>1
    <3>6. ASSUME NEW h \in used, ~(\E n \in 1 .. L + 1 : active'[n] = h)
          PROVE  avail_mask[h] = {} /\ freed_mask[h] = {}
      <4>1. ~OnList(h)
        <5>1. \A k \in 1 .. L : k \in 1 .. L + 1 /\ active'[k] = active[k]
          BY <3>1
        <5> QED BY Zenon, <3>6, <5>1 DEF OnList, L
      <4> QED BY Zenon, <4>1 DEF IInv, List
    <3>7. ASSUME NEW n \in 2 .. L + 1
          PROVE  /\ avail_mask[active'[n]] = {}
                 /\ \/ freed_mask[active'[n]] # {}
                    \/ \E u \in Threads : pc'[u] = "or" /\ slot[u][1] = active'[n]
      <4>1. CASE n = L + 1
        BY Zenon, <1>2, <1>3, <2>1, <3>1, <4>1
      <4>2. CASE n # L + 1
        <5>1. n \in 2 .. L /\ n \in 1 .. L
          BY <3>1, <4>2
        <5>2. avail_mask[active[n]] = {} /\ freed_mask[active[n]] # {}
          BY Zenon, <1>5, <5>1 DEF L
        <5> QED BY Zenon, <3>1, <5>1, <5>2
      <4> QED BY Zenon, <4>1, <4>2
    <3>8. \E n \in 1 .. Len(active') : active'[n] = g
      BY <3>1
    <3> HIDE DEF g
    <3>9. List'
      <4>1. L + 1 \in Nat
        BY <3>1
      <4>2. /\ \A n \in 1 .. L + 1 : active'[n] \in used'
            /\ \A h \in used' : ~(\E n \in 1 .. L + 1 : active'[n] = h) =>
                    avail_mask'[h] = {} /\ freed_mask'[h] = {}
        BY Zenon, <1>1, <3>5, <3>6
      <4>3. \A n \in 2 .. L + 1 :
                /\ avail_mask'[active'[n]] = {}
                /\ \/ freed_mask'[active'[n]] # {}
                   \/ \E u \in Threads : pc'[u] = "or" /\ slot'[u][1] = active'[n]
        BY Zenon, <1>1, <3>7
      <4> QED BY Zenon, <3>1, <3>4, <4>1, <4>2, <4>3, ListFrom
    <3> QED BY Zenon, <3>1, <3>8, <3>9
  <2>2. CASE ~(mask[t] = {} /\ (active # <<>> => Head(active) # g))
    <3>1. UNCHANGED active
      BY Zenon, <1>1, <2>2
    <3>2. OnList(g)
      <4>1. CASE mask[t] # {}
        BY <1>2, <4>1 DEF IInv, List
      <4>2. CASE mask[t] = {}
        <5>1. active # <<>> /\ active[1] = g /\ 1 \in 1 .. Len(active)
          BY <2>2, <4>2
        <5> QED BY Zenon, <5>1 DEF OnList
      <4> QED BY Zenon, <4>1, <4>2
    <3>3. List'
      BY Zenon, <1>1, <1>3, <1>4, <3>1, QuietList
    <3> QED BY Zenon, <3>1, <3>2, <3>3 DEF IInv, Types, OnList
  <2> QED BY Zenon, <2>1, <2>2
<1>8. Types'
  BY Zenon, <1>1, <1>3, <1>7 DEF IInv, Types
<1>9. Within' /\ Apart' /\ Somewhere'
  BY Zenon, <1>1, <1>3, <1>4, QuietSlots
<1>10. Inactive'
  BY Zenon, <1>1 DEF IInv, Inactive
<1>11. LooksAt(t)' /\ HasRead(t)'
  BY Zenon, <1>1, <1>3, <1>7 DEF LooksAt, HasRead, OnList
<1>12. Looking' /\ Freeing'
  BY Zenon, <1>1, <1>3, <1>4, <1>11, Bystander DEF Looking, Freeing
<1> QED BY Zenon, <1>3, <1>7, <1>8, <1>9, <1>10, <1>12 DEF IInv

\* A group that is whole again: nobody has, frees or takes a slot of it but
\* the thread that frees the last one.
LEMMA WholeGroup ==
  ASSUME IInv, NEW t \in Threads, pc[t] = "nontrivial", Whole(t)
  PROVE  /\ \A s \in live : s[1] # Group(t)
         /\ \A u \in Threads : pc[u] \in Frees /\ u # t => slot[u][1] # Group(t)
<1> DEFINE g == slot[t][1]
           i == slot[t][2]
<1>1. /\ slot[t] = <<g, i>> /\ slot[t] \notin live
      /\ \A u \in Threads : pc[u] \in Frees /\ slot[u] = slot[t] => u = t
  BY Zenon, FreeingSlot
<1>2. ASSUME NEW k \in All(g), k # i PROVE k \in freed_mask[g] \union avail_mask[g]
  <2>1. HasRead(t)
    BY Zenon DEF IInv, Freeing
  <2> QED BY <1>2, <2>1 DEF HasRead, Whole
<1>3. ASSUME NEW s \in live, s[1] = g PROVE FALSE
  <2>1. s = <<s[1], s[2]>> /\ s[2] \in All(s[1])
    BY DEF IInv, Types, Within
  <2>2. s[2] \notin avail_mask[s[1]] \union freed_mask[s[1]]
    BY Zenon DEF IInv, Apart
  <2> HIDE DEF g, i
  <2>3. s[2] = i
    BY Zenon, <1>2, <1>3, <2>1, <2>2
  <2> QED BY Zenon, <1>1, <1>3, <2>1, <2>3
<1>4. ASSUME NEW u \in Threads, pc[u] \in Frees, u # t, slot[u][1] = g PROVE FALSE
  <2>1. slot[u] = <<slot[u][1], slot[u][2]>> /\ slot[u][2] \in All(slot[u][1])
    BY Zenon, <1>4, FreeingSlot
  <2>2. slot[u][2] \notin avail_mask[slot[u][1]] \union freed_mask[slot[u][1]]
    BY Zenon, <1>4 DEF IInv, Apart
  <2> HIDE DEF g, i
  <2>3. slot[u][2] = i
    BY Zenon, <1>2, <1>4, <2>1, <2>2
  <2> QED BY Zenon, <1>1, <1>4, <2>1, <2>3
<1> QED BY Zenon, <1>3, <1>4

\* The list without a group of it, or as it was.
LEMMA DequeueList ==
  ASSUME IInv, NEW g \in used, dequeue(g), used' = used \ {g},
         \A h \in Metas : h # g =>
            avail_mask'[h] = avail_mask[h] /\ freed_mask'[h] = freed_mask[h],
         \A n \in 2 .. Len(active) :
            avail_mask[active[n]] = {} /\ freed_mask[active[n]] # {}
  PROVE  /\ active' \in Seq(Metas) /\ List'
         /\ active # <<>> /\ active[1] = g /\ Len(active) > 1 =>
                /\ active' # <<>> /\ avail_mask'[active'[1]] = {}
                /\ freed_mask'[active'[1]] # {}
<1> DEFINE L == Len(active)
<1>1. /\ g \in Metas /\ active \in Seq(Metas) /\ L \in Nat /\ DOMAIN active = 1 .. L
      /\ \A h \in Metas : h # g =>
            avail_mask'[h] = avail_mask[h] /\ freed_mask'[h] = freed_mask[h]
  BY DEF IInv, Types
<1>2. /\ \A m, n \in 1 .. L : active[m] = active[n] => m = n
      /\ \A n \in 1 .. L : active[n] \in used /\ active[n] \in Metas
      /\ \A h \in used : ~(\E n \in 1 .. L : active[n] = h) =>
            h \in Metas /\ avail_mask[h] = {} /\ freed_mask[h] = {}
  BY Zenon DEF IInv, Types, List, OnList
<1>3. \A n \in 2 .. L : avail_mask[active[n]] = {} /\ freed_mask[active[n]] # {}
  BY Zenon
<1>4. CASE \E n \in 1 .. L : active[n] = g /\ active' = Without(active, n)
  <2>1. PICK p \in 1 .. L : active[p] = g /\ active' = Without(active, p)
    BY Zenon, <1>4
  <2> DEFINE K == L - 1
             old(k) == IF k < p THEN k ELSE k + 1
  <2>2. /\ active' \in Seq(Metas) /\ Len(active') = K /\ K \in Nat
        /\ \A k \in 1 .. K : active'[k] = active[old(k)]
    <3>1. /\ active' \in Seq(Metas) /\ Len(active') = L - 1
          /\ \A k \in 1 .. L - 1 : active'[k] = IF k < p THEN active[k] ELSE active[k + 1]
      <4>1. p \in 1 .. Len(active) /\ active \in Seq(Metas)
        BY Zenon, <1>1
      <4>2. /\ Without(active, p) \in Seq(Metas) /\ Len(Without(active, p)) = L - 1
            /\ \A k \in 1 .. L - 1 : Without(active, p)[k] =
                    IF k < p THEN active[k] ELSE active[k + 1]
        BY Zenon, <4>1, WithoutSeq
      <4> QED BY SMT, <2>1, <4>2
    <3> QED BY <1>1, <3>1
  <2>3. /\ \A k \in 1 .. K : old(k) \in 1 .. L /\ old(k) # p
        /\ \A k \in 2 .. K : old(k) \in 2 .. L /\ k \in 1 .. K
        /\ \A m, n \in 1 .. K : old(m) = old(n) => m = n
        /\ \A n \in 1 .. L : n # p => \E k \in 1 .. K : old(k) = n
    <3>1. ASSUME NEW n \in 1 .. L, n # p PROVE \E k \in 1 .. K : old(k) = n
      <4>1. CASE n < p
        BY <4>1
      <4>2. CASE n > p
        <5>1. n - 1 \in 1 .. K /\ old(n - 1) = n
          BY <4>2
        <5> QED BY Zenon, <5>1
      <4> QED BY <3>1
    <3> QED BY <3>1
  <2> HIDE DEF K, old
  <2>4. \A k \in 1 .. K : active'[k] \in used /\ active'[k] \in Metas /\ active'[k] # g
    <3> SUFFICES ASSUME NEW k \in 1 .. K
                 PROVE  active'[k] \in used /\ active'[k] \in Metas /\ active'[k] # g
      BY Zenon
    <3>1. old(k) \in 1 .. L /\ old(k) # p /\ active'[k] = active[old(k)]
      BY Zenon, <2>2, <2>3
    <3>2. active[old(k)] \in used /\ active[old(k)] \in Metas /\ active[old(k)] # active[p]
      BY Zenon, <1>2, <3>1
    <3> QED BY Zenon, <2>1, <3>1, <3>2
  <2>5. ASSUME NEW m \in 1 .. K, NEW n \in 1 .. K, active'[m] = active'[n]
        PROVE  m = n
    <3>1. active[old(m)] = active[old(n)] /\ old(m) \in 1 .. L /\ old(n) \in 1 .. L
      BY Zenon, <2>2, <2>3, <2>5
    <3>2. old(m) = old(n)
      BY Zenon, <1>2, <3>1
    <3> QED BY Zenon, <2>3, <3>2
  <2>6. ASSUME NEW h \in used', ~(\E k \in 1 .. K : active'[k] = h)
        PROVE  avail_mask'[h] = {} /\ freed_mask'[h] = {}
    <3>1. h \in used /\ h # g
      BY Zenon
    <3>2. ~(\E n \in 1 .. L : active[n] = h)
      BY <2>1, <2>2, <2>3, <2>6
    <3> QED BY Zenon, <1>1, <1>2, <3>1, <3>2
  <2>7. ASSUME NEW k \in 1 .. K, old(k) \in 2 .. L
        PROVE  avail_mask'[active'[k]] = {} /\ freed_mask'[active'[k]] # {}
    <3>1. avail_mask[active'[k]] = {} /\ freed_mask[active'[k]] # {}
      BY Zenon, <1>3, <2>2, <2>7
    <3> QED BY Zenon, <1>1, <2>4, <3>1
  <2>8. List'
    <3>1. \A k \in 1 .. K : active'[k] \in used'
      BY Zenon, <2>4
    <3>2. \A k \in 2 .. K :
            /\ avail_mask'[active'[k]] = {}
            /\ \/ freed_mask'[active'[k]] # {}
               \/ \E u \in Threads : pc'[u] = "or" /\ slot'[u][1] = active'[k]
      BY Zenon, <2>3, <2>7
    <3>3. \A h \in used' : ~(\E k \in 1 .. K : active'[k] = h) =>
            avail_mask'[h] = {} /\ freed_mask'[h] = {}
      BY Zenon, <2>6
    <3>4. \A m, n \in 1 .. K : active'[m] = active'[n] => m = n
      BY Zenon, <2>5
    <3> QED BY Zenon, <2>2, <3>1, <3>2, <3>3, <3>4, ListFrom
  <2>9. ASSUME active[1] = g, L > 1
        PROVE  /\ active' # <<>> /\ avail_mask'[active'[1]] = {}
               /\ freed_mask'[active'[1]] # {}
    <3>1. p = 1
      BY <1>2, <2>1, <2>9
    <3>2. 1 \in 1 .. K /\ old(1) \in 2 .. L
      BY <2>9, <3>1 DEF K, old
    <3> QED BY <2>2, <2>7, <3>2
  <2> QED BY Zenon, <2>2, <2>8, <2>9
<1>5. CASE (\A n \in 1 .. L : active[n] # g) /\ UNCHANGED active
  <2> HIDE DEF L
  <2>1. \A n \in 1 .. L : active'[n] \in used'
    BY Zenon, <1>2, <1>5
  <2>2. \A h \in used' : ~(\E n \in 1 .. L : active'[n] = h) =>
            avail_mask'[h] = {} /\ freed_mask'[h] = {}
    BY Zenon, <1>1, <1>2, <1>5
  <2>3. ASSUME NEW n \in 2 .. L
        PROVE  avail_mask'[active'[n]] = {} /\ freed_mask'[active'[n]] # {}
    <3>1. n \in 1 .. L
      BY <1>1
    <3> QED BY Zenon, <1>1, <1>2, <1>3, <1>5, <3>1
  <2>4. Len(active') = L
    BY Zenon, <1>5 DEF L
  <2>5. List'
    <3>1. \A n \in 2 .. L :
            /\ avail_mask'[active'[n]] = {}
            /\ \/ freed_mask'[active'[n]] # {}
               \/ \E u \in Threads : pc'[u] = "or" /\ slot'[u][1] = active'[n]
      BY Zenon, <2>3
    <3>2. \A m, n \in 1 .. L : active'[m] = active'[n] => m = n
      BY Zenon, <1>2, <1>5
    <3> QED BY Zenon, <1>1, <2>1, <2>2, <2>4, <3>1, <3>2, ListFrom
  <2>6. ~(active # <<>> /\ active[1] = g)
    BY <1>5 DEF L
  <2> QED BY Zenon, <1>1, <1>5, <2>5, <2>6
<1> QED BY Zenon, <1>1, <1>4, <1>5 DEF dequeue, Without

\* The group goes with all its slots; the others stay as they are.
LEMMA FreeGroupInv ==
  ASSUME IInv, NEW t \in Threads, FreeGroup(t)
  PROVE  IInv'
<1> DEFINE g == slot[t][1]
           Next1 == active # <<>> /\ active[1] = g /\ Len(active) > 1
<1>1. /\ pc[t] = "nontrivial" /\ Whole(t) /\ dequeue(g) /\ used' = used \ {g}
      /\ avail_mask' = [avail_mask EXCEPT ![g] = {}]
      /\ freed_mask' = [freed_mask EXCEPT ![g] = {}]
      /\ last_idx' = [last_idx EXCEPT ![g] = 0]
      /\ active_idx' = [active_idx EXCEPT ![g] = 0]
      /\ UNCHANGED <<live, crashed>>
  BY Zenon DEF FreeGroup
<1>2. \/ Goto(t, "reactivate") /\ UNCHANGED <<lock, slot, mask>> /\ Next1
      \/ Return(t)
  <2>1. active # <<>> => Head(active) = active[1]
    BY Zenon, TailSeq DEF IInv, Types
  <2> QED BY Zenon, <2>1 DEF FreeGroup
<1>3. g \in used /\ g \in Metas
  BY Zenon, <1>1 DEF IInv, Types, Within
<1>4. /\ avail_mask' \in [Metas -> SUBSET Nat] /\ freed_mask' \in [Metas -> SUBSET Nat]
      /\ last_idx' \in [Metas -> Nat] /\ active_idx' \in [Metas -> Nat]
      /\ avail_mask'[g] = {} /\ freed_mask'[g] = {}
      /\ \A h \in Metas : h # g =>
            /\ last_idx'[h] = last_idx[h] /\ active_idx'[h] = active_idx[h]
            /\ avail_mask'[h] = avail_mask[h] /\ freed_mask'[h] = freed_mask[h]
  BY Zenon, <1>1, <1>3 DEF IInv, Types
<1>5. /\ pc' \in [Threads -> Locked \union Unlocked]
      /\ pc'[t] = "idle" \/ (pc'[t] = "reactivate" /\ Next1)
      /\ slot' \in [Threads -> Slots \union {None}]
      /\ mask' \in [Threads -> SUBSET Nat]
      /\ \A u \in Threads : u # t =>
            pc'[u] = pc[u] /\ slot'[u] = slot[u] /\ mask'[u] = mask[u]
      /\ lock' \in SUBSET Threads /\ LockHeld'
  <2>1. CASE Goto(t, "reactivate") /\ UNCHANGED <<lock, slot, mask>> /\ Next1
    <3>1. /\ pc' \in [Threads -> Locked \union Unlocked] /\ pc'[t] = "reactivate"
          /\ \A u \in Threads : u # t => pc'[u] = pc[u]
          /\ lock' \in SUBSET Threads /\ LockHeld'
      BY Zenon, <1>1, <2>1, GoesOn
    <3> QED BY Zenon, <2>1, <3>1 DEF IInv, Types
  <2>2. CASE Return(t)
    BY Zenon, <2>2, Returns
  <2> QED BY Zenon, <1>2, <2>1, <2>2
<1>6. \A u \in Threads : u # t => pc[u] \notin Locked
  BY Zenon, <1>1, Others
<1>7. \A u \in Threads : /\ pc'[u] \notin Takes /\ pc[u] \notin Takes
                         /\ pc'[u] \in Frees <=> pc[u] \in Frees /\ u # t
                         /\ pc'[u] \in Frees => slot'[u] = slot[u]
  BY Zenon, <1>1, <1>5, <1>6
<1>8. /\ \A s \in live : s[1] # g
      /\ \A u \in Threads : pc'[u] \in Frees => slot[u][1] # g
  BY Zenon, <1>1, <1>7, WholeGroup
<1>9. /\ active' \in Seq(Metas) /\ List'
      /\ Next1 => /\ active' # <<>> /\ avail_mask'[active'[1]] = {}
                  /\ freed_mask'[active'[1]] # {}
  <2>1. \A n \in 2 .. Len(active) :
            avail_mask[active[n]] = {} /\ freed_mask[active[n]] # {}
    BY Zenon, <1>1, BehindHead
  <2> HIDE DEF g
  <2> QED BY Zenon, <1>1, <1>3, <1>4, <2>1, DequeueList
<1> HIDE DEF g, Next1
<1>10. Types'
  BY Zenon, <1>1, <1>4, <1>5, <1>9 DEF IInv, Types
<1>11. Within'
  <2> HIDE DEF Frees, Takes
  <2>1. ASSUME NEW h \in Metas
        PROVE  /\ avail_mask'[h] \union freed_mask'[h] \subseteq 0 .. last_idx'[h]
               /\ h \notin used' => avail_mask'[h] = {} /\ freed_mask'[h] = {}
    <3>1. CASE h = g
      <4>1. avail_mask'[h] = {} /\ freed_mask'[h] = {}
        BY Zenon, <1>4, <3>1
      <4> QED BY Zenon, <4>1
    <3>2. CASE h # g
      <4>1. /\ avail_mask[h] \union freed_mask[h] \subseteq 0 .. last_idx[h]
            /\ h \notin used => avail_mask[h] = {} /\ freed_mask[h] = {}
        BY Zenon DEF IInv, Within
      <4>2. /\ last_idx'[h] = last_idx[h] /\ avail_mask'[h] = avail_mask[h]
            /\ freed_mask'[h] = freed_mask[h] /\ (h \notin used' => h \notin used)
        BY Zenon, <1>1, <1>4, <3>2
      <4> QED BY Zenon, <4>1, <4>2
    <3> QED BY Zenon, <3>1, <3>2
  <2>2. ASSUME NEW s \in live PROVE s[1] \in used' /\ s[2] \in 0 .. last_idx'[s[1]]
    <3>1. s[1] \in used /\ s[1] \in Metas /\ s[1] # g /\ s[2] \in All(s[1])
      BY Zenon, <1>8 DEF IInv, Types, Within
    <3> QED BY Zenon, <1>1, <1>4, <3>1
  <2>3. ASSUME NEW u \in Threads, pc'[u] \in Frees
        PROVE  /\ slot'[u] \in Slots /\ slot'[u][1] \in used'
               /\ slot'[u][2] \in 0 .. last_idx'[slot'[u][1]]
    <3>1. /\ slot'[u] = slot[u] /\ slot[u] \in Slots /\ slot[u][1] \in used
          /\ slot[u][1] \in Metas /\ slot[u][1] # g /\ slot[u][2] \in All(slot[u][1])
      BY Zenon, <1>7, <1>8, <2>3 DEF IInv, Types, Within
    <3> QED BY Zenon, <1>1, <1>4, <3>1
  <2> QED BY Zenon, <1>1, <1>7, <2>1, <2>2, <2>3 DEF Within
<1>12. Apart'
  <2> HIDE DEF Frees, Takes
  <2>1. \A h \in Metas : avail_mask'[h] \intersect freed_mask'[h] = {}
    BY Zenon, <1>4 DEF IInv, Apart
  <2>2. ASSUME NEW s \in live
        PROVE  s[2] \notin avail_mask'[s[1]] \union freed_mask'[s[1]]
    <3>1. /\ s[1] \in Metas /\ s[1] # g
          /\ s[2] \notin avail_mask[s[1]] \union freed_mask[s[1]]
      BY Zenon, <1>8 DEF IInv, Types, Apart
    <3> QED BY Zenon, <1>4, <3>1
  <2>3. ASSUME NEW u \in Threads, pc'[u] \in Frees
        PROVE  /\ slot'[u] \notin live
               /\ slot'[u][2] \notin avail_mask'[slot'[u][1]]
                                        \union freed_mask'[slot'[u][1]]
    <3>1. /\ slot'[u] = slot[u] /\ slot[u] \in Slots /\ slot[u] \notin live
          /\ slot[u][1] \in Metas /\ slot[u][1] # g
          /\ slot[u][2] \notin avail_mask[slot[u][1]] \union freed_mask[slot[u][1]]
      BY Zenon, <1>7, <1>8, <2>3 DEF IInv, Within, Apart
    <3>2. /\ avail_mask'[slot[u][1]] = avail_mask[slot[u][1]]
          /\ freed_mask'[slot[u][1]] = freed_mask[slot[u][1]]
      BY Zenon, <1>4, <3>1
    <3> QED BY Zenon, <3>1, <3>2
  <2>4. ASSUME NEW u \in Threads, NEW v \in Threads, pc'[u] \in Frees,
               pc'[v] \in Frees, slot'[v] = slot'[u]
        PROVE  v = u
    BY Zenon, <1>7, <2>4 DEF IInv, Apart
  <2> QED BY Zenon, <1>1, <1>7, <2>1, <2>2, <2>3, <2>4 DEF Apart
<1>13. Somewhere'
  <2> SUFFICES ASSUME NEW h \in used', NEW i \in 0 .. last_idx'[h] PROVE Place(h, i)'
    BY Zenon DEF Somewhere
  <2>1. h \in used /\ h # g /\ h \in Metas
    BY Zenon, <1>1 DEF IInv, Types
  <2>2. /\ avail_mask'[h] = avail_mask[h] /\ freed_mask'[h] = freed_mask[h]
        /\ i \in All(h)
    BY Zenon, <1>4, <2>1
  <2>3. Place(h, i)
    BY Zenon, <2>1, <2>2 DEF IInv, Somewhere
  <2>4. slot[t] # <<h, i>>
    BY <2>1 DEF g
  <2> HIDE DEF Frees, Takes
  <2> QED BY Zenon, <1>1, <1>7, <2>2, <2>3, <2>4 DEF Place
<1>14. Inactive'
  <2>1. ASSUME NEW h \in used'
        PROVE  /\ h \in used /\ last_idx'[h] = last_idx[h]
               /\ active_idx'[h] = active_idx[h] /\ freed_mask'[h] = freed_mask[h]
    <3>1. h \in used /\ h # g /\ h \in Metas
      BY Zenon, <1>1 DEF IInv, Types
    <3> QED BY Zenon, <1>4, <3>1
  <2> QED BY Zenon, <2>1 DEF IInv, Inactive
<1>15. LooksAt(t)' /\ HasRead(t)'
  BY Zenon, <1>5, <1>9 DEF LooksAt, HasRead
<1>16. Looking' /\ Freeing'
  BY Zenon, <1>5, <1>6, <1>15, Bystander DEF Looking, Freeing
<1> QED BY Zenon, <1>5, <1>9, <1>10, <1>11, <1>12, <1>13, <1>14, <1>16 DEF IInv

\* Every step keeps the invariant.
LEMMA NextInv ==
  ASSUME IInv, [Next]_vars
  PROVE  IInv'
<1> USE DEF Layout
<1>1. CASE UNCHANGED vars
  <2>1. Types' /\ LockHeld'
    BY Zenon, <1>1 DEF vars, IInv, Types, LockHeld
  <2>2. Within' /\ Apart' /\ Somewhere'
    BY Zenon, <1>1, QuietSlots DEF vars
  <2>3. List' /\ Inactive'
    BY Zenon, <1>1, QuietList DEF vars
  <2>4. Looking' /\ Freeing'
    BY Zenon, <1>1, Unmoved DEF vars, Looking, Freeing
  <2> QED BY Zenon, <2>1, <2>2, <2>3, <2>4 DEF IInv
<1>2. ASSUME NEW t \in Threads,
             \/ malloc(t) \/ mallocSlow(t) \/ TryHead(t) \/ TryMask(t)
             \/ TryMask2(t) \/ TryInactive(t) \/ Activate(t) \/ ActivateStore(t)
             \/ TakeFirst(t) \/ alloc_group(t) \/ mallocFails(t)
      PROVE  IInv'
  BY Zenon, <1>2, mallocInv, mallocSlowInv, TryHeadInv, TryMaskInv, TryMask2Inv,
     TryInactiveInv, ActivateInv, ActivateStoreInv, TakeFirstInv, alloc_groupInv,
     mallocFailsInv
<1>3. ASSUME NEW t \in Threads, NEW s \in live, free(t, s)
      PROVE  IInv'
  BY Zenon, <1>3, freeInv
<1>4. ASSUME NEW t \in Threads,
             \/ ReadFreed(t) \/ ReadAvail(t) \/ Cas(t) \/ Nontrivial(t)
             \/ FreeGroup(t) \/ Reactivate(t) \/ ReactivateStore(t)
             \/ KeepGroup(t) \/ Or(t)
      PROVE  IInv'
  BY Zenon, <1>4, ReadFreedInv, ReadAvailInv, CasInv, NontrivialInv, FreeGroupInv,
     ActivateInv, ReactivateStoreInv, KeepGroupInv, OrInv
<1> QED BY Zenon, <1>1, <1>2, <1>3, <1>4 DEF Next

-----------------------------------------------------------------------------
(* The theorems. *)

\* The allocator never leaves the inductive invariant.
THEOREM Invariance == Spec => []IInv
<1>1. Init => IInv
  BY Zenon, InitInv
<1>2. IInv /\ [Next]_vars => IInv'
  BY Zenon, NextInv
<1> QED BY <1>1, <1>2, PTL DEF Spec

\* Who holds a slot.
LEMMA HoldersAre ==
  ASSUME NEW g, NEW i, NEW x
  PROVE  x \in Holders(g, i) <=>
            \/ x = <<"live", <<g, i>>>> /\ <<g, i>> \in live
            \/ x = <<"avail", g>> /\ i \in avail_mask[g]
            \/ x = <<"freed", g>> /\ i \in freed_mask[g]
            \/ \E t \in Threads : /\ x = <<"free", t>>
                                  /\ pc[t] \in Frees /\ slot[t] = <<g, i>>
            \/ \E t \in Threads : /\ x = <<"activating", t>>
                                  /\ pc[t] \in Takes /\ Head(active) = g
                                  /\ i \in mask[t]
  BY Zenon DEF Holders, Busy

\* The inductive invariant implies that every slot is in one place.
LEMMA SlotsKeptInv == IInv => SlotsKept
<1> SUFFICES ASSUME IInv PROVE SlotsKept
  BY Zenon
<1>1. ASSUME NEW g \in used, NEW i \in All(g)
      PROVE  \E h \in Holders(g, i) : Holders(g, i) = {h}
  <2> DEFINE FreedBy(t) == t \in Threads /\ pc[t] \in Frees /\ slot[t] = <<g, i>>
             TakenBy(t) == /\ t \in Threads /\ pc[t] \in Takes
                           /\ Head(active) = g /\ i \in mask[t]
  <2>1. \A t \in Threads : pc[t] \in Takes => Head(active) = active[1]
    BY Zenon, TailSeq DEF IInv, Types, Within
  <2>2. \/ <<g, i>> \in live
        \/ i \in avail_mask[g]
        \/ i \in freed_mask[g]
        \/ \E t \in Threads : FreedBy(t)
        \/ \E t \in Threads : TakenBy(t)
    <3>1. Place(g, i)
      BY Zenon DEF IInv, Somewhere
    <3> QED BY Zenon, <2>1, <3>1 DEF Place
  <2>3. g \in Metas /\ ~(i \in avail_mask[g] /\ i \in freed_mask[g])
    BY Zenon DEF IInv, Types, Apart
  <2>4. <<g, i>> \in live => i \notin avail_mask[g] /\ i \notin freed_mask[g]
    BY Zenon DEF IInv, Apart
  <2>5. ASSUME NEW t \in Threads, FreedBy(t)
        PROVE  /\ <<g, i>> \notin live
               /\ i \notin avail_mask[g] /\ i \notin freed_mask[g]
               /\ \A u \in Threads : FreedBy(u) => u = t
    <3>1. pc[t] \in Frees /\ slot[t] = <<g, i>> /\ slot[t][1] = g /\ slot[t][2] = i
      <4>1. pc[t] \in Frees /\ slot[t] = <<g, i>>
        BY Zenon, <2>5
      <4> QED BY <4>1
    <3> HIDE DEF Frees
    <3>2. /\ slot[t] \notin live
          /\ slot[t][2] \notin avail_mask[slot[t][1]] \union freed_mask[slot[t][1]]
          /\ \A v \in Threads : pc[v] \in Frees /\ slot[v] = slot[t] => v = t
      BY Zenon, <3>1, FreeingSlot
    <3> QED BY Zenon, <3>1, <3>2
  <2>6. ASSUME NEW t \in Threads, TakenBy(t)
        PROVE  /\ <<g, i>> \notin live
               /\ i \notin avail_mask[g] /\ i \notin freed_mask[g]
               /\ \A u \in Threads : ~FreedBy(u)
               /\ \A u \in Threads : TakenBy(u) => u = t
    <3>1. \A u \in Threads : TakenBy(u) => u = t
      BY Zenon, <2>6, Others
    <3>2. active[1] = g
      BY Zenon, <2>1, <2>6
    <3> QED BY Zenon, <2>6, <3>1, <3>2 DEF IInv, Apart
  <2>7. \A x : x \in Holders(g, i) <=>
            \/ x = <<"live", <<g, i>>>> /\ <<g, i>> \in live
            \/ x = <<"avail", g>> /\ i \in avail_mask[g]
            \/ x = <<"freed", g>> /\ i \in freed_mask[g]
            \/ \E t \in Threads : x = <<"free", t>> /\ FreedBy(t)
            \/ \E t \in Threads : x = <<"activating", t>> /\ TakenBy(t)
    BY HoldersAre
  <2> HIDE DEF FreedBy, TakenBy
  <2>8. CASE <<g, i>> \in live
    <3> DEFINE e == <<"live", <<g, i>>>>
    <3>1. \A x : x \in Holders(g, i) <=> x = e
      BY Zenon, <2>4, <2>5, <2>6, <2>7, <2>8
    <3> HIDE DEF e
    <3> QED BY <3>1
  <2>9. CASE i \in avail_mask[g]
    <3> DEFINE e == <<"avail", g>>
    <3>1. \A x : x \in Holders(g, i) <=> x = e
      BY Zenon, <2>3, <2>4, <2>5, <2>6, <2>7, <2>9
    <3> HIDE DEF e
    <3> QED BY <3>1
  <2>10. CASE i \in freed_mask[g]
    <3> DEFINE e == <<"freed", g>>
    <3>1. \A x : x \in Holders(g, i) <=> x = e
      BY Zenon, <2>3, <2>4, <2>5, <2>6, <2>7, <2>10
    <3> HIDE DEF e
    <3> QED BY <3>1
  <2>11. ASSUME NEW t \in Threads, FreedBy(t)
         PROVE  \E h \in Holders(g, i) : Holders(g, i) = {h}
    <3>1. \A u \in Threads : ~TakenBy(u)
      BY Zenon, <2>6, <2>11
    <3> DEFINE e == <<"free", t>>
    <3>2. \A x : x \in Holders(g, i) <=> x = e
      BY Zenon, <2>5, <2>7, <2>11, <3>1
    <3> HIDE DEF e
    <3> QED BY <3>2
  <2>12. ASSUME NEW t \in Threads, TakenBy(t)
         PROVE  \E h \in Holders(g, i) : Holders(g, i) = {h}
    <3> DEFINE e == <<"activating", t>>
    <3>1. \A x : x \in Holders(g, i) <=> x = e
      BY Zenon, <2>6, <2>7, <2>12
    <3> HIDE DEF e
    <3> QED BY <3>1
  <2> QED BY Zenon, <2>2, <2>8, <2>9, <2>10, <2>11, <2>12
<1>2. \A t \in Busy : Group(t) \in used
  BY Zenon DEF IInv, Within, Busy
<1> QED BY Zenon, <1>1, <1>2 DEF SlotsKept

\* No slot is handed out twice and none is lost, whatever the interleaving of
\* malloc and of frees that change freed_mask without the lock.
THEOREM SlotsKeptHolds == Spec => []SlotsKept
  BY Invariance, SlotsKeptInv, PTL

\* No assertion of malloc, free, get_meta and activate_group fails, and no
\* group is queued twice.
THEOREM AssertionsHold == Spec => []Assertions
<1>1. IInv => Assertions
  <2> SUFFICES ASSUME IInv PROVE Assertions
    BY Zenon
  <2>1. crashed = FALSE /\ DOMAIN active = 1 .. Len(active)
    BY DEF IInv, Types
  <2>2. \A m, n \in DOMAIN active : active[m] = active[n] => m = n
    BY Zenon, <2>1 DEF IInv, List
  <2> QED BY Zenon, <2>1, <2>2 DEF Assertions
<1> QED BY <1>1, Invariance, PTL

\* While the lock is free, malloc finds every group that has a free slot, and
\* all behind the head are as activate_group expects.
THEOREM FreeSlotsFoundHolds == Spec => []FreeSlotsFound
<1>1. IInv => FreeSlotsFound
  <2> SUFFICES ASSUME IInv, lock = {} PROVE FreeSlotsFound
    BY Zenon DEF FreeSlotsFound
  <2>1. \A t \in Threads : pc[t] # "or"
    BY Zenon DEF IInv, LockHeld
  <2>2. DOMAIN active = 1 .. Len(active) /\ Len(active) \in Nat
    BY DEF IInv, Types
  <2>3. \A n \in DOMAIN active \ {1} : n \in 2 .. Len(active)
    BY <2>2
  <2>4. \A n \in 2 .. Len(active) :
            avail_mask[active[n]] = {} /\ freed_mask[active[n]] # {}
    BY Zenon, <2>1 DEF IInv, List
  <2>5. \A g \in used : avail_mask[g] \union freed_mask[g] # {} =>
            \E n \in DOMAIN active : active[n] = g
    BY DEF IInv, List, OnList
  <2> QED BY Zenon, <2>3, <2>4, <2>5 DEF FreeSlotsFound
<1> QED BY <1>1, Invariance, PTL

\* "any multi-slot group is necessarily on an active list here" (free.c): a
\* group of several slots whose last one nontrivial_free frees.
MultiSlotListed == \A t \in Threads :
    pc[t] = "nontrivial" /\ Whole(t) /\ last_idx[Group(t)] > 0 => OnList(Group(t))

\* What the comment in nontrivial_free says holds, so that the group it gives
\* back is taken off the list.
THEOREM MultiSlotListedHolds == Spec => []MultiSlotListed
<1>1. IInv => MultiSlotListed
  <2> SUFFICES ASSUME IInv, NEW t \in Threads, pc[t] = "nontrivial", Whole(t),
                      last_idx[slot[t][1]] > 0
               PROVE  OnList(slot[t][1])
    BY Zenon DEF MultiSlotListed
  <2> DEFINE g == slot[t][1]
  <2>1. g \in used /\ last_idx[g] \in Nat
    BY Zenon DEF IInv, Types, Within
  <2>2. mask[t] \subseteq freed_mask[g] \union avail_mask[g]
    BY Zenon DEF IInv, Freeing, HasRead
  <2>3. mask[t] # {}
    <3>1. 0 \in mask[t] \union {slot[t][2]} /\ 1 \in mask[t] \union {slot[t][2]}
      BY <2>1 DEF Whole
    <3> QED BY <3>1
  <2>4. avail_mask[g] # {} \/ freed_mask[g] # {}
    BY Zenon, <2>2, <2>3
  <2> QED BY Zenon, <2>1, <2>4 DEF IInv, List
<1> QED BY <1>1, Invariance, PTL

=============================================================================
