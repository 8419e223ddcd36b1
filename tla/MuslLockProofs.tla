--------------------------- MODULE MuslLockProofs ---------------------------
(* The C library's internal lock, for any number of threads, of rounds of   *)
(* its spin loop and for any width of the int. *)
EXTENDS MuslLock, FiniteSetTheorems, TLAPS

N == Cardinality(Threads)

(* The values of the lock with at least n threads counted beside a holder,  *)
(* if there is one. *)
Values(n) == n .. N \cup INT_MIN + n + 1 .. INT_MIN + N

(* A thread that runs is alive; a thread that found the process to be       *)
(* single-threaded is alone until it is done with the lock; and the values  *)
(* a thread has read are ones the lock can have. *)
Alone ==
    /\ need_locks <= 0 => \E u \in Threads : alive = {u}
    /\ \A t \in Threads : pc[t] # "idle" => t \in alive
    /\ \A t \in Threads : pc[t] # "idle" /\ need[t] <= 0 => alive = {t}
    /\ \A t \in Threads : pc[t] \notin {"idle", "critical", "wake"} => need[t] # 0

Read ==
    \A t \in Threads :
        /\ pc[t] \in {"single", "spin"} => current[t] \in Values(0)
        /\ pc[t] = "loop" => current[t] \in Values(1)
        /\ pc[t] = "asleep" => current[t] \in Values(1) /\ current[t] < 0
        /\ pc[t] = "try" => current[t] \in 1 .. N

Inv == TypeOK /\ Alone /\ Read /\ MutualExclusion /\ LockCounts

-----------------------------------------------------------------------------

\* The number of threads, and of any set of them.
LEMMA Counts ==
  /\ N \in Nat /\ N >= 1 /\ Limit \in Nat /\ N + 1 < Limit
  /\ \A S \in SUBSET Threads : IsFiniteSet(S) /\ Cardinality(S) \in 0 .. N
<1>1. N \in Nat /\ \A S \in SUBSET Threads : IsFiniteSet(S) /\ Cardinality(S) \in Nat /\ Cardinality(S) <= N
  BY LockAssumption, FS_CardinalityType, FS_Subset DEF N
<1>2. {First} \in SUBSET Threads /\ Cardinality({First}) = 1
  BY Zenon, LockAssumption, FS_Singleton
<1> QED
  BY <1>1, <1>2, LockAssumption DEF N

\* A set of threads with one more, or one less.
LEMMA OneMore ==
  ASSUME NEW S \in SUBSET Threads, NEW t \in Threads
  PROVE  /\ t \notin S => Cardinality(S \cup {t}) = Cardinality(S) + 1
         /\ t \in S => Cardinality(S \ {t}) = Cardinality(S) - 1
         /\ t \in S => Cardinality(S) >= 1
         /\ \A u \in S : t \in S /\ u # t => Cardinality(S) >= 2
<1>1. IsFiniteSet(S) /\ Cardinality(S) \in Nat
  BY Counts
<1>2. t \notin S => Cardinality(S \cup {t}) = Cardinality(S) + 1
  BY Zenon, <1>1, FS_AddElement
<1>3. t \in S => Cardinality(S \ {t}) = Cardinality(S) - 1
  BY Zenon, <1>1, FS_RemoveElement
<1>4. Cardinality(S \ {t}) \in Nat
  BY Counts
<1>5. ASSUME NEW u \in S, t \in S, u # t
      PROVE  Cardinality(S) >= 2
  <2>1. u \in S \ {t} /\ IsFiniteSet(S \ {t})
    BY <1>5, Counts
  <2>2. Cardinality((S \ {t}) \ {u}) = Cardinality(S \ {t}) - 1
    BY <2>1, FS_RemoveElement
  <2>3. Cardinality((S \ {t}) \ {u}) \in Nat
    BY Counts
  <2> QED
    BY <1>1, <1>3, <1>4, <1>5, <2>2, <2>3
<1> QED
  BY <1>1, <1>2, <1>3, <1>4, <1>5

\* What the lock's value tells: it is negative exactly if it is held, and the
\* holder is then one of those counted.
LEMMA ValueTells ==
  ASSUME Inv
  PROVE  /\ l \in Values(0) /\ l \in Int
         /\ l < 0 <=> Held
         /\ l = 0 => Counted = {}
         /\ \A t \in Counted : l \in Values(1) \/ InCritical(t)
         /\ \A t \in Threads \ Counted : l + 1 \in Values(1)
<1> DEFINE k == Cardinality(Counted)
<1>1. Counted \in SUBSET Threads
  BY DEF Counted
<1>2. k \in 0 .. N
  BY <1>1, Counts
<1>3. l = k + (IF Held THEN INT_MIN ELSE 0)
  BY DEF Inv, LockCounts
<1>4. ASSUME Held PROVE \E u \in Counted : InCritical(u)
  BY <1>4 DEF Held, InCritical, Counted
<1>5. Held => k >= 1
  BY Zenon, <1>1, <1>4, OneMore
<1>6. k = 0 => Counted = {}
  BY <1>1, Counts, FS_EmptySet
<1>7. ASSUME NEW t \in Counted, ~InCritical(t)
      PROVE  k >= 1 /\ (Held => k >= 2)
  BY Zenon, <1>1, <1>4, <1>7, OneMore
<1>8. ASSUME NEW t \in Threads \ Counted
      PROVE  k + 1 <= N
  <2>1. Counted \cup {t} \in SUBSET Threads /\ Cardinality(Counted \cup {t}) = k + 1
    BY <1>1, OneMore
  <2> QED
    BY <2>1, Counts
<1> HIDE DEF k
<1>9. l \in Values(0) /\ l \in Int /\ (l < 0 <=> Held) /\ (l = 0 => k = 0)
  BY <1>2, <1>3, <1>5, Counts DEF Values, INT_MIN
<1>10. ASSUME NEW t \in Counted, ~InCritical(t)
       PROVE  l \in Values(1)
  BY <1>2, <1>3, <1>7, <1>10, Counts DEF Values, INT_MIN
<1>11. ASSUME NEW t \in Threads \ Counted
       PROVE  l + 1 \in Values(1)
  BY <1>2, <1>3, <1>5, <1>8, Counts DEF Values, INT_MIN
<1> QED
  BY <1>6, <1>9, <1>10, <1>11

\* The lock's value without its holder.
LEMMA UnheldValues ==
  /\ \A c \in Values(0) : Unheld(c) \in 0 .. N
  /\ \A c \in Values(1) : Unheld(c) \in 1 .. N
BY Counts DEF Values, Unheld, INT_MIN

-----------------------------------------------------------------------------

\* A step that leaves the lock, those who hold it and those who are counted.
LEMMA Kept ==
  ASSUME Inv, l' = l, Counted' = Counted,
         \A u \in Threads : InCritical(u)' => InCritical(u) /\ need'[u] = need[u],
         \A u \in Threads : InCritical(u) /\ need[u] # 0 => InCritical(u)'
  PROVE  MutualExclusion' /\ LockCounts'
<1>1. MutualExclusion'
  BY DEF Inv, MutualExclusion
<1>2. Held' <=> Held
  BY DEF Held
<1>3. INT_MIN' = INT_MIN
  BY DEF INT_MIN
<1> QED
  BY Zenon, <1>1, <1>2, <1>3 DEF Inv, LockCounts

\* A step by which a thread gets the lock when nobody has it.
LEMMA Taken ==
  ASSUME Inv, NEW t \in Threads, ~Held, ~InCritical(t), pc[t] # "idle",
         InCritical(t)', need'[t] # 0,
         \A u \in Threads \ {t} : InCritical(u)' => InCritical(u) /\ need'[u] = need[u],
         l' = INT_MIN + Cardinality(Counted')
  PROVE  MutualExclusion' /\ LockCounts'
<1>1. ASSUME NEW u \in Threads \ {t}, InCritical(u)
      PROVE  FALSE
  <2>1. need[u] = 0 /\ pc[u] # "idle"
    BY <1>1 DEF Held, InCritical
  <2>2. alive = {u} /\ t \in alive
    BY <2>1 DEF Inv, Alone
  <2> QED
    BY <2>2
<1>2. MutualExclusion'
  BY <1>1 DEF MutualExclusion
<1>3. Held'
  BY DEF Held
<1>4. INT_MIN' = INT_MIN /\ INT_MIN \in Int
  BY Counts DEF INT_MIN
<1>5. Cardinality(Counted') \in Int
  <2>1. Counted' \in SUBSET Threads
    BY DEF Counted
  <2> QED
    BY <2>1, Counts
<1>6. LockCounts'
  BY <1>3, <1>4, <1>5 DEF LockCounts
<1> QED
  BY <1>2, <1>6

\* A new thread: its maker is not inside, and locks are needed from now on.
LEMMA CreateKeeps ==
  ASSUME Inv, NEW t \in Threads, NEW n \in Threads, Create(t, n)
  PROVE  Inv'
<1> USE DEF Inv
<1>1. TypeOK'
  BY DEF Create, TypeOK
<1>2. Alone'
  <2>1. ASSUME NEW u \in Threads, pc[u] # "idle", need[u] <= 0
        PROVE  FALSE
    BY <2>1 DEF Create, Alone
  <2>2. need_locks' <= 0 => FALSE
    BY DEF Create, Alone, TypeOK
  <2> QED
    BY <2>1, <2>2 DEF Create, Alone
<1>3. Read'
  BY DEF Create, Read, Values, INT_MIN
<1>4. Counted' = Counted /\ \A u \in Threads : InCritical(u)' <=> InCritical(u)
  BY DEF Create, Counted, InCritical
<1> QED
  BY <1>1, <1>2, <1>3, <1>4, Kept DEF Create

\* A thread that could not be made: locks stop being needed only if its maker
\* is alone.
LEMMA CreateFailsKeeps ==
  ASSUME Inv, NEW t \in Threads, CreateFails(t)
  PROVE  Inv'
<1> USE DEF Inv
<1>1. TypeOK'
  BY DEF CreateFails, TypeOK
<1>2. Alone'
  BY DEF CreateFails, Alone
<1>3. Read'
  BY DEF CreateFails, Read, Values, INT_MIN
<1>4. Counted' = Counted /\ \A u \in Threads : InCritical(u)' <=> InCritical(u)
  BY DEF CreateFails, Counted, InCritical
<1> QED
  BY <1>1, <1>2, <1>3, <1>4, Kept DEF CreateFails

\* The end of a thread that is not the only one.
LEMMA ExitKeeps ==
  ASSUME Inv, NEW t \in Threads, Exit(t)
  PROVE  Inv'
<1> USE DEF Inv
<1>1. TypeOK'
  BY DEF Exit, TypeOK
<1>2. Alone'
  <2>1. ASSUME NEW u \in Threads, pc[u] # "idle", need[u] <= 0
        PROVE  FALSE
    BY <2>1 DEF Exit, Alone
  <2>2. need_locks' <= 0 => \E u \in Threads : alive' = {u}
    BY DEF Exit, Alone, TypeOK
  <2> QED
    BY <2>1, <2>2 DEF Exit, Alone
<1>3. Read'
  BY DEF Exit, Read, Values, INT_MIN
<1>4. Counted' = Counted /\ \A u \in Threads : InCritical(u)' <=> InCritical(u)
  BY DEF Exit, Counted, InCritical
<1> QED
  BY <1>1, <1>2, <1>3, <1>4, Kept DEF Exit

\* While the lock is not needed the caller is alone, and nobody is inside.
LEMMA CallKeeps ==
  ASSUME Inv, NEW t \in Threads, Call(t)
  PROVE  Inv'
<1> USE DEF Inv
<1>1. TypeOK'
  BY DEF Call, Goto, TypeOK, PCs
<1>2. need_locks <= 0 => alive = {t} /\ \A u \in Threads : u # t => pc[u] = "idle"
  BY DEF Call, Alone
<1>3. Alone'
  BY <1>2 DEF Call, Goto, Alone, TypeOK
<1>4. Read'
  BY DEF Call, Goto, Read, Values, INT_MIN, TypeOK
<1>5. Counted' = Counted
  BY DEF Call, Goto, Counted, TypeOK
<1>6. CASE need_locks = 0
  <2>1. MutualExclusion' /\ ~Held /\ ~Held'
    BY <1>2, <1>6 DEF Call, Goto, InCritical, Held, MutualExclusion, TypeOK
  <2>2. LockCounts'
    BY <1>5, <2>1 DEF Call, LockCounts, INT_MIN
  <2> QED
    BY <1>1, <1>3, <1>4, <2>1, <2>2
<1>7. CASE need_locks # 0
  <2>1. \A u \in Threads : /\ InCritical(u)' <=> InCritical(u)
                           /\ InCritical(u)' => need'[u] = need[u]
    BY <1>7 DEF Call, Goto, InCritical, TypeOK
  <2> QED
    BY <1>1, <1>3, <1>4, <1>5, <2>1, Kept DEF Call
<1> QED
  BY <1>6, <1>7

\* The first compare-and-swap takes the lock if nobody is counted in it.
LEMMA FastKeeps ==
  ASSUME Inv, NEW t \in Threads, Fast(t)
  PROVE  Inv'
<1> USE DEF Inv
<1>1. TypeOK'
  BY Counts DEF Fast, Goto, TypeOK, PCs, INT_MIN
<1>2. Alone'
  BY DEF Fast, Goto, Alone, TypeOK
<1>3. Read'
  BY ValueTells DEF Fast, Goto, Read, Values, INT_MIN, TypeOK
<1>4. CASE l = 0
  <2>1. Counted = {} /\ ~Held
    BY <1>4, ValueTells
  <2>2. Counted' = {t}
    BY <1>4, <2>1 DEF Fast, Goto, Counted, TypeOK
  <2>3. Cardinality(Counted') = 1
    BY <2>2, FS_Singleton
  <2>4. /\ ~InCritical(t) /\ InCritical(t)' /\ need'[t] # 0 /\ pc[t] # "idle"
        /\ \A u \in Threads \ {t} : InCritical(u)' => InCritical(u) /\ need'[u] = need[u]
    BY <1>4 DEF Fast, Goto, InCritical, TypeOK, Alone
  <2>5. l' = INT_MIN + Cardinality(Counted')
    BY <1>4, <2>3 DEF Fast
  <2> QED
    BY <1>1, <1>2, <1>3, <2>1, <2>4, <2>5, Taken
<1>5. CASE l # 0
  <2>1. Counted' = Counted /\ \A u \in Threads : InCritical(u)' <=> InCritical(u)
    BY <1>5 DEF Fast, Goto, Counted, InCritical, TypeOK
  <2> QED
    BY <1>1, <1>2, <1>3, <1>5, <2>1, Kept DEF Fast
<1> QED
  BY <1>4, <1>5

\* need_locks is cleared only by a thread that is alone.
LEMMA SingleKeeps ==
  ASSUME Inv, NEW t \in Threads, Single(t)
  PROVE  Inv'
<1> USE DEF Inv
<1>1. TypeOK'
  BY LockAssumption DEF Single, Goto, TypeOK, PCs
<1>2. Alone'
  BY DEF Single, Goto, Alone, TypeOK
<1>3. Read'
  BY DEF Single, Goto, Read, Values, INT_MIN, TypeOK
<1>4. Counted' = Counted /\ \A u \in Threads : InCritical(u)' <=> InCritical(u)
  BY DEF Single, Goto, Counted, InCritical, TypeOK, Alone
<1> QED
  BY <1>1, <1>2, <1>3, <1>4, Kept DEF Single

\* A round of the spin loop: taken, with the thread counted, or read again.
LEMMA SpinKeeps ==
  ASSUME Inv, NEW t \in Threads, Spin(t)
  PROVE  Inv'
<1> USE DEF Inv
<1> DEFINE c == Unheld(current[t])
<1>1. pc[t] = "spin" /\ c \in 0 .. N /\ c \in Int /\ t \notin Counted /\ ~InCritical(t)
  BY UnheldValues, Counts DEF Spin, Read, Counted, InCritical
<1>2. Alone'
  BY DEF Spin, Goto, Alone, TypeOK
<1>3. CASE i[t] # Spins /\ l = c
  <2>1. /\ l' = INT_MIN + (c + 1) /\ current' = [current EXCEPT ![t] = c]
        /\ pc' = [pc EXCEPT ![t] = "critical"] /\ need' = need
    BY <1>3 DEF Spin, Goto
  <2> HIDE DEF c
  <2>4. Counted \in SUBSET Threads
    BY DEF Counted
  <2>2. ~Held /\ l = Cardinality(Counted)
    <3>1. ~Held
      BY <1>1, <1>3, ValueTells
    <3>2. Cardinality(Counted) \in Int
      BY <2>4, Counts
    <3> QED
      BY <3>1, <3>2 DEF LockCounts
  <2>3. Counted' = Counted \cup {t}
    BY <1>1, <2>1 DEF Counted, TypeOK, Alone
  <2>5. Cardinality(Counted') = c + 1
    BY <1>1, <1>3, <2>2, <2>3, <2>4, OneMore
  <2>6. /\ InCritical(t)' /\ need'[t] # 0 /\ pc[t] # "idle"
        /\ \A u \in Threads \ {t} : InCritical(u)' => InCritical(u) /\ need'[u] = need[u]
    BY <1>1, <2>1 DEF InCritical, TypeOK, Alone
  <2>7. MutualExclusion' /\ LockCounts'
    BY <1>1, <2>1, <2>2, <2>5, <2>6, Taken
  <2>8. TypeOK'
    BY <1>1, <1>3, <2>1, LockAssumption, Counts DEF Spin, TypeOK, PCs, INT_MIN
  <2>9. Read'
    BY <2>1 DEF Read, Values, INT_MIN, TypeOK
  <2> QED
    BY <1>2, <2>7, <2>8, <2>9
<1>4. CASE i[t] # Spins /\ l # c
  <2>1. /\ l' = l /\ current' = [current EXCEPT ![t] = l]
        /\ pc' = [pc EXCEPT ![t] = "spin"] /\ need' = need
    BY <1>4 DEF Spin, Goto
  <2>2. TypeOK'
    BY <1>4, <2>1, LockAssumption DEF Spin, TypeOK, PCs
  <2>3. Read'
    BY <2>1, ValueTells DEF Read, Values, INT_MIN, TypeOK
  <2>4. Counted' = Counted /\ \A u \in Threads : InCritical(u)' <=> InCritical(u)
    BY <1>1, <2>1 DEF Counted, InCritical, TypeOK
  <2> QED
    BY <1>2, <2>1, <2>2, <2>3, <2>4, Kept
<1>5. CASE i[t] = Spins
  <2>1. l' = l /\ current' = current /\ pc' = [pc EXCEPT ![t] = "enter"] /\ need' = need
    BY <1>5 DEF Spin, Goto
  <2>2. TypeOK'
    BY <1>5, <2>1 DEF Spin, TypeOK, PCs
  <2>3. Read'
    BY <2>1 DEF Read, Values, INT_MIN, TypeOK
  <2>4. Counted' = Counted /\ \A u \in Threads : InCritical(u)' <=> InCritical(u)
    BY <1>1, <2>1 DEF Counted, InCritical, TypeOK
  <2> QED
    BY <1>2, <2>1, <2>2, <2>3, <2>4, Kept
<1> QED
  BY <1>3, <1>4, <1>5

\* The thread counts itself in, and is not counted twice.
LEMMA EnterKeeps ==
  ASSUME Inv, NEW t \in Threads, Enter(t)
  PROVE  Inv'
<1> USE DEF Inv
<1>1. /\ pc[t] = "enter" /\ l' = l + 1 /\ current' = [current EXCEPT ![t] = l + 1]
      /\ pc' = [pc EXCEPT ![t] = "loop"] /\ need' = need
  BY DEF Enter, Goto
<1>2. TypeOK'
  BY <1>1 DEF Enter, TypeOK, PCs
<1>3. Alone'
  BY DEF Enter, Goto, Alone, TypeOK
<1>4. t \notin Counted /\ Counted \in SUBSET Threads
  BY <1>1 DEF Counted
<1>5. Read'
  BY <1>1, <1>4, ValueTells DEF Read, Values, INT_MIN, TypeOK
<1>6. Counted' = Counted \cup {t}
  BY <1>1 DEF Counted, TypeOK
<1>7. \A u \in Threads : InCritical(u)' <=> InCritical(u)
  BY <1>1 DEF InCritical, TypeOK
<1>8. MutualExclusion' /\ (Held' <=> Held)
  BY <1>1, <1>7 DEF MutualExclusion, Held
<1>9. Cardinality(Counted') = Cardinality(Counted) + 1 /\ Cardinality(Counted) \in Int
  BY <1>4, <1>6, OneMore, Counts
<1>10. LockCounts'
  BY <1>1, <1>8, <1>9, Counts DEF LockCounts, INT_MIN
<1> QED
  BY <1>2, <1>3, <1>5, <1>8, <1>10

\* Waiting, being woken for nothing and not having to wait.
LEMMA WaitKeeps ==
  ASSUME Inv, NEW t \in Threads, Wait(t) \/ WakesUp(t) \/ NoWait(t)
  PROVE  Inv'
<1> USE DEF Inv
<1>1. /\ current[t] \in Values(1) /\ current[t] \in Int /\ pc[t] \in {"loop", "asleep"}
      /\ l' = l /\ need' = need /\ alive' = alive /\ need_locks' = need_locks /\ i' = i
  BY DEF Wait, WakesUp, NoWait, Read, TypeOK
<1>2. \/ /\ pc' = [pc EXCEPT ![t] = "asleep"] /\ current' = current /\ current[t] < 0
      \/ /\ pc' = [pc EXCEPT ![t] = "try"]
         /\ current' = [current EXCEPT ![t] = Unheld(current[t])]
  <2>1. CASE NoWait(t)
    BY <1>1, <2>1 DEF NoWait, Goto, Unheld, TypeOK
  <2>2. CASE Wait(t) \/ WakesUp(t)
    BY <2>2 DEF Wait, WakesUp, Goto
  <2> QED
    BY <2>1, <2>2
<1>3. Unheld(current[t]) \in 1 .. N
  BY <1>1, UnheldValues
<1>4. TypeOK'
  BY <1>1, <1>2, <1>3, Counts DEF TypeOK, PCs
<1>5. Alone'
  BY <1>1, <1>2 DEF Alone, TypeOK
<1>6. Read'
  BY <1>1, <1>2, <1>3 DEF Read, Values, INT_MIN, TypeOK
<1>7. Counted' = Counted /\ \A u \in Threads : InCritical(u)' <=> InCritical(u)
  BY <1>1, <1>2 DEF Counted, InCritical, TypeOK
<1> QED
  BY <1>1, <1>4, <1>5, <1>6, <1>7, Kept

\* The compare-and-swap of the main loop: the thread is already counted.
LEMMA TryKeeps ==
  ASSUME Inv, NEW t \in Threads, Try(t)
  PROVE  Inv'
<1> USE DEF Inv
<1>1. /\ pc[t] = "try" /\ current[t] \in 1 .. N /\ current[t] \in Int
      /\ t \in Counted /\ ~InCritical(t) /\ Counted \in SUBSET Threads
  BY DEF Try, Read, Counted, InCritical, TypeOK
<1>2. TypeOK'
  BY <1>1, Counts DEF Try, Goto, TypeOK, PCs, INT_MIN
<1>3. Alone'
  BY DEF Try, Goto, Alone, TypeOK
<1>4. Read'
  <2>1. l \in Values(1)
    BY <1>1, ValueTells
  <2> QED
    BY <2>1 DEF Try, Goto, Read, Values, INT_MIN, TypeOK
<1>5. Counted' = Counted
  BY <1>1 DEF Try, Goto, Counted, TypeOK, Alone
<1>6. CASE l = current[t]
  <2>1. ~Held
    BY <1>1, <1>6, ValueTells
  <2>2. Cardinality(Counted) \in Int
    BY <1>1, Counts
  <2>3. l = Cardinality(Counted)
    BY <2>1, <2>2 DEF LockCounts
  <2>4. l' = INT_MIN + Cardinality(Counted')
    BY <1>5, <1>6, <2>3 DEF Try
  <2>5. /\ InCritical(t)' /\ need'[t] # 0 /\ pc[t] # "idle"
        /\ \A u \in Threads \ {t} : InCritical(u)' => InCritical(u) /\ need'[u] = need[u]
    BY <1>1, <1>6 DEF Try, Goto, InCritical, TypeOK, Alone
  <2> QED
    BY <1>1, <1>2, <1>3, <1>4, <2>1, <2>4, <2>5, Taken
<1>7. CASE l # current[t]
  <2>1. \A u \in Threads : InCritical(u)' <=> InCritical(u)
    BY <1>1, <1>7 DEF Try, Goto, InCritical, TypeOK
  <2> QED
    BY <1>2, <1>3, <1>4, <1>5, <1>7, <2>1, Kept DEF Try
<1> QED
  BY <1>6, <1>7

\* A thread that skipped the lock is alone, so the lock is free when it leaves.
LEMMA LeaveKeeps ==
  ASSUME Inv, NEW t \in Threads, Leave(t)
  PROVE  Inv'
<1> USE DEF Inv
<1>1. pc[t] = "critical" /\ InCritical(t)
  BY DEF Leave, InCritical
<1>2. CASE need[t] = 0
  <2>1. alive = {t}
    BY <1>1, <1>2 DEF Alone
  <2>2. ~Held
    BY <1>2, <2>1 DEF Held, InCritical, Alone
  <2>3. ~(l < 0)
    BY <2>2, ValueTells
  <2>4. /\ pc' = [pc EXCEPT ![t] = "idle"] /\ l' = l /\ need' = need /\ alive' = alive
        /\ need_locks' = need_locks /\ current' = current /\ i' = i
    BY <2>3 DEF Leave, Goto
  <2>5. TypeOK' /\ Alone'
    BY <2>4 DEF TypeOK, Alone, PCs
  <2>6. Read'
    BY <2>4 DEF Read, Values, INT_MIN, TypeOK
  <2>7. /\ Counted' = Counted
        /\ \A u \in Threads : InCritical(u)' => InCritical(u)
        /\ \A u \in Threads : InCritical(u) /\ need[u] # 0 => InCritical(u)'
    BY <1>1, <1>2, <2>4 DEF Counted, InCritical, TypeOK
  <2> QED
    BY <2>4, <2>5, <2>6, <2>7, Kept
<1>3. CASE need[t] # 0
  <2>1. Held
    BY <1>1, <1>3 DEF Held
  <2>2. l < 0
    BY <2>1, ValueTells
  <2>3. /\ pc' = [pc EXCEPT ![t] = "unlock"] /\ l' = l /\ need' = need /\ alive' = alive
        /\ need_locks' = need_locks /\ current' = current /\ i' = i
    BY <2>2 DEF Leave, Goto
  <2>4. TypeOK' /\ Alone'
    BY <1>1, <1>3, <2>3 DEF TypeOK, Alone, PCs
  <2>5. Read'
    BY <2>3 DEF Read, Values, INT_MIN, TypeOK
  <2>6. Counted' = Counted /\ \A u \in Threads : InCritical(u)' <=> InCritical(u)
    BY <1>1, <1>3, <2>3 DEF Counted, InCritical, TypeOK
  <2> QED
    BY <2>3, <2>4, <2>5, <2>6, Kept
<1> QED
  BY <1>2, <1>3

\* The holder takes back its count and the sign at once.
LEMMA UnlockKeeps ==
  ASSUME Inv, NEW t \in Threads, Unlock(t)
  PROVE  Inv'
<1> USE DEF Inv
<1> DEFINE at == IF l = INT_MIN + 1 THEN "idle" ELSE "wake"
<1>1. /\ pc[t] = "unlock" /\ l' = l - (INT_MIN + 1) /\ pc' = [pc EXCEPT ![t] = at]
      /\ need' = need /\ alive' = alive /\ need_locks' = need_locks /\ current' = current
      /\ i' = i /\ at \in {"idle", "wake"}
  BY DEF Unlock, Goto
<1> HIDE DEF at
<1>2. InCritical(t) /\ need[t] # 0 /\ t \in Counted /\ Counted \in SUBSET Threads
  BY <1>1 DEF InCritical, Counted, Alone
<1>3. TypeOK'
  BY <1>1, Counts DEF TypeOK, PCs, INT_MIN
<1>4. Alone'
  BY <1>1 DEF Alone, TypeOK
<1>5. Read'
  BY <1>1 DEF Read, Values, INT_MIN, TypeOK
<1>6. Counted' = Counted \ {t}
  BY <1>1 DEF Counted, TypeOK
<1>7. \A u \in Threads : InCritical(u)' => InCritical(u) /\ u # t
  BY <1>1 DEF InCritical, TypeOK
<1>8. ~Held' /\ MutualExclusion' /\ Held
  BY <1>2, <1>7 DEF MutualExclusion, Held
<1>9. Cardinality(Counted') = Cardinality(Counted) - 1 /\ Cardinality(Counted) \in Int
  BY <1>2, <1>6, OneMore, Counts
<1>10. LockCounts'
  BY <1>1, <1>8, <1>9, Counts DEF LockCounts, INT_MIN
<1> QED
  BY <1>3, <1>4, <1>5, <1>8, <1>10

\* Those that are woken have read a value of a lock that was held.
LEMMA WakeKeeps ==
  ASSUME Inv, NEW t \in Threads, Wake(t)
  PROVE  Inv'
<1> USE DEF Inv
<1>1. PICK S \in SUBSET {u \in Threads : pc[u] = "asleep"} :
        /\ pc' = [u \in Threads |-> IF u = t THEN "idle" ELSE IF u \in S THEN "try" ELSE pc[u]]
        /\ current' = [u \in Threads |-> IF u \in S THEN Unheld(current[u]) ELSE current[u]]
  BY DEF Wake, WakeSets
<1>2. /\ pc[t] = "wake" /\ t \notin S /\ l' = l /\ need' = need /\ alive' = alive
      /\ need_locks' = need_locks /\ i' = i
  BY <1>1 DEF Wake
<1>3. \A u \in S : Unheld(current[u]) \in 1 .. N /\ pc[u] = "asleep" /\ Unheld(current[u]) \in Int
  BY <1>1, UnheldValues, Counts DEF Read
<1>4. TypeOK'
  BY <1>1, <1>2, <1>3 DEF TypeOK, PCs
<1>5. Alone'
  BY <1>1, <1>2, <1>3 DEF Alone
<1>6. Read'
  BY <1>1, <1>2, <1>3 DEF Read, Values, INT_MIN
<1>7. Counted' = Counted /\ \A u \in Threads : InCritical(u)' <=> InCritical(u)
  BY <1>1, <1>2, <1>3 DEF Counted, InCritical
<1> QED
  BY <1>2, <1>4, <1>5, <1>6, <1>7, Kept
-----------------------------------------------------------------------------

\* The process begins with one thread and the lock free.
LEMMA InvInit == Init => Inv
<1> SUFFICES ASSUME Init PROVE Inv
  OBVIOUS
<1>1. TypeOK /\ Alone /\ Read /\ MutualExclusion
  BY LockAssumption DEF Init, TypeOK, PCs, Alone, Read, MutualExclusion, InCritical
<1>2. Counted = {} /\ ~Held
  BY DEF Init, Counted, Held, InCritical
<1>3. LockCounts
  BY <1>2, FS_EmptySet DEF Init, LockCounts
<1> QED
  BY <1>1, <1>3 DEF Inv

\* Every step keeps the invariant.
LEMMA InvNext == Inv /\ [Next]_vars => Inv'
<1> SUFFICES ASSUME Inv, [Next]_vars PROVE Inv'
  OBVIOUS
<1>1. CASE UNCHANGED vars
  BY <1>1 DEF vars, Inv, TypeOK, Alone, Read, Values, INT_MIN, MutualExclusion, LockCounts,
              InCritical, Counted, Held
<1>2. ASSUME NEW t \in Threads, Step(t)
      PROVE  Inv'
  BY Zenon, <1>2, FastKeeps, SingleKeeps, SpinKeeps, EnterKeeps, WaitKeeps, TryKeeps, LeaveKeeps,
     UnlockKeeps, WakeKeeps DEF Step
<1>3. ASSUME NEW t \in Threads, Call(t) \/ WakesUp(t) \/ Exit(t) \/ \E n \in Threads : Create(t, n)
      PROVE  Inv'
  BY Zenon, <1>3, CallKeeps, WaitKeeps, ExitKeeps, CreateKeeps
<1>4. ASSUME NEW t \in Threads, CreateFails(t)
      PROVE  Inv'
  BY Zenon, <1>4, CreateFailsKeeps
<1> QED
  BY Zenon, <1>1, <1>2, <1>3, <1>4 DEF Next

\* The inductive invariant of the lock.
THEOREM LockInvariant == Spec => []Inv
BY InvInit, InvNext, PTL DEF Spec

\* Mutual exclusion: no two threads are between __lock and __unlock, however
\* many there are and however they come and go (__lock.c:19, pthread_create.c:137).
THEOREM LockMutualExclusion == Spec => []MutualExclusion
<1>1. Inv => MutualExclusion
  BY DEF Inv
<1> QED
  BY <1>1, LockInvariant, PTL

\* The lock is what its comment says: the number of threads inside, with the
\* sign for the holder (__lock.c:3).
THEOREM LockCountsThreads == Spec => []LockCounts
<1>1. Inv => LockCounts
  BY DEF Inv
<1> QED
  BY <1>1, LockInvariant, PTL

\* The two assertions in the comments of __lock (__lock.c:30 and 47).
THEOREM LockAssertions == Spec => []Assertions
<1>1. ASSUME Inv PROVE Assertions
  BY <1>1, UnheldValues, Counts DEF Inv, Read, Assertions
<1> QED
  BY <1>1, LockInvariant, PTL

\* The state keeps its type.
THEOREM LockTypes == Spec => []TypeOK
<1>1. Inv => TypeOK
  BY DEF Inv
<1> QED
  BY <1>1, LockInvariant, PTL
=============================================================================
