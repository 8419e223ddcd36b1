------------------------------ MODULE MuslLock ------------------------------
(***************************************************************************)
(* The C library's internal lock (__lock.c): one int that is the number of *)
(* threads that hold or want the lock, with the sign bit for "held".  It   *)
(* is skipped while the process has one thread: libc.need_locks is 1 with  *)
(* several threads, -1 when there may be only one again, and 0 when the    *)
(* next lock has found that to be so.                                      *)
(*                                                                         *)
(* Every access to the lock is one step.  Threads come and go between      *)
(* their uses of it (pthread_create.c:137, 350 and 374), one at a time,    *)
(* because they lock the thread list.                                      *)
(***************************************************************************)
EXTENDS Integers, Futex

CONSTANTS
    Threads,
    First,          \* the thread the process begins with
    Limit,          \* -INT_MIN
    Spins           \* 10

ASSUME LockAssumption ==
    /\ IsFiniteSet(Threads)
    /\ First \in Threads
    /\ Limit \in Nat /\ Cardinality(Threads) + 1 < Limit
    /\ Spins \in Nat

INT_MIN == -Limit

VARIABLES
    l,              \* the lock
    need_locks,     \* libc.need_locks
    alive,          \* the threads there are
    pc,
    current,        \* in __lock
    need,           \* need_locks as __lock read it
    i

vars == <<l, need_locks, alive, pc, current, need, i>>

Init ==
    /\ l = 0
    /\ need_locks = 0
    /\ alive = {First}
    /\ pc = [t \in Threads |-> "idle"]
    /\ current = [t \in Threads |-> 0]
    /\ need = [t \in Threads |-> 0]
    /\ i = [t \in Threads |-> 0]

Goto(t, at) == pc' = [pc EXCEPT ![t] = at]

-----------------------------------------------------------------------------

(* Faulty variant: locks are needed when the second thread is there. *)
CreateLate(t, n) ==
    /\ t \in alive /\ pc[t] = "idle" /\ n \notin alive
    /\ alive' = alive \cup {n}
    /\ need_locks' = IF alive = {t} THEN need_locks ELSE 1
    /\ UNCHANGED <<l, pc, current, need, i>>

(* pthread_create. *)
Create(t, n) ==
    /\ t \in alive /\ pc[t] = "idle" /\ n \notin alive
    /\ alive' = alive \cup {n}
    /\ need_locks' = IF alive = {t} THEN 1 ELSE need_locks
    /\ UNCHANGED <<l, pc, current, need, i>>

(* pthread_create when clone fails: need_locks was set for nothing, and is  *)
(* set back to 0, also where it was -1.  The thread list is locked in       *)
(* between, and no other thread is there to see it. *)
CreateFails(t) ==
    /\ t \in alive /\ pc[t] = "idle"
    /\ need_locks' = IF alive = {t} THEN 0 ELSE need_locks
    /\ UNCHANGED <<l, alive, pc, current, need, i>>

(* pthread_exit of a thread that is not the only one. *)
Exit(t) ==
    /\ t \in alive /\ pc[t] = "idle" /\ alive # {t}
    /\ alive' = alive \ {t}
    /\ need_locks' = IF \E u \in Threads : alive' = {u} THEN -1 ELSE need_locks
    /\ UNCHANGED <<l, pc, current, need, i>>

-----------------------------------------------------------------------------

(* __lock. *)

Call(t) ==
    /\ t \in alive /\ pc[t] = "idle"
    /\ need' = [need EXCEPT ![t] = need_locks]
    /\ Goto(t, IF need_locks = 0 THEN "critical" ELSE "fast")
    /\ UNCHANGED <<l, need_locks, alive, current, i>>

(* The first compare-and-swap. *)
Fast(t) ==
    /\ pc[t] = "fast"
    /\ current' = [current EXCEPT ![t] = l]
    /\ l' = IF l = 0 THEN INT_MIN + 1 ELSE l
    /\ Goto(t, "single")
    /\ UNCHANGED <<need_locks, alive, need, i>>

(* The lock has been taken for real, so whoever was left has released it. *)
Single(t) ==
    /\ pc[t] = "single"
    /\ need_locks' = IF need[t] < 0 THEN 0 ELSE need_locks
    /\ i' = [i EXCEPT ![t] = 0]
    /\ Goto(t, IF current[t] = 0 THEN "critical" ELSE "spin")
    /\ UNCHANGED <<l, alive, current, need>>

(* What the lock is without the holder: the sign and its count removed. *)
Unheld(c) == IF c < 0 THEN c - (INT_MIN + 1) ELSE c

(* One round of the spin loop. *)
Spin(t) ==
    /\ pc[t] = "spin"
    /\ LET c == Unheld(current[t])
       IN  IF i[t] = Spins
           THEN Goto(t, "enter") /\ UNCHANGED <<l, current, i>>
           ELSE /\ l' = IF l = c THEN INT_MIN + (c + 1) ELSE l
                /\ current' = [current EXCEPT ![t] = IF l = c THEN c ELSE l]
                /\ i' = [i EXCEPT ![t] = @ + 1]
                /\ Goto(t, IF l = c THEN "critical" ELSE "spin")
    /\ UNCHANGED <<need_locks, alive, need>>

(* The thread counts itself in. *)
Enter(t) ==
    /\ pc[t] = "enter"
    /\ l' = l + 1
    /\ current' = [current EXCEPT ![t] = l + 1]
    /\ Goto(t, "loop")
    /\ UNCHANGED <<need_locks, alive, need, i>>

(* __futexwait, where the lock is held: asleep, or at once on if the value  *)
(* has changed. *)
Wait(t) ==
    /\ pc[t] = "loop"
    /\ current[t] < 0
    /\ IF l = current[t]
       THEN Goto(t, "asleep") /\ UNCHANGED current
       ELSE current' = [current EXCEPT ![t] = Unheld(current[t])] /\ Goto(t, "try")
    /\ UNCHANGED <<l, need_locks, alive, need, i>>

(* The call may return for other reasons than being woken. *)
WakesUp(t) ==
    /\ pc[t] = "asleep"
    /\ current' = [current EXCEPT ![t] = Unheld(current[t])]
    /\ Goto(t, "try")
    /\ UNCHANGED <<l, need_locks, alive, need, i>>

NoWait(t) ==
    /\ pc[t] = "loop"
    /\ current[t] >= 0
    /\ Goto(t, "try")
    /\ UNCHANGED <<l, need_locks, alive, current, need, i>>

Try(t) ==
    /\ pc[t] = "try"
    /\ l' = IF l = current[t] THEN INT_MIN + current[t] ELSE l
    /\ current' = [current EXCEPT ![t] = l]
    /\ Goto(t, IF l = current[t] THEN "critical" ELSE "loop")
    /\ UNCHANGED <<need_locks, alive, need, i>>

-----------------------------------------------------------------------------

(* __unlock. *)

(* Is there anything to unlock? *)
Leave(t) ==
    /\ pc[t] = "critical"
    /\ Goto(t, IF l < 0 THEN "unlock" ELSE "idle")
    /\ UNCHANGED <<l, need_locks, alive, current, need, i>>

Unlock(t) ==
    /\ pc[t] = "unlock"
    /\ l' = l - (INT_MIN + 1)
    /\ Goto(t, IF l = INT_MIN + 1 THEN "idle" ELSE "wake")
    /\ UNCHANGED <<need_locks, alive, current, need, i>>

(* Faulty variant: nobody is woken. *)
WakeNobody(t) ==
    /\ pc[t] = "wake"
    /\ Goto(t, "idle")
    /\ UNCHANGED <<l, need_locks, alive, current, need, i>>

Wake(t) ==
    /\ pc[t] = "wake"
    /\ \E S \in WakeSets({u \in Threads : pc[u] = "asleep"}, 1) :
          /\ pc' = [u \in Threads |-> IF u = t THEN "idle" ELSE IF u \in S THEN "try" ELSE pc[u]]
          /\ current' = [u \in Threads |-> IF u \in S THEN Unheld(current[u]) ELSE current[u]]
    /\ UNCHANGED <<l, need_locks, alive, need, i>>

-----------------------------------------------------------------------------

Step(t) ==
    \/ Fast(t) \/ Single(t) \/ Spin(t) \/ Enter(t)
    \/ Wait(t) \/ NoWait(t) \/ Try(t)
    \/ Leave(t) \/ Unlock(t) \/ Wake(t)

Next ==
    \E t \in Threads :
        \/ Step(t)
        \/ Call(t)
        \/ WakesUp(t)
        \/ \E n \in Threads : Create(t, n)
        \/ CreateFails(t)
        \/ Exit(t)

(* Threads run on in the lock and leave it; they need not be woken for      *)
(* nothing, come or go. *)
Spec == Init /\ [][Next]_vars /\ \A t \in Threads : WF_vars(Step(t))

-----------------------------------------------------------------------------

PCs == {"idle", "fast", "single", "spin", "enter", "loop", "asleep", "try", "critical",
        "unlock", "wake"}

TypeOK ==
    /\ l \in Int
    /\ need_locks \in {-1, 0, 1}
    /\ alive \subseteq Threads
    /\ pc \in [Threads -> PCs]
    /\ current \in [Threads -> Int]
    /\ need \in [Threads -> {-1, 0, 1}]
    /\ i \in [Threads -> 0 .. Spins]

InCritical(t) ==
    pc[t] \in {"critical", "unlock"} \/ (pc[t] = "single" /\ current[t] = 0)

(* No two threads are between __lock and __unlock at the same time, however *)
(* many there are and although the lock is skipped while the process has    *)
(* one thread (__lock.c, pthread_create.c:137). *)
MutualExclusion == \A t, u \in Threads : InCritical(t) /\ InCritical(u) => t = u

(* The threads that have counted themselves in. *)
Counted ==
    {t \in Threads :
        \/ pc[t] \in {"loop", "asleep", "try", "unlock"}
        \/ pc[t] = "critical" /\ need[t] # 0
        \/ pc[t] = "single" /\ current[t] = 0}

Held == \E t \in Threads : InCritical(t) /\ need[t] # 0

(* The lock says what it is documented to say: "the congestion count or'ed  *)
(* with INT_MIN as a lock flag" (__lock.c:15), the count being that of the  *)
(* threads inside. *)
LockCounts == l = Cardinality(Counted) + (IF Held THEN INT_MIN ELSE 0)

(* "assertion: current >= 0" and "assertion: current > 0, the count         *)
(* includes us already" (__lock.c:30 and 47): the value a thread compares   *)
(* with is one the lock can have when it is not held. *)
Assertions ==
    \A t \in Threads :
        /\ pc[t] = "spin" => Unheld(current[t]) >= 0
        /\ pc[t] = "try" => current[t] > 0

(* "We can only go into wait, if we know that somebody holds the lock and   *)
(* will eventually wake us up" (__lock.c:41): as long as threads want the   *)
(* lock, somebody gets it. *)
SomebodyEnters ==
    (\E t \in Threads : pc[t] \in {"fast", "spin", "enter", "loop", "asleep", "try"})
        ~> (\E t \in Threads : InCritical(t))
=============================================================================
