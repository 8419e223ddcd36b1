------------------------------ MODULE MuslCond ------------------------------
(***************************************************************************)
(* The C library's condition variables within a process                    *)
(* (pthread_cond_timedwait.c).  A thread that waits puts a node on the     *)
(* list of the variable, newest at the head, and sleeps on the node's      *)
(* barrier.  A signal takes nodes off the tail and lets the first of them  *)
(* go; that one, once it has the mutex, lets the next one go, by moving it *)
(* in the kernel from its barrier to the mutex.  A wait that times out     *)
(* takes its own node off, and a signal that has met such a node waits     *)
(* until that is done.                                                     *)
(*                                                                         *)
(* The nodes are on the stacks of the waiting threads and the signal's     *)
(* counter is on its own.  What is done under the variable's lock is one   *)
(* step; of all else every access to shared memory is one, and so is every *)
(* system call.  Steps that are left out change nothing: a compare and     *)
(* swap that fails and is made again (the two tries before the loop of     *)
(* pthread_mutex_timedlock, its spinning, and those of lock()) leaves the  *)
(* thread where it is.                                                     *)
(***************************************************************************)
EXTENDS Integers, Sequences, Futex

CONSTANTS
    Waiters, Signalers,
    None,           \* a null pointer
    MaxCalls        \* bound: the calls each thread makes

Threads == Waiters \cup Signalers

VARIABLES
    head, tail,     \* _c_head and _c_tail
    node,           \* the node of each waiter: prev, next, state, barrier, notify
    lock,           \* _m_lock of the mutex: 0, or EBUSY without or with the waiters bit
    mwaiters,       \* _m_waiters of the mutex
    ref, first,     \* of each signaler
    pc,
    cont,           \* where a thread goes on when it has (or has left) the mutex
    val,            \* local: what a thread has read of the mutex
    asleep,         \* the address each thread sleeps on
    calls           \* history: the calls each thread has made

vars == <<head, tail, node, lock, mwaiters, ref, first, pc, cont, val, asleep, calls>>
cond == <<head, tail>>
mutex == <<lock, mwaiters>>

WAITING == 0
SIGNALED == 1
LEAVING == 2

NewNode == [prev |-> None, next |-> None, state |-> WAITING, barrier |-> 2, notify |-> None]

HELD == 1           \* EBUSY
CONTENDED == 2      \* EBUSY | 0x80000000

Awake == <<"awake", None>>
Barrier(t) == <<"barrier", t>>
Mutex == <<"mutex", None>>
Ref(s) == <<"ref", s>>

Init ==
    /\ head = None /\ tail = None
    /\ node = [t \in Waiters |-> NewNode]
    /\ lock = 0 /\ mwaiters = 0
    /\ ref = [s \in Signalers |-> 0]
    /\ first = [s \in Signalers |-> None]
    /\ pc = [t \in Threads |-> "idle"]
    /\ cont = [t \in Threads |-> "idle"]
    /\ val = [t \in Threads |-> 0]
    /\ asleep = [t \in Threads |-> Awake]
    /\ calls = [t \in Threads |-> 0]

Goto(t, at) == pc' = [pc EXCEPT ![t] = at]

Sleepers(a) == {u \in Threads : asleep[u] = a}

(* __wake(a, 1, 1): one of those who sleep there, if any. *)
WakeOne(a) ==
    \E S \in WakeSets(Sleepers(a), 1) :
        asleep' = [u \in Threads |-> IF u \in S THEN Awake ELSE asleep[u]]

(* A thread is at a place of its program and not asleep there. *)
At(t, place) == pc[t] = place /\ asleep[t] = Awake

-----------------------------------------------------------------------------

(* The mutex, of the normal type. *)

LockMutex(t, then) == Goto(t, "mtry") /\ cont' = [cont EXCEPT ![t] = then]
UnlockMutex(t, then) == Goto(t, "munlock") /\ cont' = [cont EXCEPT ![t] = then]

(* trylock; a thread that has tried in vain reads the lock. *)
MutexTry(t) ==
    /\ At(t, "mtry")
    /\ lock' = IF lock = 0 THEN HELD ELSE lock
    /\ Goto(t, IF lock = 0 THEN cont[t] ELSE "mread")
    /\ UNCHANGED <<cond, node, mwaiters, ref, first, cont, val, asleep, calls>>

MutexRead(t) ==
    /\ At(t, "mread")
    /\ val' = [val EXCEPT ![t] = lock]
    /\ Goto(t, IF lock = 0 THEN "mtry" ELSE "minc")
    /\ UNCHANGED <<cond, node, mutex, ref, first, cont, asleep, calls>>

MutexInc(t) ==
    /\ At(t, "minc")
    /\ mwaiters' = mwaiters + 1
    /\ Goto(t, "mmark")
    /\ UNCHANGED <<cond, node, lock, ref, first, cont, val, asleep, calls>>

(* The waiters bit is set if the lock is as it was read ... *)
MutexMark(t) ==
    /\ At(t, "mmark")
    /\ lock' = IF lock = val[t] THEN CONTENDED ELSE lock
    /\ val' = [val EXCEPT ![t] = 0]
    /\ Goto(t, "mwait")
    /\ UNCHANGED <<cond, node, mwaiters, ref, first, cont, asleep, calls>>

(* ... and the thread sleeps if the bit is set then. *)
MutexWait(t) ==
    /\ At(t, "mwait")
    /\ asleep' = IF lock = CONTENDED THEN [asleep EXCEPT ![t] = Mutex] ELSE asleep
    /\ Goto(t, "mdec")
    /\ UNCHANGED <<cond, node, mutex, ref, first, cont, val, calls>>

MutexDec(t) ==
    /\ At(t, "mdec")
    /\ mwaiters' = mwaiters - 1
    /\ Goto(t, "mtry")
    /\ UNCHANGED <<cond, node, lock, ref, first, cont, val, asleep, calls>>

(* Unlocking reads the count of waiters first ... *)
MutexUnlock(t) ==
    /\ At(t, "munlock")
    /\ val' = [val EXCEPT ![t] = mwaiters]
    /\ Goto(t, "mswap")
    /\ UNCHANGED <<cond, node, mutex, ref, first, cont, asleep, calls>>

(* Faulty variant: the count read before decides alone. *)
MutexSwapByCount(t) ==
    /\ At(t, "mswap")
    /\ lock' = 0
    /\ val' = [val EXCEPT ![t] = 0]
    /\ Goto(t, IF val[t] # 0 THEN "mwake" ELSE cont[t])
    /\ UNCHANGED <<cond, node, mwaiters, ref, first, cont, asleep, calls>>

(* ... and wakes a thread if there were any or the waiters bit is set. *)
MutexSwap(t) ==
    /\ At(t, "mswap")
    /\ lock' = 0
    /\ val' = [val EXCEPT ![t] = 0]
    /\ Goto(t, IF val[t] # 0 \/ lock = CONTENDED THEN "mwake" ELSE cont[t])
    /\ UNCHANGED <<cond, node, mwaiters, ref, first, cont, asleep, calls>>

MutexWake(t) ==
    /\ At(t, "mwake")
    /\ WakeOne(Mutex)
    /\ Goto(t, cont[t])
    /\ UNCHANGED <<cond, node, mutex, ref, first, cont, val, calls>>

-----------------------------------------------------------------------------

(* The wait. *)

(* A thread locks the mutex, waits and unlocks it. *)
Begin(t) ==
    /\ t \in Waiters /\ At(t, "idle") /\ calls[t] < MaxCalls[t]
    /\ calls' = [calls EXCEPT ![t] = @ + 1]
    /\ LockMutex(t, "enqueue")
    /\ UNCHANGED <<cond, node, mutex, ref, first, val, asleep>>

Returned(t) ==
    /\ At(t, "returned")
    /\ UnlockMutex(t, "idle")
    /\ node' = [node EXCEPT ![t] = NewNode]
    /\ UNCHANGED <<cond, mutex, ref, first, val, asleep, calls>>

Enqueue(t) ==
    /\ At(t, "enqueue")
    /\ head' = t
    /\ tail' = IF tail = None THEN t ELSE tail
    /\ LET new == [node EXCEPT ![t] = [NewNode EXCEPT !.next = head]]
       IN  node' = IF tail = None THEN new ELSE [new EXCEPT ![head].prev = t]
    /\ UnlockMutex(t, "block")
    /\ UNCHANGED <<mutex, ref, first, val, asleep, calls>>

Block(t) ==
    /\ At(t, "block")
    /\ IF node[t].barrier = 2
       THEN asleep' = [asleep EXCEPT ![t] = Barrier(t)] /\ UNCHANGED pc
       ELSE Goto(t, "state") /\ UNCHANGED asleep
    /\ UNCHANGED <<cond, node, mutex, ref, first, cont, val, calls>>

(* The wait times out or is cancelled, also when it has been moved to the   *)
(* mutex. *)
TimesOut(t) ==
    /\ t \in Waiters /\ pc[t] = "block"
    /\ asleep' = [asleep EXCEPT ![t] = Awake]
    /\ Goto(t, "state")
    /\ UNCHANGED <<cond, node, mutex, ref, first, cont, val, calls>>

(* A sleep ends for another reason than a wake-up. *)
WakesUp(t) ==
    /\ asleep[t] # Awake
    /\ asleep' = [asleep EXCEPT ![t] = Awake]
    /\ UNCHANGED <<cond, node, mutex, ref, first, pc, cont, val, calls>>

(* a_cas(&node.state, WAITING, LEAVING). *)
State(t) ==
    /\ At(t, "state")
    /\ IF node[t].state = WAITING
       THEN node' = [node EXCEPT ![t].state = LEAVING] /\ Goto(t, "leave")
       ELSE UNCHANGED node /\ Goto(t, "barrier")
    /\ UNCHANGED <<cond, mutex, ref, first, cont, val, asleep, calls>>

(* The node is taken off the list it is on. *)
Leave(t) ==
    /\ At(t, "leave")
    /\ LET n == node[t]
           unnext == IF head # t /\ n.prev # None
                     THEN [node EXCEPT ![n.prev].next = n.next] ELSE node
       IN  /\ head' = IF head = t THEN n.next ELSE head
           /\ tail' = IF tail = t THEN n.prev ELSE tail
           /\ node' = IF tail # t /\ n.next # None
                      THEN [unnext EXCEPT ![n.next].prev = n.prev] ELSE unnext
    /\ Goto(t, "notify")
    /\ UNCHANGED <<mutex, ref, first, cont, val, asleep, calls>>

(* The counter of the signal that waits is let down ... *)
Notify(t) ==
    /\ At(t, "notify")
    /\ LET s == node[t].notify
       IN  IF s = None
           THEN LockMutex(t, "returned") /\ UNCHANGED ref
           ELSE /\ ref' = [ref EXCEPT ![s] = @ - 1]
                /\ IF ref[s] = 1 THEN Goto(t, "nwake") /\ UNCHANGED cont
                   ELSE LockMutex(t, "returned")
    /\ UNCHANGED <<cond, node, mutex, first, val, asleep, calls>>

(* ... and whoever sleeps where it is, or was, is woken. *)
NotifyWake(t) ==
    /\ At(t, "nwake")
    /\ WakeOne(Ref(node[t].notify))
    /\ LockMutex(t, "returned")
    /\ UNCHANGED <<cond, node, mutex, ref, first, val, calls>>

(* lock(&node.barrier).  After a sleep it is left at 2 and not at 1; nobody  *)
(* looks at it again. *)
BarrierLock(t) ==
    /\ At(t, "barrier")
    /\ IF node[t].barrier = 0
       THEN /\ node' = [node EXCEPT ![t].barrier = 1]
            /\ LockMutex(t, "chain")
            /\ UNCHANGED asleep
       ELSE /\ asleep' = [asleep EXCEPT ![t] = Barrier(t)]
            /\ UNCHANGED <<node, pc, cont>>
    /\ UNCHANGED <<cond, mutex, ref, first, val, calls>>

(* The mutex is held.  The first of the list keeps the mutex's count of     *)
(* waiters up, and the last one lets it down. *)
Chain(t) ==
    /\ At(t, "chain")
    /\ mwaiters' = IF node[t].next = None THEN mwaiters + 1 ELSE mwaiters
    /\ Goto(t, IF node[t].prev = None THEN "last" ELSE "marklock")
    /\ UNCHANGED <<cond, node, lock, ref, first, cont, val, asleep, calls>>

Last(t) ==
    /\ At(t, "last")
    /\ mwaiters' = mwaiters - 1
    /\ Goto(t, "returned")
    /\ UNCHANGED <<cond, node, lock, ref, first, cont, val, asleep, calls>>

(* The waiters bit of the mutex, for the thread about to be moved there.   *)
(* The mutex is held: if the bit was not set when it was read, the compare   *)
(* and swap sets it or has found it set. *)
MarkLock(t) ==
    /\ At(t, "marklock")
    /\ lock' = CONTENDED
    /\ Goto(t, "next")
    /\ UNCHANGED <<cond, node, mwaiters, ref, first, cont, val, asleep, calls>>

(* Faulty variant: the next barrier is left to itself. *)
NextNot(t) ==
    /\ At(t, "next")
    /\ Goto(t, "returned")
    /\ UNCHANGED <<cond, node, mutex, ref, first, cont, val, asleep, calls>>

(* unlock_requeue: the barrier of the next thread is opened ... *)
Next1(t) ==
    /\ At(t, "next")
    /\ node' = [node EXCEPT ![node[t].prev].barrier = 0]
    /\ Goto(t, "requeue")
    /\ UNCHANGED <<cond, mutex, ref, first, cont, val, asleep, calls>>

(* ... and a thread asleep there sleeps on the mutex instead. *)
Requeue(t) ==
    /\ At(t, "requeue")
    /\ asleep' = [u \in Threads |-> IF asleep[u] = Barrier(node[t].prev) THEN Mutex ELSE asleep[u]]
    /\ Goto(t, "returned")
    /\ UNCHANGED <<cond, node, mutex, ref, first, cont, val, calls>>

-----------------------------------------------------------------------------

(* __private_cond_signal. *)

RECURSIVE FromTail(_, _)
(* The nodes from p on towards the head, until n of them were WAITING. *)
FromTail(p, n) ==
    IF n = 0 \/ p = None THEN <<>>
    ELSE <<p>> \o FromTail(node[p].prev, IF node[p].state = WAITING THEN n - 1 ELSE n)

(* The rest of the list after the nodes taken from the tail. *)
Rest(taken) == IF taken = <<>> THEN tail ELSE node[taken[Len(taken)]].prev

(* What becomes of a node that is taken: signaled, or to notify. *)
Marked(s, x) ==
    IF x.state = WAITING THEN [x EXCEPT !.state = SIGNALED] ELSE [x EXCEPT !.notify = s]

Signal(s) ==
    /\ s \in Signalers /\ At(s, "idle") /\ calls[s] < MaxCalls[s]
    /\ calls' = [calls EXCEPT ![s] = @ + 1]
    /\ \E n \in {1, Cardinality(Waiters)} :
        LET taken == FromTail(tail, n)
            S == {taken[k] : k \in DOMAIN taken}
            woken == SelectSeq(taken, LAMBDA p : node[p].state = WAITING)
            p == Rest(taken)
            marked == [t \in Waiters |-> IF t \in S THEN Marked(s, node[t]) ELSE node[t]]
            unprev == IF p # None /\ node[p].next # None
                      THEN [marked EXCEPT ![node[p].next].prev = None] ELSE marked
        IN  /\ node' = IF p # None THEN [unprev EXCEPT ![p].next = None] ELSE unprev
            /\ head' = IF p = None THEN None ELSE head
            /\ tail' = p
            /\ ref' = [ref EXCEPT ![s] =
                         Cardinality({t \in S : marked[t].notify = s /\ node[t].state # WAITING})]
            /\ first' = [first EXCEPT ![s] = IF woken = <<>> THEN None ELSE woken[1]]
    /\ Goto(s, "ref")
    /\ UNCHANGED <<mutex, cont, val, asleep>>

(* Faulty variant: the signal does not wait. *)
WaitRefNot(s) ==
    /\ At(s, "ref")
    /\ Goto(s, IF first[s] = None THEN "idle" ELSE "open")
    /\ UNCHANGED <<cond, node, mutex, ref, first, cont, val, asleep, calls>>

(* Until those who are leaving have left. *)
WaitRef(s) ==
    /\ At(s, "ref")
    /\ IF ref[s] # 0
       THEN asleep' = [asleep EXCEPT ![s] = Ref(s)] /\ UNCHANGED pc
       ELSE Goto(s, IF first[s] = None THEN "idle" ELSE "open") /\ UNCHANGED asleep
    /\ UNCHANGED <<cond, node, mutex, ref, first, cont, val, calls>>

(* unlock(&first->barrier): the barrier is opened ... *)
Open(s) ==
    /\ At(s, "open")
    /\ node' = [node EXCEPT ![first[s]].barrier = 0]
    /\ Goto(s, IF node[first[s]].barrier = 2 THEN "owake" ELSE "idle")
    /\ UNCHANGED <<cond, mutex, ref, first, cont, val, asleep, calls>>

(* ... and whoever sleeps where it is, or was, is woken. *)
OpenWake(s) ==
    /\ At(s, "owake")
    /\ WakeOne(Barrier(first[s]))
    /\ first' = [first EXCEPT ![s] = None]
    /\ Goto(s, "idle")
    /\ UNCHANGED <<cond, node, mutex, ref, cont, val, calls>>

-----------------------------------------------------------------------------

WaiterStep(t) ==
    \/ MutexTry(t) \/ MutexRead(t) \/ MutexInc(t) \/ MutexMark(t) \/ MutexWait(t) \/ MutexDec(t)
    \/ MutexUnlock(t) \/ MutexSwap(t) \/ MutexWake(t)
    \/ Returned(t) \/ Enqueue(t) \/ Block(t) \/ State(t) \/ Leave(t) \/ Notify(t) \/ NotifyWake(t)
    \/ BarrierLock(t) \/ Chain(t) \/ Last(t) \/ MarkLock(t) \/ Next1(t) \/ Requeue(t)

SignalerStep(s) == WaitRef(s) \/ Open(s) \/ OpenWake(s)

Next ==
    \/ \E t \in Waiters : WaiterStep(t) \/ Begin(t) \/ TimesOut(t)
    \/ \E s \in Signalers : SignalerStep(s) \/ Signal(s)
    \/ \E t \in Threads : WakesUp(t)

(* Threads run on, and unlock the mutex when a wait has returned; nobody    *)
(* has to call, to signal, to time out or to wake for nothing. *)
Fairness ==
    /\ \A t \in Waiters : WF_vars(WaiterStep(t))
    /\ \A s \in Signalers : WF_vars(SignalerStep(s))

Spec == Init /\ [][Next]_vars /\ Fairness

-----------------------------------------------------------------------------

(* Is the thread's node in use? *)
Waits(t) == pc[t] \notin {"idle", "enqueue"} /\ cont[t] # "enqueue" /\ ~ (cont[t] = "idle")

RECURSIVE OnList(_, _)
OnList(p, t) == p # None /\ (p = t \/ OnList(node[p].prev, t))

(* No pointer to a node or a counter is followed after the call whose stack *)
(* it leads to has returned: not those of the list, not a signal's first, not *)
(* a woken thread's next one, not the counter of those who leave.  And      *)
(* "Access to cv object is valid because this waiter was not yet signaled   *)
(* and a new signal/broadcast cannot return after seeing a LEAVING waiter   *)
(* without getting notified" (pthread_cond_timedwait.c:118): a thread about *)
(* to lock the variable in order to leave is still on its list or on that   *)
(* of a signal that has not returned.  The wake-ups that follow the last    *)
(* access (lines 45 and 134) are not covered: when they are made the word   *)
(* may be gone, and what sleeps in its place wakes for nothing.  Requeueing *)
(* is: it would move what sleeps there to the mutex. *)
PointersLive ==
    /\ \A t \in {head, tail} : t # None => Waits(t)
    /\ \A s \in Signalers : pc[s] \in {"ref", "open"} /\ first[s] # None => Waits(first[s])
    /\ \A t \in Waiters :
          /\ pc[t] \in {"chain", "marklock", "next", "requeue"} /\ node[t].prev # None
                => Waits(node[t].prev)
          /\ pc[t] = "notify" /\ node[t].notify # None => pc[node[t].notify] = "ref"
          /\ pc[t] = "leave" =>
                IF node[t].notify = None THEN OnList(tail, t) ELSE pc[node[t].notify] = "ref"

(* The waits that are over, signaled or given up, and have not returned. *)
Over == {t \in Waiters : Waits(t) /\ node[t].state # WAITING}

(* No wake-up is lost, of those between a thread's look at a word and its   *)
(* going to sleep, in the mutex, the barriers and the counter: when no      *)
(* thread can run, those asleep are waits that nobody has signaled, and the *)
(* mutex, whose count one woken thread raises for another to lower, is free *)
(* and waited for by none. *)
NobodyForgotten ==
    (\A t \in Threads : pc[t] = "idle" \/ asleep[t] # Awake) =>
        /\ \A t \in Threads : pc[t] = "idle" \/ (pc[t] = "block" /\ node[t].state = WAITING)
        /\ lock = 0 /\ mwaiters = 0

(* Waits that were signaled or given up return, and so do signals: each     *)
(* thread of a broadcast lets the next one go. *)
WaitsReturn ==
    /\ \A t \in Waiters : []<>(t \notin Over)
    /\ \A s \in Signalers : []<>(pc[s] = "idle")
=============================================================================
