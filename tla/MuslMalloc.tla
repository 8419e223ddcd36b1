----------------------------- MODULE MuslMalloc -----------------------------
(***************************************************************************)
(* The slot allocator of the C library's malloc (mallocng: malloc.c,       *)
(* free.c, meta.h), for one size class.  Memory comes in groups of up to   *)
(* 32 slots.  A group keeps two masks: avail_mask, the slots malloc may    *)
(* hand out, which changes under the lock only, and freed_mask, to which   *)
(* free adds a slot with a compare and swap, without the lock, unless the  *)
(* slot is the first or the last one of the group to be freed.  Groups     *)
(* with free slots are on the list of active ones; malloc takes slots from *)
(* its head and, when that has none, moves on and activates another.       *)
(*                                                                         *)
(* A mask is a set of slots.  Every store to a mask, and every read of one *)
(* that other threads may change meanwhile, is a step.  How many slots a   *)
(* new group gets and activates, how many an old one activates, and        *)
(* whether an empty group of a class that bounces is kept, the code        *)
(* decides from sizes and counters: here they are a choice.  Groups are    *)
(* mapped on their own; those nested in a slot of a larger class, and the  *)
(* framing of a slot's contents, are left out.                             *)
(***************************************************************************)
EXTENDS Integers, Sequences

CONSTANTS
    Threads,
    Metas,          \* the groups there can be at a time
    Shapes          \* the pairs <<last_idx, active_idx>> of a new group

(* A group has a slot at least, and its first one is active. *)
ASSUME ShapesAssumption ==
    \A s \in Shapes : s \in Nat \X Nat /\ s[2] <= s[1]

VARIABLES
    lock,           \* the thread that holds __malloc_lock, as a set
    active,         \* ctx.active[sc], the head first
    used,           \* the metas that describe a group
    last_idx, active_idx,
    avail_mask, freed_mask,
    live,           \* the slots the application has, <<group, index>>
    pc,
    slot,           \* the slot a thread frees
    mask,           \* locals: the last mask or masks read
    crashed         \* an assertion has failed

vars == <<lock, active, used, last_idx, active_idx, avail_mask, freed_mask,
          live, pc, slot, mask, crashed>>

None == <<>>

Init ==
    /\ lock = {} /\ active = <<>> /\ used = {}
    /\ last_idx = [g \in Metas |-> 0]
    /\ active_idx = [g \in Metas |-> 0]
    /\ avail_mask = [g \in Metas |-> {}]
    /\ freed_mask = [g \in Metas |-> {}]
    /\ live = {}
    /\ pc = [t \in Threads |-> "idle"]
    /\ slot = [t \in Threads |-> None]
    /\ mask = [t \in Threads |-> {}]
    /\ crashed = FALSE

Goto(t, at) == pc' = [pc EXCEPT ![t] = at]

Local(t, m) == mask' = [mask EXCEPT ![t] = m]

All(g) == 0 .. last_idx[g]
Act(g) == 0 .. active_idx[g]

(* a_ctz_32: the first slot of a mask that has one. *)
First(m) == {i \in m : \A j \in m : i <= j}

Rotated(s) == Append(Tail(s), Head(s))

Layout == <<used, last_idx, active_idx>>

(* The call is over: locals do not matter, and the lock is released. *)
Return(t) ==
    /\ Goto(t, "idle")
    /\ Local(t, {})
    /\ slot' = [slot EXCEPT ![t] = None]
    /\ lock' = lock \ {t}

---------------------------------------------------------------------------
(* malloc *)

(* The lock is taken; the head has a slot. *)
malloc(t) ==
    /\ pc[t] = "idle" /\ lock = {}
    /\ active # <<>> /\ avail_mask[Head(active)] # {}
    /\ LET g == Head(active) IN
        \E i \in First(avail_mask[g]) :
            /\ avail_mask' = [avail_mask EXCEPT ![g] = @ \ {i}]
            /\ live' = live \union {<<g, i>>}
    /\ UNCHANGED <<lock, active, Layout, freed_mask, pc, slot, mask, crashed>>

(* The head has none: alloc_slot begins with try_avail. *)
mallocSlow(t) ==
    /\ pc[t] = "idle" /\ lock = {}
    /\ active # <<>> => avail_mask[Head(active)] = {}
    /\ lock' = {t}
    /\ Goto(t, IF active = <<>> THEN "group" ELSE "head")
    /\ UNCHANGED <<active, Layout, avail_mask, freed_mask, live, slot, mask,
                   crashed>>

(* A group without free slots leaves the list; otherwise the next one      *)
(* becomes the head.                                                       *)
TryHead(t) ==
    /\ pc[t] = "head"
    /\ active' = IF freed_mask[Head(active)] = {} THEN Tail(active)
                 ELSE Rotated(active)
    /\ Goto(t, IF active' = <<>> THEN "group" ELSE "mask")
    /\ UNCHANGED <<lock, Layout, avail_mask, freed_mask, live, slot, mask,
                   crashed>>

(* A group that is free altogether is passed over. *)
TryMask(t) ==
    /\ pc[t] = "mask"
    /\ LET g == Head(active) IN
        IF freed_mask[g] = All(g)
        THEN /\ active' = Rotated(active)
             /\ Goto(t, "mask2") /\ UNCHANGED mask
        ELSE /\ Local(t, freed_mask[g])
             /\ Goto(t, "inactive") /\ UNCHANGED active
    /\ UNCHANGED <<lock, Layout, avail_mask, freed_mask, live, slot, crashed>>

TryMask2(t) ==
    /\ pc[t] = "mask2"
    /\ Local(t, freed_mask[Head(active)])
    /\ Goto(t, "inactive")
    /\ UNCHANGED <<lock, active, Layout, avail_mask, freed_mask, live, slot,
                   crashed>>

(* If none of the slots that are free is active yet, another group is      *)
(* taken, or, in the only one there is, more slots are activated: one more *)
(* at least, up to the end of a page, but no more than the group has.      *)
TryInactive(t) ==
    /\ pc[t] = "inactive"
    /\ LET g == Head(active) IN
        \/ /\ mask[t] \intersect Act(g) # {}
           /\ UNCHANGED <<active, active_idx>>
        \/ /\ mask[t] \intersect Act(g) = {} /\ Len(active) > 1
           /\ active' = Rotated(active) /\ UNCHANGED active_idx
        \/ /\ mask[t] \intersect Act(g) = {} /\ Len(active) = 1
           /\ \E n \in active_idx[g] .. last_idx[g] :
                /\ n > active_idx[g] \/ n = last_idx[g]
                /\ active_idx' = [active_idx EXCEPT ![g] = n]
           /\ UNCHANGED active
    /\ Goto(t, "activate")
    /\ UNCHANGED <<lock, used, last_idx, avail_mask, freed_mask, live, slot,
                   mask, crashed>>

(* activate_group: what is freed and active is taken out of freed_mask ... *)
ActivateTakes(t, g) ==
    /\ crashed' = (crashed \/ avail_mask[g] # {})
    /\ Local(t, freed_mask[g] \intersect Act(g))
    /\ freed_mask' = [freed_mask EXCEPT ![g] = @ \ Act(g)]

Activate(t) ==
    /\ pc[t] = "activate"
    /\ ActivateTakes(t, Head(active))
    /\ Goto(t, "store")
    /\ UNCHANGED <<lock, active, Layout, avail_mask, live, slot>>

(* ... and stored in avail_mask; try_avail asserts that it is something ... *)
ActivateStore(t) ==
    /\ pc[t] = "store"
    /\ avail_mask' = [avail_mask EXCEPT ![Head(active)] = mask[t]]
    /\ crashed' = (crashed \/ mask[t] = {})
    /\ Goto(t, "take")
    /\ UNCHANGED <<lock, active, Layout, freed_mask, live, slot, mask>>

(* ... and stores it once more, less the slot that it hands out.           *)
TakeFirst(t) ==
    /\ pc[t] = "take"
    /\ LET g == Head(active) IN
        \E i \in First(mask[t]) :
            /\ avail_mask' = [avail_mask EXCEPT ![g] = mask[t] \ {i}]
            /\ live' = live \union {<<g, i>>}
    /\ Return(t)
    /\ UNCHANGED <<active, Layout, freed_mask, crashed>>

(* alloc_group; its first slot is handed out. *)
alloc_group(t) ==
    /\ pc[t] = "group"
    /\ \E g \in Metas \ used : \E s \in Shapes :
        /\ used' = used \union {g}
        /\ last_idx' = [last_idx EXCEPT ![g] = s[1]]
        /\ active_idx' = [active_idx EXCEPT ![g] = s[2]]
        /\ avail_mask' = [avail_mask EXCEPT ![g] = 1 .. s[2]]
        /\ freed_mask' = [freed_mask EXCEPT ![g] = s[2] + 1 .. s[1]]
        /\ active' = Append(active, g)
        /\ live' = live \union {<<g, 0>>}
    /\ Return(t)
    /\ UNCHANGED crashed

(* No memory, or no meta: malloc returns null. *)
mallocFails(t) ==
    /\ pc[t] = "group"
    /\ Return(t)
    /\ UNCHANGED <<active, Layout, avail_mask, freed_mask, live, crashed>>

---------------------------------------------------------------------------
(* free *)

Group(t) == slot[t][1]
Index(t) == slot[t][2]

(* get_meta asserts that the slot is in neither mask. *)
free(t, s) ==
    /\ pc[t] = "idle"
    /\ live' = live \ {s}
    /\ slot' = [slot EXCEPT ![t] = s]
    /\ crashed' = (crashed \/ s[2] \in avail_mask[s[1]] \union freed_mask[s[1]])
    /\ Goto(t, "freed")
    /\ UNCHANGED <<lock, active, Layout, avail_mask, freed_mask, mask>>

ReadFreed(t) ==
    /\ pc[t] = "freed"
    /\ Local(t, freed_mask[Group(t)])
    /\ Goto(t, "avail")
    /\ UNCHANGED <<lock, active, Layout, avail_mask, freed_mask, live, slot,
                   crashed>>

(* Faulty variant: the first slot to be freed is freed without the lock. *)
WithLockLast(t, freed, m) == m \union {Index(t)} = All(Group(t))

(* The first and the last slot of a group are freed with the lock. *)
WithLock(t, freed, m) == freed = {} \/ m \union {Index(t)} = All(Group(t))

ReadAvail(t) ==
    /\ pc[t] = "avail"
    /\ LET m == mask[t] \union avail_mask[Group(t)] IN
        /\ crashed' = (crashed \/ Index(t) \in m)
        /\ Goto(t, IF WithLock(t, mask[t], m) THEN "lock" ELSE "cas")
    /\ UNCHANGED <<lock, active, Layout, avail_mask, freed_mask, live, slot,
                   mask>>

(* Faulty variant: freed_mask is written without a compare. *)
CasPlain(t) ==
    /\ pc[t] = "cas"
    /\ freed_mask' = [freed_mask EXCEPT ![Group(t)] = mask[t] \union {Index(t)}]
    /\ Return(t)
    /\ UNCHANGED <<active, Layout, avail_mask, live, crashed>>

Cas(t) ==
    /\ pc[t] = "cas"
    /\ \/ /\ freed_mask[Group(t)] = mask[t]
          /\ freed_mask' = [freed_mask EXCEPT ![Group(t)] = @ \union {Index(t)}]
          /\ Return(t)
       \/ /\ freed_mask[Group(t)] # mask[t]
          /\ Goto(t, "freed")
          /\ Local(t, {})
          /\ UNCHANGED <<lock, freed_mask, slot>>
    /\ UNCHANGED <<active, Layout, avail_mask, live, crashed>>

(* nontrivial_free, under the lock, reads both masks. *)
Nontrivial(t) ==
    /\ pc[t] = "lock" /\ lock = {}
    /\ lock' = {t}
    /\ Local(t, freed_mask[Group(t)] \union avail_mask[Group(t)])
    /\ Goto(t, "nontrivial")
    /\ UNCHANGED <<active, Layout, avail_mask, freed_mask, live, slot, crashed>>

Whole(t) == mask[t] \union {Index(t)} = All(Group(t))

(* okay_to_free: yes if there is another group or this one is not on the   *)
(* list; for the only one it depends on how its class has been used.       *)
MustFree(t) == active # <<Group(t)>>

(* dequeue, for a group that is on the list. *)
dequeue(g) ==
    \/ \E n \in DOMAIN active :
          /\ active[n] = g
          /\ active' = SubSeq(active, 1, n - 1)
                         \o SubSeq(active, n + 1, Len(active))
    \/ (\A n \in DOMAIN active : active[n] # g) /\ UNCHANGED active

(* The group is whole again and is given back; the next one is activated   *)
(* if it was the head.  free_meta clears the masks.                        *)
FreeGroup(t) ==
    /\ pc[t] = "nontrivial" /\ Whole(t)
    /\ LET g == Group(t) IN
        /\ dequeue(g)
        /\ used' = used \ {g}
        /\ avail_mask' = [avail_mask EXCEPT ![g] = {}]
        /\ freed_mask' = [freed_mask EXCEPT ![g] = {}]
        /\ last_idx' = [last_idx EXCEPT ![g] = 0]
        /\ active_idx' = [active_idx EXCEPT ![g] = 0]
        /\ IF active # <<>> /\ Head(active) = g /\ Len(active) > 1
           THEN Goto(t, "reactivate") /\ UNCHANGED <<lock, slot, mask>>
           ELSE Return(t)
    /\ UNCHANGED <<live, crashed>>

Reactivate(t) ==
    /\ pc[t] = "reactivate"
    /\ ActivateTakes(t, Head(active))
    /\ Goto(t, "restore")
    /\ UNCHANGED <<lock, active, Layout, avail_mask, live, slot>>

ReactivateStore(t) ==
    /\ pc[t] = "restore"
    /\ avail_mask' = [avail_mask EXCEPT ![Head(active)] = mask[t]]
    /\ Return(t)
    /\ UNCHANGED <<active, Layout, freed_mask, live, crashed>>

(* Faulty variant: a group is queued although it is still the head. *)
KeepGroupQueues(t) ==
    /\ pc[t] = "nontrivial" /\ (Whole(t) => ~MustFree(t))
    /\ active' = IF mask[t] = {} THEN Append(active, Group(t)) ELSE active
    /\ Goto(t, "or")
    /\ UNCHANGED <<lock, Layout, avail_mask, freed_mask, live, slot, mask,
                   crashed>>

(* The group stays; if it had no free slot it goes on the list, unless it  *)
(* is still the head.                                                      *)
KeepGroup(t) ==
    /\ pc[t] = "nontrivial" /\ (Whole(t) => ~MustFree(t))
    /\ active' = IF mask[t] = {} /\ (active # <<>> => Head(active) # Group(t))
                 THEN Append(active, Group(t)) ELSE active
    /\ Goto(t, "or")
    /\ UNCHANGED <<lock, Layout, avail_mask, freed_mask, live, slot, mask,
                   crashed>>

(* a_or(&g->freed_mask, self) *)
Or(t) ==
    /\ pc[t] = "or"
    /\ freed_mask' = [freed_mask EXCEPT ![Group(t)] = @ \union {Index(t)}]
    /\ Return(t)
    /\ UNCHANGED <<active, Layout, avail_mask, live, crashed>>

Next == \E t \in Threads :
    \/ malloc(t) \/ mallocSlow(t) \/ TryHead(t) \/ TryMask(t) \/ TryMask2(t)
    \/ TryInactive(t) \/ Activate(t) \/ ActivateStore(t) \/ TakeFirst(t)
    \/ alloc_group(t) \/ mallocFails(t)
    \/ \E s \in live : free(t, s)
    \/ ReadFreed(t) \/ ReadAvail(t) \/ Cas(t) \/ Nontrivial(t) \/ FreeGroup(t)
    \/ Reactivate(t) \/ ReactivateStore(t) \/ KeepGroup(t) \/ Or(t)

Spec == Init /\ [][Next]_vars

---------------------------------------------------------------------------
Busy == {t \in Threads : pc[t] \in {"freed", "avail", "cas", "lock",
                                    "nontrivial", "or"}}

Holders(g, i) ==
    {<<"live", s>> : s \in live \intersect {<<g, i>>}}
    \union {<<"free", t>> : t \in {u \in Busy : slot[u] = <<g, i>>}}
    \union {<<"avail", g>> : h \in {x \in {i} : x \in avail_mask[g]}}
    \union {<<"freed", g>> : h \in {x \in {i} : x \in freed_mask[g]}}
    \union {<<"activating", t>> : t \in {u \in Threads :
                pc[u] \in {"store", "restore"} /\ Head(active) = g /\ i \in mask[u]}}

(* Every slot of every group is in one place: with the application, with a *)
(* thread that frees it, in one of the masks, or on its way from one to    *)
(* the other.  So no slot is handed out twice and none is lost, although   *)
(* frees change freed_mask without the lock while malloc reads and empties *)
(* it.  A group that is given back has none of them left.                  *)
SlotsKept ==
    /\ \A g \in used : \A i \in All(g) :
          \E h \in Holders(g, i) : Holders(g, i) = {h}
    /\ \A t \in Busy : Group(t) \in used

(* No assertion fails: a slot to be freed is in no mask, a group that is   *)
(* activated has nothing available left and gets something, and a group is *)
(* queued once.                                                            *)
Assertions ==
    /\ ~crashed
    /\ \A m, n \in DOMAIN active : active[m] = active[n] => m = n

(* While nobody holds the lock, a group with a free slot is on the list,   *)
(* so that malloc finds it; all but the head have slots that are freed and *)
(* none that are available, as activate_group expects.                     *)
FreeSlotsFound ==
    lock = {} =>
        /\ \A g \in used : avail_mask[g] \union freed_mask[g] # {} =>
                \E n \in DOMAIN active : active[n] = g
        /\ \A n \in DOMAIN active \ {1} :
                avail_mask[active[n]] = {} /\ freed_mask[active[n]] # {}

=============================================================================
