-------------------------------- MODULE Futex -------------------------------
(***************************************************************************)
(* What the C library's threads use of the kernel's futex call             *)
(* (pthread_impl.h, __wait.c, __timedwait.c): FUTEX_WAIT puts a thread to  *)
(* sleep on a word if the word still has the value the caller expects, in  *)
(* one step; FUTEX_WAKE wakes some of the threads asleep on it, which ones *)
(* is not said.                                                            *)
(***************************************************************************)
EXTENDS Naturals, FiniteSets

(* The sets of threads that waking n of the sleeping ones may wake. *)
WakeSets(sleeping, n) ==
    {S \in SUBSET sleeping :
        Cardinality(S) = IF n < Cardinality(sleeping) THEN n ELSE Cardinality(sleeping)}
=============================================================================
