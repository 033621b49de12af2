-------------------------- MODULE MCLockFreeQueue --------------------------
(***************************************************************************)
(* A small instance of LockFreeQueue: two threads that push, so that two   *)
(* pushes can overlap, and two messages, so that their order shows.        *)
(***************************************************************************)
EXTENDS LockFreeQueue, TLC

CONSTANTS thread1, thread2, get, set

MCProducers == {thread1, thread2}
MCMessages  == {get, set}
MCSymmetry  == Permutations(MCProducers)
=============================================================================
