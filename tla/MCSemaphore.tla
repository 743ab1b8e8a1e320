---------------------------- MODULE MCSemaphore ----------------------------
(***************************************************************************)
(* Small instances of Semaphore.                                           *)
(***************************************************************************)
EXTENDS Semaphore

CONSTANTS disk_task, user, t1, t2

Created2 == Permutations({t1, t2})
=============================================================================
