---------------------------- MODULE MCScheduler ----------------------------
(***************************************************************************)
(* A small instance of Scheduler.                                          *)
(***************************************************************************)
EXTENDS Scheduler

CONSTANTS a, b, c

(* A .cfg has no negative numbers. *)
MinusOne == -1

Prios == Permutations({a, b, c})
=============================================================================
