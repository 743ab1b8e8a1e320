---------------------------- MODULE MCDispatcher ----------------------------
(***************************************************************************)
(* Small instances of Dispatcher.                                          *)
(***************************************************************************)
EXTENDS Dispatcher

CONSTANTS disk_task, user, t1, t2

(* Any task waits for any other, or for itself. *)
AnyWait == Caller \X Caller

(* Two tasks that may wait for each other, in a circle too. *)
EachOther == {<<user, t1>>, <<t1, user>>}

(* One waiter and one target. *)
UserWaits == {<<user, t1>>}

(* Two waiters for one target, and nothing else. *)
TwoWaiters == {<<user, t1>>, <<t2, t1>>}

(* t1 and t2 are interchangeable where they may wait for the same tasks. *)
Created2 == Permutations({t1, t2})
=============================================================================
