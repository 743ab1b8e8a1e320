----------------------------- MODULE Semaphore -----------------------------
(***************************************************************************)
(* kernel/semaphore.c: one semaphore, any number of tasks that call        *)
(* sem_down, sem_up and sem_destroy on it under the dispatcher and the     *)
(* timer.  A critical section is two steps, the xchgl that takes the spin  *)
(* lock and the body with the unlock that ends it, so that a task may lose *)
(* the processor with the lock held; another one then spins until its own  *)
(* quantum is over, which is what a blocked Lock step and the ticks are.   *)
(***************************************************************************)
EXTENDS Kernel

CONSTANTS Initial,   \* the value given to sem_create
          MaxUps     \* bound on the calls of sem_up

ASSUME SemaphoreAssumption ==
  Initial \in Nat /\ MaxUps \in Nat /\ IsFiniteSet(Tasks)

VARIABLES
  lock,        \* the spin lock is taken
  value,
  destroy,
  wait_queue,
  wake,        \* local task_wake of sem_up, task_to_wake of sem_destroy
  ups,         \* history: calls of sem_up that incremented the value
  downs        \* history: calls of sem_down that returned NOERROR

semVars == <<lock, value, destroy, wait_queue, wake, ups, downs>>
vars == <<kernelVars, semVars>>

(* Where a task waits for the lock, and the critical section it enters. *)
LockPC == {"down", "up", "destroy", "down_ret", "destroy_turn"}
CriticalPC == {"in_down", "in_up", "in_destroy", "in_down_ret", "in_destroy_turn"}
Inside == [l \in LockPC |->
             CASE l = "down"         -> "in_down"
               [] l = "up"           -> "in_up"
               [] l = "destroy"      -> "in_destroy"
               [] l = "down_ret"     -> "in_down_ret"
               [] l = "destroy_turn" -> "in_destroy_turn"]

TypeOK ==
  /\ TcbTypeOK
  /\ QueuesTypeOK
  /\ CpuTypeOK
  /\ PcTypeOK({"none", "user", "up_awake"} \cup SuspendPC \cup LockPC \cup CriticalPC,
              {"user", "down_ret"})
  /\ lock \in BOOLEAN
  /\ value \in Int
  /\ destroy \in BOOLEAN
  /\ wait_queue \in QueueOf(Tasks)
  /\ wake \in [Tasks -> Tasks \cup {NULL}]
  /\ ups \in 0..MaxUps
  /\ downs \in Nat

(* sem_create has succeeded. *)
Init ==
  /\ KernelInit
  /\ lock = FALSE
  /\ value = Initial
  /\ destroy = FALSE
  /\ wait_queue = EmptyQueue
  /\ wake = [t \in Tasks |-> NULL]
  /\ ups = 0
  /\ downs = 0

Create(t, new) == TaskCreate(t, new) /\ UNCHANGED semVars

Call(t, l) ==
  /\ At(t, "user")
  /\ Goto(t, l)
  /\ UNCHANGED <<status, sleeping, left, queueVars, current, remaining, cont,
                 loopVars, semVars>>

(* spin_lock, the xchgl that finds the lock free. *)
Lock(t) ==
  /\ current = t
  /\ pc[t] \in LockPC
  /\ ~ lock
  /\ lock' = TRUE
  /\ Goto(t, Inside[pc[t]])
  /\ UNCHANGED <<status, sleeping, left, queueVars, current, remaining, cont,
                 loopVars, value, destroy, wait_queue, wake, ups, downs>>

(* A critical section: no other task enters one, and spin_unlock ends it. *)
Critical(t, l) == At(t, l) /\ lock' = FALSE

(* Mutant: the last permit is given twice. *)
DownOffByOne(t) ==
  /\ Critical(t, "in_down")
  /\ value' = IF destroy THEN value ELSE value - 1
  /\ IF ~ destroy /\ value' < -1
       THEN /\ wait_queue' = QAdd(wait_queue, t)
            /\ Goto(t, "suspend")
            /\ cont' = [cont EXCEPT ![t] = "down_ret"]
            /\ UNCHANGED downs
       ELSE /\ downs' = IF destroy THEN downs ELSE downs + 1
            /\ Goto(t, "user")
            /\ UNCHANGED <<wait_queue, cont>>
  /\ UNCHANGED <<status, sleeping, left, queueVars, current, remaining, loopVars,
                 destroy, wake, ups>>

(* Mutant: sem_down does not see that the semaphore is destroyed. *)
DownIgnoresDestroy(t) ==
  /\ Critical(t, "in_down")
  /\ value' = value - 1
  /\ IF value' < 0
       THEN /\ wait_queue' = QAdd(wait_queue, t)
            /\ Goto(t, "suspend")
            /\ cont' = [cont EXCEPT ![t] = "down_ret"]
            /\ UNCHANGED downs
       ELSE /\ downs' = downs + 1
            /\ Goto(t, "user")
            /\ UNCHANGED <<wait_queue, cont>>
  /\ UNCHANGED <<status, sleeping, left, queueVars, current, remaining, loopVars,
                 destroy, wake, ups>>

(* sem_down up to task_suspend, or to its return. *)
Down(t) ==
  /\ Critical(t, "in_down")
  /\ value' = IF destroy THEN value ELSE value - 1
  /\ IF ~ destroy /\ value' < 0
       THEN /\ wait_queue' = QAdd(wait_queue, t)
            /\ Goto(t, "suspend")
            /\ cont' = [cont EXCEPT ![t] = "down_ret"]
            /\ UNCHANGED downs
       ELSE /\ downs' = IF destroy THEN downs ELSE downs + 1
            /\ Goto(t, "user")
            /\ UNCHANGED <<wait_queue, cont>>
  /\ UNCHANGED <<status, sleeping, left, queueVars, current, remaining, loopVars,
                 destroy, wake, ups>>

(* Mutant: the return path of a destroyed semaphore keeps the lock. *)
DownReturnKeepsLock(t) ==
  /\ At(t, "in_down_ret")
  /\ lock' = destroy
  /\ IF destroy THEN value' = value + 1 /\ UNCHANGED downs
                ELSE downs' = downs + 1 /\ UNCHANGED value
  /\ Goto(t, "user")
  /\ UNCHANGED <<status, sleeping, left, queueVars, current, remaining, cont,
                 loopVars, destroy, wait_queue, wake, ups>>

(* sem_down after task_suspend: the call fails if the semaphore was *)
(* destroyed while the task was blocked.                            *)
DownReturn(t) ==
  /\ Critical(t, "in_down_ret")
  /\ IF destroy THEN value' = value + 1 /\ UNCHANGED downs
                ELSE downs' = downs + 1 /\ UNCHANGED value
  /\ Goto(t, "user")
  /\ UNCHANGED <<status, sleeping, left, queueVars, current, remaining, cont,
                 loopVars, destroy, wait_queue, wake, ups>>

(* Mutant: the task that is let go stays in the wait queue. *)
UpKeepsQueued(t) ==
  /\ Critical(t, "in_up")
  /\ IF destroy
       THEN Goto(t, "user") /\ UNCHANGED <<value, wait_queue, wake, ups>>
       ELSE /\ value' = value + 1
            /\ ups' = ups + 1
            /\ wake' = [wake EXCEPT ![t] = QItem(QHead(wait_queue))]
            /\ wait_queue' = QHead(wait_queue)
            /\ Goto(t, "up_awake")
  /\ UNCHANGED <<status, sleeping, left, queueVars, current, remaining, cont,
                 loopVars, destroy, downs>>

(* sem_up up to spin_unlock. *)
Up(t) ==
  /\ Critical(t, "in_up")
  /\ IF destroy
       THEN Goto(t, "user") /\ UNCHANGED <<value, wait_queue, wake, ups>>
       ELSE LET q == QHead(wait_queue)
                w == QItem(q)
            IN  /\ value' = value + 1
                /\ ups' = ups + 1
                /\ wake' = [wake EXCEPT ![t] = w]
                /\ wait_queue' = IF w = NULL THEN q ELSE QDel(q, w)
                /\ Goto(t, "up_awake")
  /\ UNCHANGED <<status, sleeping, left, queueVars, current, remaining, cont,
                 loopVars, destroy, downs>>

(* task_awake of the local pointer, which may be NULL. *)
AwakeLocal(t) ==
  IF wake[t] = NULL
    THEN UNCHANGED <<status, sleeping, queueVars>>
    ELSE /\ AwakeTask(wake[t])
         /\ suspended' = AwakeSuspended(wake[t])
         /\ sleepers' = AwakeSleepers(wake[t])

(* sem_up after spin_unlock. *)
UpAwake(t) ==
  /\ At(t, "up_awake")
  /\ AwakeLocal(t)
  /\ wake' = [wake EXCEPT ![t] = NULL]
  /\ Goto(t, "user")
  /\ UNCHANGED <<left, current, remaining, cont, loopVars, lock, value, destroy,
                 wait_queue, ups, downs>>

(* The local pointer to the head: the loop of sem_destroy goes on or ends. *)
TakeHead(t, q) ==
  /\ wait_queue' = QHead(q)
  /\ wake' = [wake EXCEPT ![t] = QItem(QHead(q))]
  /\ Goto(t, IF QItem(QHead(q)) = NULL THEN "user" ELSE "destroy_turn")

(* sem_destroy up to its loop. *)
Destroy(t) ==
  /\ Critical(t, "in_destroy")
  /\ destroy' = TRUE
  /\ TakeHead(t, wait_queue)
  /\ UNCHANGED <<status, sleeping, left, queueVars, current, remaining, cont,
                 loopVars, value, ups, downs>>

(* Mutant: the loop releases one task only. *)
DestroyOnce(t) ==
  /\ Critical(t, "in_destroy_turn")
  /\ AwakeLocal(t)
  /\ wait_queue' = QDel(wait_queue, wake[t])
  /\ wake' = [wake EXCEPT ![t] = NULL]
  /\ Goto(t, "user")
  /\ UNCHANGED <<left, current, remaining, cont, loopVars, value, destroy, ups, downs>>

(* Mutant: the task is taken off the wait queue and not awoken. *)
DestroyAwakesNobody(t) ==
  /\ Critical(t, "in_destroy_turn")
  /\ TakeHead(t, QDel(wait_queue, wake[t]))
  /\ UNCHANGED <<status, sleeping, left, queueVars, current, remaining, cont,
                 loopVars, value, destroy, ups, downs>>

(* One turn of the loop; queue_del fails quietly when another sem_destroy *)
(* has taken the task off the queue in the meantime.                      *)
DestroyTurn(t) ==
  /\ Critical(t, "in_destroy_turn")
  /\ AwakeLocal(t)
  /\ TakeHead(t, QDel(wait_queue, wake[t]))
  /\ UNCHANGED <<left, current, remaining, cont, loopVars, value, destroy, ups, downs>>

CallStep(t) ==
  \/ TaskSuspend(t) /\ UNCHANGED semVars
  \/ Lock(t)
  \/ Down(t)
  \/ DownReturn(t)
  \/ Up(t)
  \/ UpAwake(t)
  \/ Destroy(t)
  \/ DestroyTurn(t)

UpsBegun == ups + Cardinality({t \in Tasks : pc[t] \in {"up", "in_up"}})

UserStep(t) ==
  \/ Yield(t) /\ UNCHANGED semVars
  \/ /\ t # Disk
     /\ \/ \E new \in Tasks : Create(t, new)
        \/ Call(t, "down")
        \/ UpsBegun < MaxUps /\ Call(t, "up")
        \/ Call(t, "destroy")

Loop   == KernelStep(0) /\ UNCHANGED semVars
Run(t) == Dispatch(t, 0) /\ UNCHANGED semVars
Timer  == Tick /\ UNCHANGED semVars
Off    == Halted /\ UNCHANGED vars

Next ==
  \/ Loop
  \/ Timer
  \/ \E t \in Tasks : Run(t) \/ UserStep(t) \/ CallStep(t)
  \/ Off

(* As in module Dispatcher. *)
Fairness ==
  /\ WF_vars(Loop)
  /\ SF_vars(Timer)
  /\ \A t \in Tasks : WF_vars(CallStep(t)) /\ SF_vars(Run(t))

Spec == Init /\ [][Next]_vars
FairSpec == Spec /\ Fairness

(***************************************************************************)
(* Correctness.                                                            *)
(***************************************************************************)

(* The task is in sem_down, past the point where it joined the queue. *)
Blocked(t) == pc[t] \in {"down_ret", "in_down_ret"} \/ (pc[t] \in SuspendPC)

(* A semaphore of value n lets at most n more tasks through sem_down than  *)
(* sem_up was called, whoever loses the processor inside a call: no task   *)
(* that was blocked comes out without a permit of its own.                 *)
NeverOversold == downs <= Initial + ups

(* A negative value counts the tasks of the wait queue. *)
ValueCountsWaiters ==
  ~ destroy => QSize(wait_queue) = IF value < 0 THEN -value ELSE 0

(* The critical sections exclude each other, and the lock is free whenever *)
(* nobody is in one: no return path of a call leaves it taken.             *)
LockIsExclusive ==
  LET inside == {t \in Tasks : pc[t] \in CriticalPC}
  IN  Cardinality(inside) = IF lock THEN 1 ELSE 0

(* "destroi um semaforo, liberando recursos e tarefas bloqueadas"          *)
(* (semaphore.h): once sem_destroy is over nobody is left suspended by     *)
(* sem_down.                                                               *)
DestroyReleases ==
  destroy /\ (\A u \in Tasks : pc[u] \notin {"destroy", "in_destroy", "destroy_turn",
                                           "in_destroy_turn", "up_awake"})
    => \A t \in Tasks : Blocked(t) /\ current # t => status[t] # "SUSPENDED"

(* The semaphore as its callers see it: the permits nobody has, the queue, *)
(* and where each of them is.                                              *)
Permits == IF destroy \/ value < 0 THEN 0 ELSE value

CallerState(t) == CASE QHas(wait_queue, t) -> "waiting"
                    [] Blocked(t) /\ ~ QHas(wait_queue, t) -> "let go"
                    [] OTHER -> "out"

CallerStates == [t \in Tasks |-> CallerState(t)]

Abstract == INSTANCE CountingSemaphore WITH
  Callers <- Tasks,
  permits <- Permits,
  queue   <- wait_queue.items,
  closed  <- destroy,
  caller  <- CallerStates

(* Every step is a step of the abstract semaphore or none: blocked tasks   *)
(* are let go in order of arrival, one for each sem_up, and all of them    *)
(* after sem_destroy.                                                      *)
Implements == Abstract!Spec

(* A task that was let go, by sem_up or by sem_destroy, returns from       *)
(* sem_down.                                                               *)
LetGoReturns ==
  \A t \in Tasks : Blocked(t) /\ ~ QHas(wait_queue, t) ~> pc[t] = "user"

(***************************************************************************)
(* The inductive invariant that the safety properties and the refinement   *)
(* rest on.                                                                *)
(***************************************************************************)

(* The task is on its way to its suspension in sem_down, or switched out   *)
(* there and not awoken: it cannot come back from sem_down yet.            *)
Held(t) ==
  \/ pc[t] \in SuspendPC
  \/ pc[t] = "down_ret" /\ current # t /\ t \notin ToSet(ready)

(* A task that runs, or is ready, has been created and is not suspended,   *)
(* but for the disk manager, which begins ready and suspended.             *)
RunInv ==
  /\ IsInjective(ready)
  /\ current \notin ToSet(ready)
  /\ current \in Tasks => Created(current)
  /\ \A t \in ToSet(ready) : Created(t) /\ (t # Disk => status[t] = "READY")

(* Who is in the suspended queue is in sem_down, and has not been awoken. *)
CallInv ==
  /\ pc[Disk] = "user"
  /\ IsInjective(suspended.items)
  /\ \A t \in ToSet(suspended.items) \ {Disk} :
       pc[t] = "switch" \/ (Held(t) /\ pc[t] = "down_ret")
  /\ sleepers = EmptyQueue
  /\ \A t \in Tasks : /\ ~ sleeping[t]
                      /\ pc[t] \in SuspendPC => cont[t] = "down_ret"

(* LockIsExclusive, without the cardinality. *)
LockInv ==
  /\ \A t, u \in Tasks : pc[t] \in CriticalPC /\ pc[u] \in CriticalPC => t = u
  /\ lock <=> \E t \in Tasks : pc[t] \in CriticalPC

(* Who waits cannot come back, and a negative value counts them. *)
WaitInv ==
  /\ IsInjective(wait_queue.items)
  /\ \A t \in ToSet(wait_queue.items) : Held(t)
  /\ ValueCountsWaiters

(* The pointer of sem_up is to a task that nobody else can awake; the ones *)
(* of sem_destroy may be stale, but never to a task in the middle of the   *)
(* queue.                                                                  *)
WakeInv ==
  \A u \in Tasks :
    wake[u] # NULL =>
      /\ wake[u] \notin {u, Disk}
      /\ Created(wake[u])
      /\ \/ pc[u] = "up_awake" /\ ~ QHas(wait_queue, wake[u])
         \/ /\ pc[u] \in {"destroy_turn", "in_destroy_turn"}
            /\ destroy
            /\ QHas(wait_queue, wake[u]) => wake[u] = Head(wait_queue.items)
      /\ ~ destroy => Held(wake[u]) /\ \A v \in Tasks : wake[v] = wake[u] => v = u

(* Every permit is free, taken, or owed to a blocked task. *)
CountInv ==
  /\ value + downs + Cardinality({t \in Tasks : Blocked(t)}) = Initial + ups
  /\ UpsBegun <= MaxUps
  /\ NeverOversold

(* The loop of sem_destroy runs on a destroyed semaphore. *)
ClosedInv ==
  \A t \in Tasks : pc[t] \in {"destroy_turn", "in_destroy_turn"} => destroy

IInv == TypeOK /\ RunInv /\ CallInv /\ LockInv /\ WaitInv /\ WakeInv /\ CountInv
          /\ ClosedInv

(***************************************************************************)
(* What DestroyReleases rests on beside IInv, where no quantum ends inside *)
(* a call.                                                                 *)
(***************************************************************************)

(* Only the running task is inside a call; the others have suspended. *)
AtomicInv ==
  /\ current \in Tasks => kpc = "run"
  /\ \A t \in Tasks : pc[t] \notin {"none", "user", "down_ret"} => current = t

Suspended(t) ==
  pc[t] \in SuspendPC \/ (pc[t] = "down_ret" /\ current # t /\ status[t] = "SUSPENDED")

(* Who is suspended is still queued, or sem_up is about to awake it; the   *)
(* loop of sem_destroy leaves no queue behind.                             *)
OwedInv ==
  /\ \A t \in Tasks :
       Suspended(t) => \/ QHas(wait_queue, t)
                       \/ \E u \in Tasks : pc[u] = "up_awake" /\ wake[u] = t
  /\ destroy /\ (\A u \in Tasks : pc[u] \notin {"destroy_turn", "in_destroy_turn"})
       => wait_queue.items = << >>
=============================================================================
