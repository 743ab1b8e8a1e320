----------------------------- MODULE Dispatcher -----------------------------
(***************************************************************************)
(* The task calls of kernel/dispatcher.c and kernel/task.c on top of the   *)
(* Kernel module: task_create, task_yield, task_wait, task_sleep and       *)
(* task_exit, run by any number of tasks under the timer.  The disk        *)
(* manager of kernel/block.c is present as the task it is when no request  *)
(* is pending: one that yields for ever, which is what the dispatcher's    *)
(* loop condition (more than one ready task) counts on.                    *)
(***************************************************************************)
EXTENDS Kernel

CONSTANTS Codes,     \* exit codes, different from the 0 of a fresh TCB
          MayWait    \* <<t, u>>: t may call task_wait(u)

ASSUME DispatcherAssumption ==
  /\ Codes \subseteq Int \ {0}
  /\ MayWait \subseteq Tasks \X (Tasks \ {Disk})

VARIABLES
  target,      \* TCB target_to_wait
  targetCode,  \* TCB target_exit_code
  exitCode,    \* TCB exit_code
  aux          \* local aux_task of each task's task_exit

waitVars == <<target, targetCode, exitCode, aux>>
vars == <<kernelVars, waitVars>>

ExitPC == {"exit_head", "exit_scan"}
DispatcherPC == {"none", "user", "wait_ret", "sleep_ret", "gone"}
                  \cup SuspendPC \cup ExitPC
DispatcherCont == {"user", "wait_ret", "sleep_ret"}

WaitTypeOK ==
  /\ target \in [Tasks -> Tasks \cup {TaskKernel}]
  /\ targetCode \in [Tasks -> Int]
  /\ exitCode \in [Tasks -> Int]
  /\ aux \in [Tasks -> Tasks \cup {NULL}]

TypeOK ==
  /\ TcbTypeOK
  /\ QueuesTypeOK
  /\ CpuTypeOK
  /\ PcTypeOK(DispatcherPC, DispatcherCont)
  /\ WaitTypeOK

Init ==
  /\ KernelInit
  /\ target = [t \in Tasks |-> TaskKernel]   \* target_to_wait = 0, the kernel's id
  /\ targetCode = [t \in Tasks |-> 0]
  /\ exitCode = [t \in Tasks |-> 0]
  /\ aux = [t \in Tasks |-> NULL]

(* The disk manager makes none of the calls below but task_yield. *)
Caller == Tasks \ {Disk}

Create(t, new) == TaskCreate(t, new) /\ UNCHANGED waitVars

(* task_wait.  On a FINISHED task it returns the exit code at once and     *)
(* changes nothing; otherwise it records the target and suspends.          *)
Wait(t, u) ==
  /\ At(t, "user")
  /\ <<t, u>> \in MayWait
  /\ Created(u)
  /\ status[u] # "FINISHED"
  /\ target' = [target EXCEPT ![t] = u]
  /\ cont' = [cont EXCEPT ![t] = "wait_ret"]
  /\ Goto(t, "suspend")
  /\ UNCHANGED <<status, sleeping, left, queueVars, current, remaining,
                 loopVars, targetCode, exitCode, aux>>

(* task_sleep. *)
Sleep(t, d) ==
  /\ At(t, "user")
  /\ sleeping' = [sleeping EXCEPT ![t] = TRUE]
  /\ left' = [left EXCEPT ![t] = d]
  /\ cont' = [cont EXCEPT ![t] = "sleep_ret"]
  /\ Goto(t, "suspend")
  /\ UNCHANGED <<status, queueVars, current, remaining, loopVars, waitVars>>

(* The waiter, or the sleeper, runs again and its call returns. *)
Return(t) ==
  /\ current = t
  /\ pc[t] \in {"wait_ret", "sleep_ret"}
  /\ Goto(t, "user")
  /\ UNCHANGED <<status, sleeping, left, queueVars, current, remaining, cont,
                 loopVars, waitVars>>

(* task_exit: the fields, then the walk over the suspended tasks. *)
Exit(t, code) ==
  /\ At(t, "user")
  /\ status' = [status EXCEPT ![t] = "FINISHED"]
  /\ exitCode' = [exitCode EXCEPT ![t] = code]
  /\ Goto(t, "exit_head")
  /\ UNCHANGED <<sleeping, left, queueVars, current, remaining, cont, loopVars,
                 target, targetCode, aux>>

ExitHead(t) ==
  /\ At(t, "exit_head")
  /\ suspended' = QHead(suspended)
  /\ aux' = [aux EXCEPT ![t] = QItem(suspended')]
  /\ Goto(t, "exit_scan")
  /\ UNCHANGED <<status, sleeping, left, ready, sleepers, current, remaining,
                 cont, loopVars, target, targetCode, exitCode>>

(* Mutant: every suspended task is awoken, whoever it waits for. *)
ExitAwakesAll(t, w) ==
  /\ At(t, "exit_scan")
  /\ aux[t] = w
  /\ targetCode' = [targetCode EXCEPT ![w] = exitCode[t]]
  /\ AwakeTask(w)
  /\ sleepers' = AwakeSleepers(w)
  /\ suspended' = QNext(AwakeSuspended(w))
  /\ aux' = [aux EXCEPT ![t] = QItem(suspended')]
  /\ UNCHANGED <<left, current, remaining, pc, cont, loopVars, target, exitCode>>

(* Mutant: the waiter gets its code and is not awoken. *)
ExitAwakesNobody(t, w) ==
  /\ At(t, "exit_scan")
  /\ aux[t] = w
  /\ targetCode' = IF target[w] = t THEN [targetCode EXCEPT ![w] = exitCode[t]]
                                    ELSE targetCode
  /\ suspended' = QNext(suspended)
  /\ aux' = [aux EXCEPT ![t] = QItem(suspended')]
  /\ UNCHANGED <<status, sleeping, ready, sleepers, left, current, remaining, pc,
                 cont, loopVars, target, exitCode>>

(* Mutant: the waiter is awoken and does not get its code. *)
ExitForgetsCode(t, w) ==
  /\ At(t, "exit_scan")
  /\ aux[t] = w
  /\ IF target[w] = t
       THEN /\ AwakeTask(w)
            /\ sleepers' = AwakeSleepers(w)
            /\ suspended' = QNext(AwakeSuspended(w))
       ELSE /\ suspended' = QNext(suspended)
            /\ UNCHANGED <<status, sleeping, ready, sleepers>>
  /\ aux' = [aux EXCEPT ![t] = QItem(suspended')]
  /\ UNCHANGED <<left, current, remaining, pc, cont, loopVars, target, targetCode,
                 exitCode>>

(* One turn of the walk: a waiter of t gets its code and is awoken. *)
ExitScan(t, w) ==
  /\ At(t, "exit_scan")
  /\ aux[t] = w
  /\ IF target[w] = t
       THEN /\ targetCode' = [targetCode EXCEPT ![w] = exitCode[t]]
            /\ AwakeTask(w)
            /\ sleepers' = AwakeSleepers(w)
            /\ suspended' = QNext(AwakeSuspended(w))
       ELSE /\ suspended' = QNext(suspended)
            /\ UNCHANGED <<targetCode, status, sleeping, ready, sleepers>>
  /\ aux' = [aux EXCEPT ![t] = QItem(suspended')]
  /\ UNCHANGED <<left, current, remaining, pc, cont, loopVars, target, exitCode>>

(* Mutant: task_exit gives the processor up with task_yield. *)
ExitYields(t) ==
  /\ At(t, "exit_scan")
  /\ aux[t] = NULL
  /\ pc' = [pc EXCEPT ![t] = "gone"]
  /\ status' = [status EXCEPT ![t] = "READY"]
  /\ ready' = Append(ready, t)
  /\ SwitchToKernel
  /\ UNCHANGED <<sleeping, left, suspended, sleepers, cont, loopVars, waitVars>>

(* The walk is over: t goes to the finished queue and never runs again. *)
ExitDone(t) ==
  /\ At(t, "exit_scan")
  /\ aux[t] = NULL
  /\ Goto(t, "gone")
  /\ SwitchToKernel
  /\ UNCHANGED <<status, sleeping, left, queueVars, cont, loopVars, waitVars>>

(* The steps a task takes inside a call it has already made. *)
CallStep(t) ==
  \/ TaskSuspend(t) /\ UNCHANGED waitVars
  \/ Return(t)
  \/ ExitHead(t)
  \/ \E w \in Tasks : ExitScan(t, w)
  \/ ExitDone(t)

(* The calls a task may make. *)
UserStep(t) ==
  \/ Yield(t) /\ UNCHANGED waitVars
  \/ /\ t \in Caller
     /\ \/ \E new \in Tasks : Create(t, new)
        \/ \E u \in Tasks : Wait(t, u)
        \/ \E d \in 0..MaxSleep : Sleep(t, d)
        \/ \E code \in Codes : Exit(t, code)

Loop   == KernelStep(0) /\ UNCHANGED waitVars
Run(t) == Dispatch(t, 0) /\ UNCHANGED waitVars
Timer  == Tick /\ UNCHANGED waitVars

Off == Halted /\ UNCHANGED vars

Next ==
  \/ Loop
  \/ Timer
  \/ \E t \in Tasks : Run(t) \/ UserStep(t) \/ CallStep(t)
  \/ Off

(* The processor executes, the timer ticks, and no ready task is passed    *)
(* over for ever (module Scheduler).  No task has to leave its own code.   *)
Fairness ==
  /\ WF_vars(Loop)
  /\ SF_vars(Timer)
  /\ \A t \in Tasks : WF_vars(CallStep(t)) /\ SF_vars(Run(t))

Spec == Init /\ [][Next]_vars
FairSpec == Spec /\ Fairness

(***************************************************************************)
(* Correctness.                                                            *)
(***************************************************************************)

Waiting(t)  == QHas(suspended, t) /\ t # Disk
Asleep(t)   == QHas(sleepers, t)
Ready(t)    == t \in ToSet(ready)
InWait(t)   == cont[t] = "wait_ret" /\ pc[t] \in SuspendPC \cup {"wait_ret"}
Exited(t)   == pc[t] \in {"exit_scan", "gone"}

(* "we have the guarantee that the task executing this function only       *)
(* returned after task has finished" (dispatcher.c, task_wait): a task that *)
(* comes back from its suspension there finds its target finished for good, *)
(* off the processor and out of every queue, and returns its exit code.    *)
WaitGuarantee ==
  \A t \in Tasks :
    At(t, "wait_ret") => /\ pc[target[t]] = "gone"
                         /\ targetCode[t] = exitCode[target[t]]

(* What is left of that when a quantum ends inside task_exit: the target   *)
(* has called it and its walk has begun, and the code the waiter is about  *)
(* to return is the one it passed.  The target may be ready again, with    *)
(* the rest of its exit still to run.                                      *)
CodeDelivered ==
  \A t \in Tasks :
    At(t, "wait_ret") => /\ Exited(target[t])
                         /\ targetCode[t] = exitCode[target[t]]

(* task_sleep(t) does not return before t ticks have gone by. *)
NoEarlyWake == \A t \in Tasks : At(t, "sleep_ret") => left[t] = 0

(* The two assertions of task_awake: a suspended task is found in the one  *)
(* queue its sleeping flag names, whoever awakes it.                       *)
AwakeAsserts ==
  \A t \in Tasks :
    status[t] = "SUSPENDED" /\ current # t =>
      IF sleeping[t] THEN Asleep(t) ELSE QHas(suspended, t)

(* No task is lost and none is queued twice: a task that has not finished  *)
(* runs, is ready, waits or sleeps.  Only one preempted inside             *)
(* task_suspend is in two places, and a finished task is in none.          *)
Placement ==
  /\ IsInjective(ready) /\ IsInjective(suspended.items) /\ IsInjective(sleepers.items)
  /\ \A t \in Tasks \ {Disk} :
       LET places == Cardinality({p \in {"run", "ready", "wait", "sleep"} :
                         \/ p = "run"   /\ current = t
                         \/ p = "ready" /\ Ready(t)
                         \/ p = "wait"  /\ Waiting(t)
                         \/ p = "sleep" /\ Asleep(t)})
       IN  CASE ~ Created(t) \/ pc[t] = "gone" -> places = 0
             [] pc[t] = "switch"               -> places = 2
             [] OTHER                          -> places = 1

(* assert("should't be here"): a task never hands the processor back while *)
(* its status says that it is running.                                     *)
NeverAborts == kpc # "aborted"

(* "a tarefa atual fica suspensa aguardando que a tarefa indicada termine" *)
(* (dispatcher.h): nobody is left suspended for a task that has finished.  *)
NoStrandedWaiter ==
  \A t \in Tasks \ {Disk} :
    InWait(t) /\ Waiting(t) /\ status[t] = "SUSPENDED" =>
      target[t] \in Tasks /\ pc[target[t]] # "gone"

(* The machine is powered off only when nobody but the disk manager could  *)
(* ever run again: the rest has finished or waits for a task that does not *)
(* run.                                                                    *)
StopIsQuiet ==
  kpc = "stopped" => \A t \in Tasks \ {Disk} :
                       Created(t) /\ pc[t] # "gone" => Waiting(t)

(* A task that has switched away from task_exit never gets the processor   *)
(* again and never comes back into a queue, whoever walks over the queues  *)
(* or awakes, and it keeps its status and its exit code.                   *)
FinishedForGood ==
  [][\A t \in Tasks : pc[t] = "gone" =>
       /\ current' # t
       /\ ~ Ready(t)' /\ ~ Waiting(t)' /\ ~ Asleep(t)'
       /\ status'[t] = status[t] /\ exitCode'[t] = exitCode[t]]_vars

(* A sleeping task comes back from task_sleep, whatever the others do. *)
SleeperWakes == \A t \in Tasks : Asleep(t) ~> At(t, "sleep_ret")

(* A waiter comes back once its target has finished. *)
WaiterReturns ==
  \A t, u \in Tasks :
    InWait(t) /\ target[t] = u /\ pc[u] = "gone" ~> At(t, "wait_ret")

(***************************************************************************)
(* The inductive invariant that CodeDelivered, NoEarlyWake and             *)
(* AwakeAsserts rest on.                                                   *)
(***************************************************************************)

Active(t)    == current = t \/ Ready(t)
Delivered(t) == Exited(target[t]) /\ targetCode[t] = exitCode[target[t]]

(* The running task is the one the dispatcher's loop selected. *)
CpuInv ==
  /\ current \in Tasks => kpc = "run" /\ nextTask = current
  /\ kpc = "run" => nextTask \in Tasks

(* The disk manager only runs and yields; the entry block_init made for it *)
(* in the suspended queue stays.                                           *)
DiskInv ==
  /\ pc[Disk] = "user"
  /\ cont[Disk] = "user"
  /\ target[Disk] = TaskKernel
  /\ ~ sleeping[Disk]
  /\ QHas(suspended, Disk)

ReadyInv ==
  /\ IsInjective(ready)
  /\ \A t \in Tasks : Ready(t) => current # t /\ (status[t] = "READY" \/ t = Disk)
  /\ \A t \in Tasks : Active(t) => pc[t] \notin {"none", "gone"}

(* A task inside a call runs or is ready, and has suspended itself in the  *)
(* queue it comes back from.                                               *)
CallInv ==
  \A t \in Tasks :
    /\ pc[t] \in SuspendPC \cup ExitPC => Active(t)
    /\ pc[t] \in SuspendPC => cont[t] \in {"wait_ret", "sleep_ret"}
    /\ pc[t] \in {"wait_ret", "sleep_ret"} => cont[t] = pc[t]
    /\ pc[t] = "switch" => IF cont[t] = "sleep_ret" THEN Asleep(t) ELSE Waiting(t)

(* Only a task inside the call of the queue is in it, and it leaves the    *)
(* queue when it is made ready.                                            *)
SuspendedInv ==
  /\ IsInjective(suspended.items)
  /\ \A t \in Tasks : Waiting(t) =>
       /\ cont[t] = "wait_ret"
       /\ pc[t] = "switch" \/ (pc[t] = "wait_ret" /\ ~ Active(t))

SleepersInv ==
  /\ IsInjective(sleepers.items)
  /\ \A t \in Tasks : Asleep(t) =>
       /\ cont[t] = "sleep_ret"
       /\ pc[t] = "switch" \/ (pc[t] = "sleep_ret" /\ ~ Active(t))

(* The status SUSPENDED and the sleeping flag say where the task is. *)
StatusOf(t) ==
  /\ status[t] = "SUSPENDED" /\ t # Disk =>
       \/ current = t /\ pc[t] \in {"enqueue", "switch"}
       \/ pc[t] = "wait_ret" /\ Waiting(t)
       \/ pc[t] = "sleep_ret" /\ Asleep(t)
  /\ cont[t] = "sleep_ret" /\ pc[t] \in SuspendPC => sleeping[t]
  /\ Asleep(t) => sleeping[t]
  /\ sleeping[t] => /\ cont[t] = "sleep_ret"
                    /\ pc[t] \in SuspendPC \/ (pc[t] = "sleep_ret" /\ ~ Active(t))

StatusInv == \A t \in Tasks : StatusOf(t)

(* A waiter is made ready by the exit of its target, which has moved on. *)
WaitInv ==
  \A t \in Tasks :
    /\ InWait(t) => target[t] \in Tasks
    /\ pc[t] = "wait_ret" /\ Active(t) => Delivered(t)

AuxInv ==
  \A t, u \in Tasks :
    aux[u] = t /\ target[t] = u => InWait(t) /\ ~ (pc[t] = "wait_ret" /\ Active(t))

(* A sleeper is made ready by the clock. *)
SleepInv == \A t \in Tasks : pc[t] = "sleep_ret" /\ Active(t) => left[t] = 0

IInv ==
  /\ TypeOK
  /\ CpuInv
  /\ DiskInv
  /\ ReadyInv
  /\ CallInv
  /\ SuspendedInv
  /\ SleepersInv
  /\ StatusInv
  /\ WaitInv
  /\ AuxInv
  /\ SleepInv

(***************************************************************************)
(* What Placement, StopIsQuiet and, where no quantum ends inside a call,   *)
(* WaitGuarantee, NeverAborts and NoStrandedWaiter rest on beside IInv.    *)
(***************************************************************************)

(* Nobody is lost: who neither runs nor is ready is in one of the queues.  *)
PlaceInv ==
  /\ Active(Disk)
  /\ \A t \in Tasks : Created(t) /\ pc[t] # "gone" => Active(t) \/ Waiting(t) \/ Asleep(t)

(* The dispatcher stopped because there was nothing more to do. *)
StoppedInv == kpc = "stopped" => ~ MoreWork(0)

(* Without preemption a task leaves the calls it may not be found in before *)
(* another one runs, and its status is the one the call gave it.            *)
AtomicInv ==
  /\ \A t \in Tasks :
       /\ pc[t] \in SuspendPC \cup ExitPC => current = t
       /\ pc[t] \in {"enqueue", "switch"} \/ Waiting(t) => status[t] = "SUSPENDED"
       /\ pc[t] \in ExitPC \cup {"gone"} => status[t] = "FINISHED"
  /\ kpc = "run" /\ current = TaskKernel => status[nextTask] # "RUNNING"
  /\ kpc # "aborted"

(* A waiter that nobody has let go. *)
Held(t) == InWait(t) /\ ~ (pc[t] = "wait_ret" /\ Active(t))

(* The walk over the suspended tasks has t at its iterator or further on. *)
Ahead(t) ==
  /\ suspended.it > 0
  /\ \E i \in suspended.it..QSize(suspended) : suspended.items[i] = t

(* The target of a waiter that is held may still let it go: the walk of    *)
(* its exit has not begun, or has still to come to the waiter.             *)
HeldInv ==
  /\ \A t \in Tasks : Held(t) =>
       /\ <<t, target[t]>> \in MayWait
       /\ pc[target[t]] \notin {"none", "gone"}
       /\ pc[target[t]] = "exit_scan" => Ahead(t)
  /\ \A u \in Tasks : pc[u] = "exit_scan" => aux[u] = QItem(suspended)
=============================================================================
