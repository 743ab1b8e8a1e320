------------------------------- MODULE Kernel -------------------------------
(***************************************************************************)
(* What every blocking service of the system is built from: the task       *)
(* control blocks, the queues of kernel/dispatcher.c, the dispatcher loop, *)
(* task_yield, task_suspend, task_awake and the timer tick.  The module    *)
(* declares the shared variables and the actions on them; Dispatcher,      *)
(* Semaphore and BlockDriver add the calls of a service and state a        *)
(* specification.                                                          *)
(*                                                                         *)
(* There is one processor, so exactly one of the kernel and the tasks      *)
(* executes (`current', the source's current_active_task).  pc[t] is the   *)
(* point of the kernel call task t is at, "user" outside any call; kpc is  *)
(* the point the dispatcher loop is at.  A tick may end the quantum of the *)
(* running task between any two steps when KernelPreemption is TRUE, and   *)
(* only while the task is in its own code when it is FALSE: the code never *)
(* masks the timer, so FALSE is the assumption that no quantum ends inside *)
(* a kernel call.  Queue operations and task_awake are single steps.       *)
(***************************************************************************)
EXTENDS Queue

CONSTANTS Tasks,             \* the TCBs the program may ever create
          Disk,              \* task_disk_handler, created by block_init
          User,              \* the first task, that runs user_main
          TaskKernel,        \* task_kernel
          QUANTUM,           \* ticks in a quantum
          MaxSleep,          \* bound on the argument of task_sleep
          KernelPreemption   \* may a quantum end inside a kernel call?

ASSUME KernelAssumption ==
  /\ {Disk, User} \subseteq Tasks
  /\ Disk # User
  /\ TaskKernel \notin Tasks
  /\ NULL \notin Tasks
  /\ QUANTUM \in Nat \ {0}
  /\ MaxSleep \in Nat
  /\ KernelPreemption \in BOOLEAN

VARIABLES
  status,      \* TCB status
  sleeping,    \* TCB sleeping flag
  left,        \* TCB wake_up_time minus clock, 0 once it is past
  ready,       \* ready_queue; its iterator is reset before every use
  suspended,   \* suspended_queue
  sleepers,    \* sleeping_queue
  current,     \* current_active_task
  remaining,   \* remaining_quantum_time of the running task
  pc,          \* where each task is
  cont,        \* where each task continues when task_suspend returns
  kpc,         \* where the dispatcher is: "loop", "run", "scan" or halted
  nextTask     \* the dispatcher's next_task while a task runs

queueVars  == <<ready, suspended, sleepers>>
loopVars   == <<kpc, nextTask>>
kernelVars == <<status, sleeping, left, ready, suspended, sleepers, current,
                remaining, pc, cont, kpc, nextTask>>

Status     == {"READY", "RUNNING", "SUSPENDED", "FINISHED"}
KernelPC   == {"loop", "run", "scan", "stopped", "aborted"}
SuspendPC  == {"suspend", "enqueue", "switch"}

TcbTypeOK ==
  /\ status \in [Tasks -> Status]
  /\ sleeping \in [Tasks -> BOOLEAN]
  /\ left \in [Tasks -> 0..MaxSleep]

QueuesTypeOK ==
  /\ ready \in Seq(Tasks)
  /\ suspended \in QueueOf(Tasks)
  /\ sleepers \in QueueOf(Tasks)

CpuTypeOK ==
  /\ current \in Tasks \cup {TaskKernel}
  /\ remaining \in 1..QUANTUM
  /\ kpc \in KernelPC
  /\ nextTask \in Tasks \cup {NULL}

(* The labels of pc and cont depend on the calls the tasks make. *)
PcTypeOK(labels, conts) ==
  /\ pc \in [Tasks -> labels]
  /\ cont \in [Tasks -> conts]

(* ppos_start and the task_create of dispatcher(): the disk manager and the *)
(* first task exist.                                                        *)
TcbInit ==
  /\ status   = [t \in Tasks |-> IF t = Disk THEN "SUSPENDED" ELSE "READY"]
  /\ sleeping = [t \in Tasks |-> FALSE]
  /\ left     = [t \in Tasks |-> 0]
  /\ pc       = [t \in Tasks |-> IF t \in {Disk, User} THEN "user" ELSE "none"]
  /\ cont     = [t \in Tasks |-> "user"]

(* block_init leaves the disk manager in the ready queue, where task_create *)
(* put it, and in the suspended queue.                                      *)
QueuesInit ==
  /\ ready     = <<Disk, User>>
  /\ suspended = QAdd(EmptyQueue, Disk)
  /\ sleepers  = EmptyQueue

ProcessorInit ==
  /\ current   = TaskKernel
  /\ remaining = QUANTUM
  /\ kpc       = "loop"
  /\ nextTask  = NULL

KernelInit == TcbInit /\ QueuesInit /\ ProcessorInit

Created(t) == pc[t] # "none"

(* Task t, at label l, is the one that executes. *)
At(t, l) == current = t /\ pc[t] = l

Goto(t, l) == pc' = [pc EXCEPT ![t] = l]

(***************************************************************************)
(* Calls of the running task.                                              *)
(***************************************************************************)

(* task_create: a new TCB, READY, at the end of the ready queue. *)
TaskCreate(t, new) ==
  /\ At(t, "user")
  /\ ~ Created(new)
  /\ Goto(new, "user")
  /\ status' = [status EXCEPT ![new] = "READY"]
  /\ ready' = Append(ready, new)
  /\ UNCHANGED <<sleeping, left, suspended, sleepers, current,
                 remaining, cont, loopVars>>

(* task_switch(&task_kernel), the fields of the quantum given back. *)
SwitchToKernel ==
  /\ current' = TaskKernel
  /\ remaining' = QUANTUM

(* task_yield, called by the task itself or by the timer handler on top of *)
(* whatever the task was doing: it is READY again whatever it was before.  *)
TaskYield(t) ==
  /\ status' = [status EXCEPT ![t] = "READY"]
  /\ ready' = Append(ready, t)
  /\ SwitchToKernel
  /\ UNCHANGED <<sleeping, suspended, sleepers, pc, cont, loopVars>>

Yield(t) ==
  /\ At(t, "user")
  /\ TaskYield(t)
  /\ UNCHANGED left

(* task_suspend in three steps: the status, the queue, the switch. *)
SuspendStatus(t) ==
  /\ At(t, "suspend")
  /\ status' = [status EXCEPT ![t] = "SUSPENDED"]
  /\ Goto(t, "enqueue")
  /\ UNCHANGED <<sleeping, left, queueVars, current, remaining, cont, loopVars>>

SuspendEnqueue(t) ==
  /\ At(t, "enqueue")
  /\ Goto(t, "switch")
  /\ IF cont[t] = "sleep_ret"
       THEN sleepers' = QAdd(sleepers, t) /\ UNCHANGED suspended
       ELSE suspended' = QAdd(suspended, t) /\ UNCHANGED sleepers
  /\ UNCHANGED <<status, sleeping, left, ready, current, remaining, cont, loopVars>>

SuspendSwitch(t) ==
  /\ At(t, "switch")
  /\ Goto(t, cont[t])
  /\ SwitchToKernel
  /\ UNCHANGED <<status, sleeping, left, queueVars, cont, loopVars>>

TaskSuspend(t) == SuspendStatus(t) \/ SuspendEnqueue(t) \/ SuspendSwitch(t)

(* task_awake.  A task that is not SUSPENDED is left alone; the assertions *)
(* on queue_del are the invariant AwakeAsserts.  The queues the task is    *)
(* taken from are given as values, because callers walk them.              *)
AwakeSleepers(t) ==
  IF status[t] = "SUSPENDED" /\ sleeping[t] THEN QDel(sleepers, t) ELSE sleepers

AwakeSuspended(t) ==
  IF status[t] = "SUSPENDED" /\ ~ sleeping[t] THEN QDel(suspended, t) ELSE suspended

(* Mutant: the sleeping flag is never reset. *)
AwakeKeepsFlag(t) ==
  IF status[t] = "SUSPENDED"
    THEN /\ status' = [status EXCEPT ![t] = "READY"]
         /\ ready' = Append(ready, t)
         /\ UNCHANGED sleeping
    ELSE UNCHANGED <<status, sleeping, ready>>

AwakeTask(t) ==
  IF status[t] = "SUSPENDED"
    THEN /\ status' = [status EXCEPT ![t] = "READY"]
         /\ sleeping' = [sleeping EXCEPT ![t] = FALSE]
         /\ ready' = Append(ready, t)
    ELSE UNCHANGED <<status, sleeping, ready>>

(***************************************************************************)
(* The dispatcher loop.                                                    *)
(***************************************************************************)

(* `pending' is queue_size(requests), which only module BlockDriver has: it *)
(* is 0 where no task uses the disk.                                        *)

(* Mutant: sleeping tasks do not keep the loop going. *)
MoreReady(pending) == Len(ready) > 1 \/ pending > 0

(* Mutant: requests do not keep the loop going. *)
MoreTasks(pending) == Len(ready) > 1 \/ QSize(sleepers) > 0

MoreWork(pending) == Len(ready) > 1 \/ QSize(sleepers) > 0 \/ pending > 0

(* Mutant: the task that runs stays in the ready queue. *)
DispatchKeepsReady(t, pending) ==
  /\ kpc = "loop"
  /\ MoreWork(pending)
  /\ t \in ToSet(ready)
  /\ status' = [status EXCEPT ![t] = "RUNNING"]
  /\ current' = t
  /\ remaining' = QUANTUM
  /\ kpc' = "run"
  /\ nextTask' = t
  /\ UNCHANGED <<ready, sleeping, left, suspended, sleepers, pc, cont>>

(* scheduler and task_run.  Which ready task the scheduler selects is left *)
(* open here; module Scheduler has the selection.                          *)
Dispatch(t, pending) ==
  /\ kpc = "loop"
  /\ MoreWork(pending)
  /\ t \in ToSet(ready)
  /\ ready' = RemoveFirst(ready, t)
  /\ status' = [status EXCEPT ![t] = "RUNNING"]
  /\ current' = t
  /\ remaining' = QUANTUM
  /\ kpc' = "run"
  /\ nextTask' = t
  /\ UNCHANGED <<sleeping, left, suspended, sleepers, pc, cont>>

(* Mutant: the walk over the sleepers starts where the last one ended. *)
AfterRunKeepsIterator ==
  /\ kpc = "run"
  /\ current = TaskKernel
  /\ nextTask' = NULL
  /\ kpc' = IF status[nextTask] = "RUNNING" THEN "aborted" ELSE "scan"
  /\ UNCHANGED <<status, sleeping, left, queueVars, current, remaining, pc, cont>>

(* The task came back to the kernel: a RUNNING one fails the assertion,    *)
(* otherwise the walk over the sleepers starts.                            *)
AfterRun ==
  /\ kpc = "run"
  /\ current = TaskKernel
  /\ nextTask' = NULL
  /\ IF status[nextTask] = "RUNNING"
       THEN kpc' = "aborted" /\ UNCHANGED sleepers
       ELSE kpc' = "scan" /\ sleepers' = QHead(sleepers)
  /\ UNCHANGED <<status, sleeping, left, ready, suspended, current, remaining,
                 pc, cont>>

(* A turn with nobody to run, which needs the disk manager suspended. *)
EmptyTurn(pending) ==
  /\ kpc = "loop"
  /\ MoreWork(pending)
  /\ ready = << >>
  /\ kpc' = "scan"
  /\ sleepers' = QHead(sleepers)
  /\ UNCHANGED <<status, sleeping, left, ready, suspended, current, remaining,
                 pc, cont, nextTask>>

(* Mutant: sleepers are awoken whatever the time. *)
ScanIgnoresClock(t) ==
  /\ kpc = "scan"
  /\ t = QItem(sleepers)
  /\ AwakeTask(t)
  /\ suspended' = AwakeSuspended(t)
  /\ sleepers' = QNext(AwakeSleepers(t))
  /\ UNCHANGED <<left, current, remaining, pc, cont, loopVars>>

(* One turn of the walk over the sleepers.  queue_next moves the iterator  *)
(* that queue_del has already moved off the awoken task.                   *)
ScanSleeper(t) ==
  /\ kpc = "scan"
  /\ t = QItem(sleepers)
  /\ IF left[t] = 0
       THEN /\ AwakeTask(t)
            /\ suspended' = AwakeSuspended(t)
            /\ sleepers' = QNext(AwakeSleepers(t))
       ELSE /\ sleepers' = QNext(sleepers)
            /\ UNCHANGED <<status, sleeping, ready, suspended>>
  /\ UNCHANGED <<left, current, remaining, pc, cont, loopVars>>

ScanEnd ==
  /\ kpc = "scan"
  /\ QItem(sleepers) = NULL
  /\ kpc' = "loop"
  /\ UNCHANGED <<status, sleeping, left, queueVars, current, remaining, pc,
                 cont, nextTask>>

(* The loop ends, dispatcher() returns and main powers the machine off. *)
Stop(pending) ==
  /\ kpc = "loop"
  /\ ~ MoreWork(pending)
  /\ kpc' = "stopped"
  /\ UNCHANGED <<status, sleeping, left, queueVars, current, remaining, pc,
                 cont, nextTask>>

KernelStep(pending) ==
  AfterRun \/ EmptyTurn(pending) \/ (\E t \in Tasks : ScanSleeper(t)) \/ ScanEnd
    \/ Stop(pending)

Halted == kpc \in {"stopped", "aborted"}

(***************************************************************************)
(* The timer interrupt.                                                    *)
(***************************************************************************)

CountDown == left' = [t \in Tasks |-> IF left[t] > 0 THEN left[t] - 1 ELSE 0]

MayPreempt(t) == current = t /\ (KernelPreemption \/ pc[t] = "user")

(* A tick while the kernel runs: task_yield has no effect on task_kernel. *)
TickInKernel ==
  /\ ~ Halted
  /\ current = TaskKernel
  /\ CountDown
  /\ UNCHANGED <<status, sleeping, queueVars, current, remaining, pc, cont, loopVars>>

TickInTask(t) ==
  /\ MayPreempt(t)
  /\ remaining > 1
  /\ remaining' = remaining - 1
  /\ CountDown
  /\ UNCHANGED <<status, sleeping, queueVars, current, pc, cont, loopVars>>

(* The tick that ends the quantum calls task_yield. *)
TickPreempts(t) ==
  /\ MayPreempt(t)
  /\ remaining = 1
  /\ CountDown
  /\ TaskYield(t)

Tick == TickInKernel \/ (\E t \in Tasks : TickInTask(t) \/ TickPreempts(t))
=============================================================================
