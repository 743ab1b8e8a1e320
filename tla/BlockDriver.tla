---------------------------- MODULE BlockDriver ----------------------------
(***************************************************************************)
(* kernel/block.c over the task calls of Dispatcher and the virtual disk   *)
(* of hardware/disk.c: block_read and block_write queue a request and      *)
(* suspend, the disk manager gives one request at a time to the disk and   *)
(* suspends until the interrupt, then awakes the caller and takes the      *)
(* request off the queue.                                                  *)
(*                                                                         *)
(* A request lives on the stack of the task that makes it, so a task has   *)
(* one at a time and `requests' holds their tasks.  Reads and writes       *)
(* differ only in the direction of the transfer: both are "busy", and the  *)
(* delay of the disk is any.  The disk takes 30 ms at least, longer than a *)
(* quantum: without KernelPreemption its interrupt does not come while the *)
(* manager is still on its way from the command to its suspension.  The    *)
(* interrupt takes the manager out of the suspended queue, and when a task *)
(* walks over that queue at the time, the walk skips the one behind the    *)
(* manager: InterruptInWalk says whether it may come there.                *)
(***************************************************************************)
EXTENDS Dispatcher

CONSTANTS BadBlocks,       \* may a call name a block the disk does not have?
          InterruptInWalk  \* may the interrupt come inside the walk of task_exit?

ASSUME DriverAssumption ==
  /\ BadBlocks \in BOOLEAN
  /\ InterruptInWalk \in BOOLEAN

VARIABLES
  requests,   \* the queue of requests, whose iterator is never reset
  disk,       \* disk.status
  request,    \* the manager's local `request', by its task
  inRange,    \* the block of each task's request exists
  reply       \* return_value of each task's request, and the fate of its transfer

diskVars   == <<requests, disk, request, inRange, reply>>
driverVars == <<vars, diskVars>>

DiskStatus == {"idle", "busy"}

ManagerPC == {"answer", "dequeue"}
DriverPC == DispatcherPC \cup ManagerPC \cup {"block_ret"}
DriverCont == DispatcherCont \cup {"answer", "block_ret"}

DriverTypeOK ==
  /\ TcbTypeOK
  /\ QueuesTypeOK
  /\ CpuTypeOK
  /\ PcTypeOK(DriverPC, DriverCont)
  /\ WaitTypeOK
  /\ requests \in QueueOf(Tasks)
  /\ disk \in DiskStatus
  /\ request \in Tasks \cup {NULL}
  /\ inRange \in [Tasks -> BOOLEAN]
  /\ reply \in [Tasks -> {"none", "accepted", "done", "error"}]

(* block_init: the disk is initialised, the queue is empty. *)
DriverInit ==
  /\ Init
  /\ requests = EmptyQueue
  /\ disk = "idle"
  /\ request = NULL
  /\ inRange = [t \in Tasks |-> TRUE]
  /\ reply = [t \in Tasks |-> "none"]

(* block_read and block_write up to task_suspend. *)
BlockCall(t) ==
  /\ At(t, "user")
  /\ \E ok \in {TRUE, ~ BadBlocks} : inRange' = [inRange EXCEPT ![t] = ok]
  /\ reply' = [reply EXCEPT ![t] = "none"]
  /\ requests' = QAdd(requests, t)
  /\ cont' = [cont EXCEPT ![t] = "block_ret"]
  /\ Goto(t, "suspend")
  /\ UNCHANGED <<status, sleeping, left, queueVars, current, remaining, loopVars,
                 waitVars, disk, request>>

(* They return request.return_value. *)
BlockReturn(t) ==
  /\ At(t, "block_ret")
  /\ Goto(t, "user")
  /\ UNCHANGED <<status, sleeping, left, queueVars, current, remaining, cont,
                 loopVars, waitVars, diskVars>>

(* Mutant: the manager does not wait for the interrupt. *)
CommandWithoutWait(r) ==
  /\ request' = r
  /\ IF inRange[r] THEN disk' = "busy" /\ reply' = [reply EXCEPT ![r] = "accepted"]
                   ELSE reply' = [reply EXCEPT ![r] = "error"] /\ UNCHANGED disk
  /\ Goto(Disk, "answer")
  /\ cont' = [cont EXCEPT ![Disk] = "answer"]
  /\ UNCHANGED <<status, sleeping, ready, suspended, sleepers, current, remaining,
                 loopVars>>

(* hw_disk_cmd with the request r: a block out of range is refused, and the *)
(* manager suspends all the same.                                           *)
Command(r) ==
  /\ request' = r
  /\ IF inRange[r] THEN disk' = "busy" /\ reply' = [reply EXCEPT ![r] = "accepted"]
                   ELSE reply' = [reply EXCEPT ![r] = "error"] /\ UNCHANGED disk
  /\ Goto(Disk, "suspend")
  /\ cont' = [cont EXCEPT ![Disk] = "answer"]
  /\ UNCHANGED <<status, sleeping, ready, suspended, sleepers, current, remaining,
                 loopVars>>

(* The disk is busy: the manager suspends and then looks again. *)
AwaitDisk ==
  /\ Goto(Disk, "suspend")
  /\ cont' = [cont EXCEPT ![Disk] = "user"]
  /\ UNCHANGED <<status, sleeping, ready, suspended, sleepers, current, remaining,
                 loopVars, disk, request, reply>>

(* A turn of the manager's loop, up to its suspension or yield. *)
ManagerTurn ==
  /\ At(Disk, "user")
  /\ IF disk = "busy"
       THEN AwaitDisk
       ELSE IF QItem(requests) = NULL
              THEN TaskYield(Disk) /\ UNCHANGED <<disk, request, reply>>
              ELSE Command(QItem(requests))
  /\ UNCHANGED <<left, waitVars, requests, inRange>>

(* Awoken, the manager awakes the task of the request. *)
Answer ==
  /\ At(Disk, "answer")
  /\ AwakeTask(request)
  /\ suspended' = AwakeSuspended(request)
  /\ sleepers' = AwakeSleepers(request)
  /\ Goto(Disk, "dequeue")
  /\ UNCHANGED <<left, current, remaining, cont, loopVars, waitVars, diskVars>>

(* Mutant: the iterator is moved on, as in the walks of the dispatcher. *)
DequeueAndNext ==
  /\ At(Disk, "dequeue")
  /\ requests' = QNext(QDel(requests, request))
  /\ Goto(Disk, "user")
  /\ UNCHANGED <<status, sleeping, left, queueVars, current, remaining, cont,
                 loopVars, waitVars, disk, request, inRange, reply>>

(* The request leaves the queue, and the iterator stands on the next one. *)
Dequeue ==
  /\ At(Disk, "dequeue")
  /\ requests' = QDel(requests, request)
  /\ Goto(Disk, "user")
  /\ UNCHANGED <<status, sleeping, left, queueVars, current, remaining, cont,
                 loopVars, waitVars, disk, request, inRange, reply>>

(***************************************************************************)
(* The disk.                                                               *)
(***************************************************************************)

MayInterrupt ==
  /\ KernelPreemption \/ ~ (current = Disk /\ pc[Disk] \in SuspendPC)
  /\ InterruptInWalk \/ \A t \in Tasks : current = t => pc[t] \notin ExitPC

(* Mutant: the handler of the interrupt is not installed. *)
InterruptUnhandled ==
  /\ ~ Halted
  /\ disk = "busy"
  /\ MayInterrupt
  /\ disk' = "idle"
  /\ reply' = [reply EXCEPT ![request] = "done"]
  /\ UNCHANGED <<kernelVars, waitVars, requests, request, inRange>>

(* handle_disk_signal runs on top of whatever runs. *)
AwakeManager ==
  /\ AwakeTask(Disk)
  /\ suspended' = AwakeSuspended(Disk)
  /\ sleepers' = AwakeSleepers(Disk)

(* disk_sighandle transfers the block and raises the interrupt. *)
Interrupt ==
  /\ ~ Halted
  /\ disk = "busy"
  /\ MayInterrupt
  /\ disk' = "idle"
  /\ reply' = [reply EXCEPT ![request] = "done"]
  /\ AwakeManager
  /\ UNCHANGED <<left, current, remaining, pc, cont, loopVars, waitVars,
                 requests, request, inRange>>

(***************************************************************************)
(* The system.                                                             *)
(***************************************************************************)

Pending == QSize(requests)

ManagerStep == ManagerTurn \/ Answer \/ Dequeue

DriverCallStep(t) == (CallStep(t) /\ UNCHANGED diskVars) \/ BlockReturn(t)

DriverUserStep(t) == t \in Caller /\ ((UserStep(t) /\ UNCHANGED diskVars) \/ BlockCall(t))

DriverLoop   == KernelStep(Pending) /\ UNCHANGED <<waitVars, diskVars>>
DriverRun(t) == Dispatch(t, Pending) /\ UNCHANGED <<waitVars, diskVars>>
DriverTimer  == Timer /\ UNCHANGED diskVars

DriverNext ==
  \/ DriverLoop
  \/ DriverTimer
  \/ Interrupt
  \/ ManagerStep
  \/ \E t \in Tasks : DriverRun(t) \/ DriverUserStep(t) \/ DriverCallStep(t)
  \/ Halted /\ UNCHANGED driverVars

(* As in Dispatcher; the disk finishes what it has begun, and the manager  *)
(* is not preempted for ever before the first instruction of its turn.     *)
DriverFairness ==
  /\ WF_driverVars(DriverLoop)
  /\ SF_driverVars(DriverTimer)
  /\ WF_driverVars(Interrupt)
  /\ SF_driverVars(ManagerStep)
  /\ \A t \in Tasks : WF_driverVars(DriverCallStep(t)) /\ SF_driverVars(DriverRun(t))

DriverSpec == DriverInit /\ [][DriverNext]_driverVars
FairDriverSpec == DriverSpec /\ DriverFairness

(***************************************************************************)
(* Correctness.                                                            *)
(***************************************************************************)

InBlock(t) == cont[t] = "block_ret" /\ pc[t] \in SuspendPC \cup {"block_ret"}

(* The disk transfers into the stack and the buffer of a task that is      *)
(* still in its call, and whose request is still queued; block_read and    *)
(* block_write come back only when the transfer is over or was refused.    *)
BufferHeld ==
  /\ disk = "busy" => InBlock(request) /\ QHas(requests, request)
  /\ \A t \in Tasks : At(t, "block_ret") => reply[t] \in {"done", "error"}

(* The manager takes the requests in order of arrival: the iterator that   *)
(* nobody resets stands on the oldest one, or the queue is empty.          *)
OldestFirst == requests.it = IF requests.items = << >> THEN 0 ELSE 1

(* The machine is not powered off under a transfer or a waiting caller. *)
PowerOffAfterTransfers ==
  kpc = "stopped" => disk = "idle" /\ \A t \in Tasks : ~ InBlock(t)

(* Whoever asks for a block gets an answer (block.h, and the tests, which  *)
(* print the error that block_read returns).                               *)
EveryRequestAnswered == \A t \in Tasks : InBlock(t) ~> pc[t] = "user"

(***************************************************************************)
(* The inductive invariant that OldestFirst, BufferHeld and                *)
(* PowerOffAfterTransfers rest on.  The parts from CallsAtomic on hold     *)
(* where no quantum ends inside a kernel call.                             *)
(***************************************************************************)

(* The manager has a request that it has not taken off the queue. *)
HasRequest ==
  \/ cont[Disk] = "answer" /\ pc[Disk] \in SuspendPC
  \/ pc[Disk] \in {"answer", "dequeue"}

(* It is the oldest one, whatever arrives while the manager is suspended. *)
RequestsInv ==
  /\ PcTypeOK(DriverPC, DriverCont)
  /\ requests \in QueueOf(Tasks)
  /\ OldestFirst
  /\ HasRequest => requests.items # << >> /\ request = requests.items[1]

(* Only the running task is inside a call; the others have suspended. *)
CallsAtomic ==
  \A t \in Tasks :
    /\ pc[t] \in SuspendPC \cup ExitPC \cup {"dequeue"} => current = t
    /\ pc[t] \in {"enqueue", "switch"} => status[t] = "SUSPENDED"
    /\ pc[t] \in {"block_ret", "answer"} /\ ~ Active(t) => status[t] = "SUSPENDED"

ReadyOnce ==
  /\ IsInjective(ready)
  /\ \A t \in Tasks :
       /\ Ready(t) => current # t
       /\ Ready(t) /\ t # Disk => status[t] = "READY"
       /\ Active(t) => pc[t] \notin {"none", "gone"}

(* Only a task in task_sleep is among the sleepers, until the clock comes. *)
AsleepInv ==
  /\ IsInjective(sleepers.items)
  /\ \A t \in Tasks : Asleep(t) =>
       /\ t # Disk
       /\ cont[t] = "sleep_ret" /\ sleeping[t]
       /\ pc[t] = "switch" \/ (pc[t] = "sleep_ret" /\ ~ Active(t))
  /\ \A t \in Tasks : cont[t] = "sleep_ret" /\ pc[t] \in SuspendPC => sleeping[t]

(* target_to_wait is never reset, and names a task that has finished once  *)
(* the wait is over: no exit awakes a task that waits for the disk.        *)
TargetInv ==
  \A t \in Tasks : target[t] # TaskKernel =>
    \/ Held(t)
    \/ pc[target[t]] = "gone"
    \/ pc[target[t]] = "exit_scan" /\ pc[t] = "wait_ret"

(* The manager is awoken by the interrupt of the transfer it waits for.  A *)
(* refused block leaves it suspended with its request still queued.        *)
ManagerInv ==
  /\ pc[Disk] \in {"user", "answer", "dequeue"} \cup SuspendPC
  /\ cont[Disk] \in {"user", "answer"}
  /\ pc[Disk] # "user" => cont[Disk] = "answer"
  /\ target[Disk] = TaskKernel
  /\ ~ sleeping[Disk]
  /\ ~ Active(Disk) => pc[Disk] = "answer"
  /\ disk = "busy" => pc[Disk] \in SuspendPC \/ (pc[Disk] = "answer" /\ ~ Active(Disk))
  /\ pc[Disk] \in {"answer", "dequeue"} /\ Active(Disk) => reply[request] = "done"

(* The queued requests are those of the tasks that wait for theirs. *)
Unanswered(t) == InBlock(t) /\ ~ (pc[t] = "block_ret" /\ Active(t))

CallersInv ==
  /\ IsInjective(requests.items)
  /\ \A t \in Tasks :
       /\ Unanswered(t) => QHas(requests, t) /\ (pc[Disk] = "dequeue" => t # request)
       /\ QHas(requests, t) => Unanswered(t) \/ (t = request /\ pc[Disk] = "dequeue")
       /\ pc[t] = "block_ret" /\ Active(t) => reply[t] \in {"done", "error"}

DriverStopped == kpc = "stopped" => ~ MoreWork(Pending)

DriverInv ==
  /\ DriverTypeOK
  /\ RequestsInv
  /\ CpuInv
  /\ CallsAtomic
  /\ ReadyOnce
  /\ AsleepInv
  /\ TargetInv
  /\ ManagerInv
  /\ CallersInv
  /\ DriverStopped
=============================================================================
