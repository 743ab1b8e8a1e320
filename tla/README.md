# PingPongOS: a TLA+ model

PingPongOS is a teaching operating system that runs inside one Unix process:
tasks with their own stacks, a priority scheduler with aging, preemption by a
1 ms timer, waiting and sleeping, semaphores, message queues, a heap and a disk
driver. These modules say what its kernel does, step by step, TLC checks it on
small instances, and TLAPS proves the main guarantees for every number of tasks.

## The system

| part | state | operations | used by |
|---|---|---|---|
| queue (`lib/queue.c`) | linked nodes and **one iterator inside the queue** | add, del, has, head, next, item | every other part |
| tasks (`kernel/task.c`, `tcb.h`) | a TCB for each task, `current_active_task` | create, switch, destroy | dispatcher |
| dispatcher (`kernel/dispatcher.c`) | ready, suspended, sleeping and finished queues | loop, run, yield, suspend, awake, wait, sleep, exit | all blocking calls |
| clock (`kernel/time.c`) | `clock`, the quantum left | the timer interrupt, which calls `task_yield` on top of whatever runs | dispatcher |
| scheduler (`kernel/scheduler.c`) | static and dynamic priorities | select with aging, set priority | dispatcher |
| semaphores (`kernel/semaphore.c`) | spin lock, value, wait queue, destroy flag | create, down, up, destroy | tasks, message queues |
| message queues (`kernel/mqueue.c`) | a circular buffer and three semaphores | create, send, recv, destroy | tasks |
| disk driver (`kernel/block.c`) | request queue, the disk manager task | read, write, the disk interrupt | tasks |
| heap (`kernel/memory.c`) | block headers in a 64 MB array | alloc, free | task and semaphore creation, buffers |
| virtual hardware (`hardware/`) | signals, a timer, a disk with random delays | interrupts, commands | kernel |

There is one processor. A task blocks by putting itself in a queue and switching
to the kernel's context; the dispatcher loop then picks the next ready task.
The difficulty is in three habits of the code:

* **The timer is never masked.** A tick may end the quantum of a task anywhere,
  inside `task_suspend`, `task_exit` or a critical section of a semaphore too,
  and `task_yield` then makes the task READY and queues it, whatever it was
  doing.
* **Walks share the iterator of the queue they walk.** `task_exit` and the
  dispatcher awake tasks of the queue they are walking, and `queue_del` moves
  the iterator that `queue_next` is about to move again.
* **A condition is tested, and the task suspends later.** `task_wait`,
  `sem_down`, `block_read` and the disk manager all leave a window between the
  two in which the wakeup may come.

`PROJECT.json` lists these hazards, and the others, at their lines.

## The modules

| module | models | composes |
|---|---|---|
| `Queue` | `lib/queue.c` through its interface: a sequence and the position of the iterator | |
| `Kernel` | TCBs, the queues, `task_create`, `task_yield`, `task_suspend`, `task_awake`, the dispatcher loop, the tick | `Queue` |
| `Dispatcher` | `task_wait`, `task_sleep`, `task_exit` and a specification of the whole | `Kernel` |
| `Scheduler` | `scheduler()`, `sched_setprio` and the life of the ready queue | |
| `Semaphore` | `sem_down`, `sem_up`, `sem_destroy`, the spin lock | `Kernel` |
| `CountingSemaphore` | the abstract semaphore of `semaphore.h` | refined by `Semaphore` |
| `CircularBuffer` | the buffer of `mqueue.c` | |
| `MessageQueue` | `mqueue_send`, `mqueue_recv`, `mqueue_destroy` and the states `mqueue_create` may leave, over three semaphores | `CircularBuffer`; each semaphore does what `CountingSemaphore` says |
| `BoundedFifo` | the abstract buffer | refined by `CircularBuffer`, and so by `MessageQueue` |
| `BlockDriver` | `block_read`, `block_write`, the disk manager, the virtual disk and its interrupt | `Dispatcher` |
| `Heap` | `mem_init`, `mem_alloc`, `mem_free`: the block list, whose headers are in the memory it describes | |
| `MCDispatcher`, `MCScheduler`, `MCSemaphore`, `MCBlockDriver` | the small instances | |
| `QueueProofs`, `DispatcherProofs`, `SchedulerProofs`, `SemaphoreProofs`, `CircularBufferProofs`, `MessageQueueProofs`, `BlockDriverProofs`, `HeapProofs` | the proofs | |

**How the state corresponds.** `Kernel` keeps the TCB fields as functions of the
task (`status`, `sleeping`), the three live queues, `current` for
`current_active_task` and `remaining` for the quantum of the running task.
`wake_up_time - clock` is kept as `left`, cut at 0, so that no clock grows.
`pc[t]` is the point of a kernel call at which task `t` is, and `kpc` the point
at which the dispatcher loop is. A context switch is an assignment to `current`;
a task that runs again goes on at its `pc`, as its saved context does.
The finished queue is never read by the code and has no variable.

**Granularity.** An action is the code between two points at which a tick makes
a difference: `task_suspend` is three actions, a walk is one action a turn, a
critical section is two. A queue operation and `task_awake` are single steps,
although the code does not protect them from the timer: what a tick in the
middle of `queue_add` does to the nodes is left to the planned `LinkedQueue`.
`KernelPreemption` says whether a quantum may end inside a kernel call. TRUE is
the code as it is. FALSE is the case in which every kernel call fits into the
quantum it starts in; each property that needs it fails without it, in a run or
in a changed instance given below. `InterruptInWalk` says the same of the disk's
interrupt and the walk of `task_exit`.

**The disk manager** is in every instance of `Kernel`. The dispatcher's loop
condition, more than one ready task, counts on it; `block_init` leaves it in the
ready queue *and* in the suspended queue, and so does `QueuesInit`. In the
instances of `Dispatcher` and `Semaphore` no request is ever queued, and it is a
task that yields for ever. `BlockDriver` gives it its requests: the third term of
the loop condition, `queue_size(requests) > 0`, then keeps the loop turning
while every task is suspended (`EmptyTurn`), until the interrupt of the disk.

**Two levels of semaphores.** `MessageQueue` has no processor and no spin lock:
its semaphores are three copies of the abstract one, which `Semaphore` is proved
to implement. Any task may run between any two of its steps, which is more than
the one processor can do. A step is a semaphore operation or the operation on
the buffer, and `BufferExclusive` is why the latter may be one step.

**Scheduling.** `Dispatch(t)` may choose any ready task. `Scheduler` has the
choice the code makes and shows that it is fair (`BoundedWait`), which is what
the fairness assumed of `Dispatch` stands on.

Definitions marked *Mutant* are plausible mistakes in the operation they
precede. No specification uses them: each run is repeated with one of them in
the place of that operation, and must then fail.

## What the runs check

| run | instance | shows |
|---|---|---|
| `dispatcher_preempted` | 3 tasks and the disk manager, quantum 1, preemption at any step, anybody waits for anybody (themselves too) | `CodeDelivered`: `task_wait` returns only when its target has begun its walk in `task_exit`, with its code. `NoEarlyWake`. `AwakeAsserts`: the assertions of `task_awake`. `Placement`: no task is lost or queued twice. `StopIsQuiet`: the machine stops only when nobody could run. `FinishedForGood`. |
| `dispatcher_early_return` | a waiter, its target and the disk manager, preemption at any step | **fails** `WaitGuarantee`: the waiter returns before its target has finished |
| `dispatcher_abort` | preemption in calls | **fails** `NeverAborts`: a tick inside `task_suspend` |
| `dispatcher_two_waiters` | two waiters for one target, no preemption | **fails** `NoStrandedWaiter`: the walk of `task_exit` skips the second |
| `scheduler` | 3 tasks, priorities -1..1 | `LoopSelectsFirstBest`: the loop that ages while it compares returns the first of the best. `BoundedWait`, `DynamicBounded`. |
| `semaphore_preempted` | value 1, one `sem_up`, 3 tasks, preemption at any step | `NeverOversold`, `ValueCountsWaiters`, `LockIsExclusive`, and `Implements`: every step is one of `CountingSemaphore` |
| `semaphore_live` | value 0, one `sem_up`, no preemption in calls, under fairness | `DestroyReleases`, `LetGoReturns` |
| `message_queue` | 3 tasks, capacity 2, 2 items, a queue with its buffer, without it, or destroyed by `mqueue_create`; calls on a destroyed queue too | `BufferExclusive`, `NeverFullNorEmpty`, `IndicesAgree`, `Refines` (the buffer is a bounded FIFO through every interleaving), `NobodyInside` (nobody who is let go by a destruction, or calls after it, comes to the freed buffer, or past the first `sem_down` of a freed queue), and under fairness `BufferPassedOn` and `DestroyReleases` |
| `block_driver` | 2 tasks and the disk manager, quantum 2, no preemption in calls, waits (in a circle too), sleeps and exits, under fairness | `BufferHeld`: the disk only transfers for a caller that is still in its call, which returns after the transfer. `OldestFirst`. `PowerOffAfterTransfers`. `EveryRequestAnswered`. Of the dispatcher under it: `WaitGuarantee`, `task_wait` returns only after its target has left `task_exit` for good; `NoStrandedWaiter`, nobody stays suspended for a task that has exited; `SleeperWakes` and `WaiterReturns`. |
| `block_bad_block` | blocks the disk does not have | **fails** `EveryRequestAnswered`: no interrupt comes, but the manager waits for one |
| `heap` | 256 bytes, sizes 10, 64 and 96, every call up to the one that breaks the list: remainders of 0 and 16 bytes, and splits of blocks with a successor | `LiveDisjoint`: no two owners share a byte, nor does one share it with a header. `LiveKept`: what was handed out can be freed. `NoLeak`: the heap is one block again. `AvailableBytes`. Each until one of the code's two mistakes undoes it (below). |
| `heap_reuse` | the same without tight fits | **fails** `LiveListed`: after reuse of a freed block, `mem_free` refuses a block that is in use |

**Bounds, and why they are enough.** Three tasks are a waiter, its target and a
bystander (or a second waiter), or a blocked task, one that lets it go and one
that destroys the semaphore meanwhile. `MaxSleep = 1` has a sleeper that must be
passed over by a walk and one that is due. A quantum of 1 tick ends a quantum at
every step; 2 is there for the branch in which a tick does not. `Codes` has one
code, different from the 0 of a fresh TCB. `MaxUps` bounds the history of
`sem_up`, the only counter that would grow. Two slots are the smallest buffer
whose indices wrap with the buffer empty, partly filled and full, and three tasks
on it are enough for one to block on each side while another works on the
buffer; the theorems cover every capacity. Two requests are enough for one to
arrive while the other is at the disk. 256 bytes hold five of the smallest
blocks, so that a block has neighbours on both sides and reuse leaves each of
the remainders 0, 16 and more; `LiveListed` needs seven calls to fail in them.
The unsigned int of 4096 values (`UIntRange`) is as good as one of 2^32: it is
larger than the heap, so a difference that wraps is larger than any block. In
the semaphore instances no task waits or exits: a `task_exit` whose stale
`target_to_wait` awakes a task that is blocked in `sem_down` is outside them
(what it does to `block_read` is below). The four-task instances use the symmetry
of the two created tasks, and no liveness property is checked under it.

**Fairness.** `WF(Loop)` and `WF(CallStep(t))`: the processor executes whatever
it is given. `SF(Timer)`: the interval timer keeps firing, between any steps.
`SF(Run(t))`: a task that is ready again and again is selected; `BoundedWait`
says so when its priority is left alone, and a task that sets another's priority
for ever can starve it. `WF(Interrupt)`: the disk finishes what it has begun.
`SF(ManagerStep)`: the disk manager's steps are not all preempted, which a tick
every millisecond cannot do. `WF(CallStep(t))` of `MessageQueue` stands for all
of this: a task inside a call goes on with it. No task is assumed to leave its
own code, to call anything, or to make a call that would let another one go: a
task that computes for ever is preempted, and a program whose tasks all block on
a message queue stays there, which is why that run alone does not check for
deadlock.

**More disagreements, without a run of their own.** Each is found by the run
named, with the one change that is given:

* `DispatcherTwoWaiters` with the tasks of `DispatcherEarlyReturn`, quantum 1,
  `KernelPreemption = TRUE` and `MayWait <- UserWaits`: `NoStrandedWaiter` fails
  with a single waiter, whose target exits between the test at
  `dispatcher.c:138` and the suspension at 144.
* `SemaphoreLive` with `KernelPreemption = TRUE`: `DestroyReleases` fails, the
  wakeup comes between the release of the spin lock at `semaphore.c:99` and the
  suspension, and is lost. The same window is open in `block_read`
  (`block.c:93`) and in the disk manager (`block.c:40`); `BlockDriver` with
  `KernelPreemption = TRUE` and quantum 1 fails `EveryRequestAnswered` before it
  gets there, by the dispatcher's assertion.
* `BlockDriver` with a fourth task, waits of `user` for `t1`, `t1` for `t2` and
  `t2` for `user`, and `InterruptInWalk = TRUE`: `NoStrandedWaiter` fails, though
  no quantum ends in a call. The handler of the disk's interrupt takes the
  manager out of the suspended queue (`block.c:61`) while a task stands on it in
  the walk of `task_exit`, which then passes over the task behind it. With
  `FALSE` that instance has 834,238 states and the property holds.
* `BlockDriver` with `KernelPreemption = TRUE`, quantum 1, no sleep and a fourth
  task: `BufferHeld` fails after 47 steps (15.8 million states; with three tasks
  it holds). `target_to_wait` is never reset (`dispatcher.c:142`): a task that is
  preempted in the walk of `task_exit`, after it has awoken its waiter, meets it
  again when it goes on. The waiter is in `block_read` by then, is awoken, and
  returns before its transfer: the disk would write to a stack frame that is
  gone.
* `MessageQueue` with `DestroyRace = TRUE`: `NobodyInside` fails in five
  steps. `mqueue_destroy` frees the buffer and the struct with nothing to keep
  out a call that is past its first `sem_down` (`mqueue.c:174`).
* Calls on a destroyed queue. `test/pingpong-mqueue.c` makes them: its producers
  and consumers (33-44, 103-115) wake up after the queue was destroyed and freed
  (152-158), and expect a negative status. `mqueue_send` and `mqueue_recv` find
  it in the freed struct (`mqueue.c:193`, 223), whose semaphore `mem_free` left
  as it was and `sem_destroy` closed. `Call` may come then too, and `NobodyInside`
  covers what comes after the read. Once `mem_alloc` has handed those bytes out
  again the read finds anything: that is undefined, and not modelled.
* `MessageQueue` with `BufferPassedOn` stated without `store # "none"`: it fails.
  `mqueue_create` does not look whether the buffer was allocated
  (`mqueue.c:135`), `mqueue_send` then fails at `mqueue.c:203` and keeps the
  buffer's semaphore.
* `HeapReuse` with `TightFits = TRUE`: `LiveListed` fails after four calls, by
  an exact fit. What the fit leaves is less than a header, the unsigned
  difference at `memory.c:117` wraps, and the split (which its comment at 115
  wants only if the rest is large enough) writes the header of a block of
  almost 2^32 bytes over the next one, or behind the heap.

**The heap's two mistakes.** `mistake` says whether the code has made one of
them. A fit that leaves 0 or 16 bytes splits nonetheless, as above. And a split
does not correct the `prev` of the block behind the new one (`memory.c:131`);
such a block is in `untold` until a merge corrects it by accident. Freed while
it is `untold`, the block is not merged with the free one in front of it, and
the heap stays in pieces (`mistake = "apart"`), or is merged with one that is
not its neighbour, and the list loses the blocks in between
(`mistake = "broken"`). No call follows on a broken list, whose headers and
data overwrite each other; the step that breaks it is taken, and
`heap_reuse` shows what it does. The properties of `heap` say what holds until
then, the reuse of freed blocks included.

## What is proved

Every safety property of the passing runs is a theorem, and so is `NeverAborts`
for the instances in which no quantum ends in a call. TLAPS checks it for
every set of tasks, quantum, sleep bound, initial value, capacity, set of blocks
and size of the heap, under the assumptions at the end of this section.

* `DispatcherProofs`, with preemption at any step: `TypeCorrect`,
  `CodeIsDelivered` (`CodeDelivered`), `SleepIsKept`, `AwakeAssertsHold`, `NobodyIsLost`
  (`Placement`), `StopsQuietly` (`StopIsQuiet`) and the action property
  `FinishedStays` (`FinishedForGood`, which begins with the switch away from
  `task_exit`: a task that is preempted in its walk, FINISHED or not, is queued
  again, as `dispatcher_early_return` shows). None is inductive alone. `IInv` says where
  every task is: a task in the suspended queue is in `task_wait`, about to switch
  or switched out, and never ready (`SuspendedInv`, and `SleepersInv` likewise);
  the status SUSPENDED and the sleeping flag name that queue (`StatusInv`); a
  waiter that is active again has had its code delivered by a target past the
  start of its exit (`WaitInv`), and the pointer a walk of `task_exit` holds is
  never to a waiter that somebody else has awoken (`AuxInv`). The last is what
  preemption inside the walk could break. `PlaceInv` adds that who neither runs
  nor is ready is in one of the queues, `StoppedInv` that the loop ended because
  its condition was false.
* `DispatcherProofs`, where no quantum ends in a call (`~ KernelPreemption`):
  `AssertionHolds` (`NeverAborts`), `WaitIsGuaranteed` (`WaitGuarantee`), and with `OneWaiterEach` too `NobodyIsStranded`
  (`NoStrandedWaiter`). `AtomicInv`: a task leaves the calls it may not be found
  in before another one runs. `HeldInv`: the target of a waiter that nobody has
  let go has not finished the walk of its exit, and while it walks, the waiter
  is at the iterator or behind it. With a second waiter the step that
  `queue_del` makes could pass it, which is what `dispatcher_two_waiters` finds.
* `SchedulerProofs`: `WaitIsBounded` and `DynamicIsBounded`. A ready task is
  passed over at most `MaxPrio - MinPrio + N - 1` times, N tasks in all. The
  argument counts: at most `N - k` tasks have a dynamic priority k below the
  lowest static one (`CrowdInv`), because a selection takes one task out of
  those that were k - 1 below and lowers the others by one. `LoopIsSelection`
  (`LoopSelectsFirstBest`) is about the loop itself: the fold over the ready
  queue is a sequence of turns (`LoopUnfolds`), and after k turns the first k
  tasks are aged once and the first of the best among them is selected
  (`LoopIsRight`).
* `SemaphoreProofs`: `TypeCorrect`, `NoPermitTwice`, `ValueIsTheQueue`,
  `LockExcludes` and the refinement `SemaphoreImplements`, with preemption at any
  step, inside the critical sections too. The kernel's steps are taken together
  (`Quiet`): they do nothing to the semaphore, and let nobody come back from
  `sem_down` who is `Held`, on the way to the suspension or switched out and not
  ready. A task of the wait queue is always held (`WaitInv`), so the queue and
  the value change together. `WakeInv` is about the pointers that `sem_up` and
  `sem_destroy` keep after they have released the lock: while the semaphore is
  open, one task at most has a pointer to a given blocked task, which has left
  the queue; several `sem_destroy` may have stale ones, but never to a task in
  the middle of the queue. `CountInv` then says that every permit is free, taken
  or owed to a blocked task, which is `NeverOversold` but for the last step: a
  task that comes out is not in the queue, and the queue is as long as the value
  is negative. `NobodyStaysBlocked` (`DestroyReleases`) needs
  `~ KernelPreemption`: who is suspended is queued, or a `sem_up` is about to
  awake it (`OwedInv`), and the loop of `sem_destroy` leaves no queue behind.
* `CircularBufferProofs`: `BufferIsFifo`, the refinement, and
  `IndicesAlwaysAgree`, from arithmetic modulo the capacity (`ModOnce`,
  `StepOn`, `SlotsDiffer`).
* `MessageQueueProofs`: `QueueTypeCorrect`, `BufferIsExclusive`, `RoomIsCounted`
  (`NeverFullNorEmpty`), `QueueIndicesAgree` and `QueueIsFifo`, with a
  destruction at any moment. `MutexInv` counts a task that was let go and has not
  run yet as holding the buffer. `CountInv` counts, for each side, the free
  permits and the tasks that have one or still owe one (`Claims`): they are
  covered by the free slots on one side and by the items on the other, whatever
  the order in which the buffer and the counts are updated. `Refines` follows
  because a step of the message queue is an addition, a removal or nothing to
  the buffer. `NobodyGetsInside` (`NobodyInside`) needs `~ DestroyRace`: the
  destroyer is alone and finds nobody past the first `sem_down`, and before it
  frees anything it has closed and emptied the semaphores that a call could
  still come through (`DestroyerInv`); a queue that was never made fails every
  call at its first step (`NoQueueInv`).
* `BlockDriverProofs`, with preemption at any step: `DriverTypeCorrect` and
  `OldestIsFirst`. The manager's local pointer stays on the first request across
  its suspension, requests are added behind it, and its deletion moves the
  iterator to the next one. With `~ KernelPreemption`, and bad blocks or none:
  `BuffersHeld` (`BufferHeld`) and `PowerOffIsLate` (`PowerOffAfterTransfers`).
  `DriverInv` ties the three parties together: a caller waits for its answer
  exactly as long as its request is queued, the manager's last step apart
  (`CallersInv`); the disk is busy only while the manager waits for it
  (`ManagerInv`); and the `target_to_wait` that nobody resets names a task that
  has finished its walk once the wait is over, so that no exit awakes a task
  that is in `block_read` by then (`TargetInv`, which is the one that
  preemption breaks).
* `HeapProofs`, for every size of the heap and every sequence of calls:
  `TypeCorrect`, `OwnersAreDisjoint` (`LiveDisjoint`), `OwnersAreListed`
  (`LiveKept`), `NothingLeaks` (`NoLeak`) and `AvailableIsCounted`
  (`AvailableBytes`). `HeapInv` holds until the list is broken and has its
  geometry: the blocks on the list lie one after the other from the first byte
  to the last, each followed by the one its `next` names (`Sound`); the `prev` of
  each names the one before it, or the block is `untold` (`Told`); each block in
  use has the one owner it was given to (`Owned`); and no two free ones are
  neighbours (`Uncoalesced`) until an `untold` one is freed. A split and a merge
  each keep these for any set of blocks, and the list leads to exactly that set
  afterwards, because nothing is left between the end of a block and the next.
  Of the step that breaks the list only `TypeOK` has something to say. Sums
  over blocks are handled by the function that adds one element at a time
  (`Additive`).
* `QueueProofs`: what the queue operations do to the contents and the iterator,
  with `queue_del` on a node anywhere before, at or behind the iterator; and
  induction over the naturals for a set (`NatInductive`, `NatMinimum`), which the
  loop of the scheduler, the list of the heap and its sums need.

The inductive invariants, `IInv`, its further parts, `DriverInv`, `QueueInv` and
`HeapInv`, were checked by TLC on the instances of the runs before the proofs
were written.

The assumptions are the named ones of the modules: `KernelAssumption`,
`DispatcherAssumption`, `SchedulerAssumption`, `SemaphoreAssumption` and
`MessageQueueAssumption` (finitely many tasks), `BufferAssumption`,
`DriverAssumption`, `HeapAssumption` (a heap of whole 16-byte units whose size
an unsigned int can hold). `~ KernelPreemption`, `OneWaiterEach` and
`~ DestroyRace` stand in the theorems that need them, and in no other; for each
there is an execution above, of a violation run or of a changed instance, that
shows what fails without it.

Only model-checked: the liveness properties (`LetGoReturns`, `BufferPassedOn`,
`DestroyReleases` of `MessageQueue`, `EveryRequestAnswered`, `SleeperWakes`,
`WaiterReturns`), whose fairness is beyond the prover.

## Not modelled, and the plan

What a next step would take, in this order:

1. Two tasks inside `mem_alloc` (`memory.c:111`), which nothing excludes; and
   memory that is freed and handed out again under a late call of a message
   queue (`mqueue.c:193`).
2. `LinkedQueue`: nodes and pointers, refining `Queue`, and the interrupt in the
   middle of an operation (`queue.c:89`); a `malloc` that fails in `queue_add`,
   whose callers do not look.
3. Accounting (`execution_time`, activations) and `task_destroy`, which frees
   what a task that is still queued would use.

Not planned: the context switch in assembly (`ctx.s`), whose effect is the
assignment to `current`; `hw_irq_enable` and `hw_wfi` of `cpu.c`, which nobody
calls, and the registration of its handlers; the file behind the virtual disk;
`serial.c` and `libc.c`, which keep no kernel state; `queue_destroy`, which
nobody calls while tasks run; a failing allocation in `sem_create`, after which
there is no semaphore.
