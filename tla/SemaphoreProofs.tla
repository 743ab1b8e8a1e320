-------------------------- MODULE SemaphoreProofs --------------------------
(***************************************************************************)
(* Proofs about Semaphore, for any set of tasks, any initial value, and    *)
(* preemption at any step.  The steps of the kernel are taken together:    *)
(* they keep its part of the invariant, let nobody come out of sem_down,   *)
(* and do nothing to the semaphore.                                        *)
(***************************************************************************)
EXTENDS Semaphore, QueueProofs, FiniteSetTheorems

SemPC == {"none", "user", "up_awake"} \cup SuspendPC \cup LockPC \cup CriticalPC
SemCont == {"user", "down_ret"}

(* The labels, one by one. *)
LEMMA Labels ==
  /\ SemPC = {"none", "user", "up_awake", "suspend", "enqueue", "switch",
              "down", "up", "destroy", "down_ret", "destroy_turn",
              "in_down", "in_up", "in_destroy", "in_down_ret", "in_destroy_turn"}
  /\ SuspendPC = {"suspend", "enqueue", "switch"}
  /\ LockPC = {"down", "up", "destroy", "down_ret", "destroy_turn"}
  /\ CriticalPC = {"in_down", "in_up", "in_destroy", "in_down_ret", "in_destroy_turn"}
BY DEF SemPC, SuspendPC, LockPC, CriticalPC

KernelInv ==
  /\ TcbTypeOK
  /\ QueuesTypeOK
  /\ CpuTypeOK
  /\ PcTypeOK(SemPC, SemCont)
  /\ RunInv
  /\ CallInv

(* What a step of the kernel does to the places of the tasks. *)
QuietPc ==
  \A t \in Tasks :
    \/ pc'[t] = pc[t]
    \/ pc[t] \in SuspendPC /\ pc'[t] \in SuspendPC \cup {"down_ret"}
    \/ pc[t] = "none" /\ pc'[t] = "user"

HeldKept == \A t \in Tasks : Held(t) => Held(t)'

Quiet == KernelInv' /\ QuietPc /\ HeldKept

(***************************************************************************)
(* The steps of the kernel.                                                *)
(***************************************************************************)

(* The parts of the kernel's invariant that are about types. *)
LEMMA KernelTypes ==
  ASSUME KernelInv
  PROVE  /\ Disk \in Tasks /\ TaskKernel \notin Tasks /\ NULL \notin Tasks
         /\ QUANTUM \in Nat \ {0} /\ MaxSleep \in Nat
         /\ status \in [Tasks -> Status]
         /\ sleeping \in [Tasks -> BOOLEAN]
         /\ left \in [Tasks -> 0..MaxSleep]
         /\ ready \in Seq(Tasks) /\ ToSet(ready) \subseteq Tasks
         /\ suspended \in QueueOf(Tasks) /\ ToSet(suspended.items) \subseteq Tasks
         /\ sleepers = EmptyQueue
         /\ current \in Tasks \cup {TaskKernel}
         /\ remaining \in 1..QUANTUM
         /\ pc \in [Tasks -> SemPC]
         /\ cont \in [Tasks -> SemCont]
<1>1. ToSet(ready) \subseteq Tasks
  BY LenProperties, ElementOfSeq DEF KernelInv, QueuesTypeOK, ToSet
<1>2. ToSet(suspended.items) \subseteq Tasks
  BY QueueType DEF KernelInv, QueuesTypeOK
<1> QED
  BY <1>1, <1>2, KernelAssumption
     DEF KernelInv, TcbTypeOK, QueuesTypeOK, CpuTypeOK, PcTypeOK, CallInv

(* Steps that leave the tasks where they are, and the ready queue. *)
LEMMA StandStill ==
  ASSUME KernelInv, TcbTypeOK', CpuTypeOK',
         UNCHANGED <<status, sleeping, ready, suspended, sleepers, current, pc, cont>>
  PROVE  Quiet
<1>1. KernelInv'
  BY DEF KernelInv, QueuesTypeOK, PcTypeOK, RunInv, CallInv, Held, Created
<1> QED
  BY <1>1 DEF Quiet, QuietPc, HeldKept, Held

(* A walk over no sleepers. *)
LEMMA EmptyHead == QHead(EmptyQueue) = EmptyQueue /\ QItem(EmptyQueue) = NULL
BY DEF QHead, QItem, EmptyQueue

LEMMA LoopQuiet ==
  ASSUME KernelInv, KernelStep(0)
  PROVE  Quiet
<1>1. CASE AfterRun
  BY <1>1, KernelTypes, EmptyHead, StandStill
     DEF AfterRun, KernelInv, TcbTypeOK, CpuTypeOK, KernelPC
<1>2. CASE EmptyTurn(0)
  BY <1>2, KernelTypes, EmptyHead, StandStill
     DEF EmptyTurn, KernelInv, TcbTypeOK, CpuTypeOK, KernelPC
<1>3. CASE \E t \in Tasks : ScanSleeper(t)
  BY <1>3, KernelTypes, EmptyHead DEF ScanSleeper
<1>4. CASE ScanEnd
  BY <1>4, StandStill DEF ScanEnd, queueVars, KernelInv, TcbTypeOK, CpuTypeOK, KernelPC
<1>5. CASE Stop(0)
  BY <1>5, StandStill DEF Stop, queueVars, KernelInv, TcbTypeOK, CpuTypeOK, KernelPC
<1> QED
  BY <1>1, <1>2, <1>3, <1>4, <1>5 DEF KernelStep

(* scheduler and task_run: a task that is ready is not held. *)
LEMMA RunQuiet ==
  ASSUME KernelInv, NEW t \in Tasks, Dispatch(t, 0)
  PROVE  Quiet
<1>0. /\ ready' = RemoveFirst(ready, t) /\ t \in ToSet(ready)
      /\ status' = [status EXCEPT ![t] = "RUNNING"]
      /\ current' = t /\ remaining' = QUANTUM /\ kpc' = "run" /\ nextTask' = t
      /\ UNCHANGED <<sleeping, left, suspended, sleepers, pc, cont>>
  BY DEF Dispatch
<1>1. /\ ready' \in Seq(Tasks) /\ IsInjective(ready')
      /\ ToSet(ready') = ToSet(ready) \ {t}
  BY <1>0, KernelTypes, RemoveFirstProperties DEF KernelInv, RunInv
<1>2. TcbTypeOK' /\ QueuesTypeOK' /\ CpuTypeOK' /\ PcTypeOK(SemPC, SemCont)'
  BY <1>0, <1>1, KernelTypes
     DEF KernelInv, TcbTypeOK, QueuesTypeOK, CpuTypeOK, PcTypeOK, Status, KernelPC
<1>3. RunInv'
  BY <1>0, <1>1, KernelTypes DEF KernelInv, RunInv, Created
<1>4. HeldKept
  BY <1>0, <1>1 DEF HeldKept, Held
<1>5. CallInv'
  BY <1>0, <1>4, KernelTypes DEF KernelInv, CallInv, HeldKept
<1> QED
  BY <1>0, <1>2, <1>3, <1>4, <1>5 DEF Quiet, KernelInv, QuietPc

(* task_yield, of the task itself or in a tick. *)
LEMMA YieldQuiet ==
  ASSUME KernelInv, NEW t \in Tasks, current = t, TaskYield(t),
         left' \in [Tasks -> 0..MaxSleep]
  PROVE  Quiet
<1>0. /\ status' = [status EXCEPT ![t] = "READY"] /\ ready' = Append(ready, t)
      /\ current' = TaskKernel /\ remaining' = QUANTUM
      /\ UNCHANGED <<sleeping, suspended, sleepers, pc, cont, kpc, nextTask>>
  BY DEF TaskYield, SwitchToKernel, loopVars
<1>1. /\ ready' \in Seq(Tasks) /\ IsInjective(ready')
      /\ ToSet(ready') = ToSet(ready) \cup {t}
  BY <1>0, KernelTypes, AppendSet DEF KernelInv, RunInv
<1>2. TcbTypeOK' /\ QueuesTypeOK' /\ CpuTypeOK' /\ PcTypeOK(SemPC, SemCont)'
  BY <1>0, <1>1, KernelTypes
     DEF KernelInv, TcbTypeOK, QueuesTypeOK, CpuTypeOK, PcTypeOK, Status
<1>3. RunInv'
  BY <1>0, <1>1, KernelTypes DEF KernelInv, RunInv, Created
<1>4. HeldKept
  BY <1>0, <1>1, KernelTypes DEF HeldKept, Held
<1>5. CallInv'
  BY <1>0, <1>4, KernelTypes DEF KernelInv, CallInv, HeldKept
<1> QED
  BY <1>0, <1>2, <1>3, <1>4, <1>5 DEF Quiet, KernelInv, QuietPc

LEMMA TickQuiet ==
  ASSUME KernelInv, Tick
  PROVE  Quiet
<1>1. left' \in [Tasks -> 0..MaxSleep]
  <2>1. left' = [t \in Tasks |-> IF left[t] > 0 THEN left[t] - 1 ELSE 0]
    BY DEF Tick, TickInKernel, TickInTask, TickPreempts, CountDown
  <2> QED
    BY <2>1, KernelTypes
<1>2. CASE TickInKernel
  BY <1>1, <1>2, StandStill
     DEF TickInKernel, queueVars, loopVars, KernelInv, TcbTypeOK, CpuTypeOK
<1>3. ASSUME NEW t \in Tasks, TickInTask(t)
      PROVE  Quiet
  <2>1. remaining' \in 1..QUANTUM
    BY <1>3, KernelTypes DEF TickInTask
  <2> QED
    BY <1>1, <1>3, <2>1, StandStill
       DEF TickInTask, queueVars, loopVars, KernelInv, TcbTypeOK, CpuTypeOK
<1>4. ASSUME NEW t \in Tasks, TickPreempts(t)
      PROVE  Quiet
  BY <1>1, <1>4, YieldQuiet DEF TickPreempts, MayPreempt
<1> QED
  BY <1>2, <1>3, <1>4 DEF Tick

LEMMA CreateQuiet ==
  ASSUME KernelInv, NEW t \in Tasks, NEW new \in Tasks, TaskCreate(t, new)
  PROVE  Quiet
<1>0. /\ current = t /\ pc[t] = "user" /\ pc[new] = "none"
      /\ pc' = [pc EXCEPT ![new] = "user"]
      /\ status' = [status EXCEPT ![new] = "READY"] /\ ready' = Append(ready, new)
      /\ UNCHANGED <<sleeping, left, suspended, sleepers, current, remaining, cont,
                     kpc, nextTask>>
  BY DEF TaskCreate, At, Goto, Created, loopVars
<1>1. new \notin ToSet(ready) /\ new # t
  BY <1>0 DEF KernelInv, RunInv, Created
<1>2. /\ ready' \in Seq(Tasks) /\ IsInjective(ready')
      /\ ToSet(ready') = ToSet(ready) \cup {new}
  BY <1>0, <1>1, KernelTypes, AppendSet DEF KernelInv, RunInv
<1>3. TcbTypeOK' /\ QueuesTypeOK' /\ CpuTypeOK' /\ PcTypeOK(SemPC, SemCont)'
  BY <1>0, <1>2, KernelTypes, Labels
     DEF KernelInv, TcbTypeOK, QueuesTypeOK, CpuTypeOK, PcTypeOK, Status
<1>4. RunInv'
  BY <1>0, <1>1, <1>2, KernelTypes DEF KernelInv, RunInv, Created
<1>5. HeldKept
  BY <1>0, <1>2, KernelTypes, Labels DEF HeldKept, Held
<1>6. CallInv'
  <2>1. \A u \in Tasks : u # new => pc'[u] = pc[u]
    BY <1>0, KernelTypes
  <2>2. pc'[new] = "user"
    BY <1>0, KernelTypes
  <2> QED
    BY <1>0, <1>5, <2>1, <2>2, KernelTypes, Labels DEF KernelInv, CallInv, HeldKept
<1>7. QuietPc
  BY <1>0, KernelTypes DEF QuietPc
<1> QED
  BY <1>3, <1>4, <1>5, <1>6, <1>7 DEF Quiet, KernelInv

(* task_suspend: the task is held before each of its steps and after. *)
LEMMA SuspendQuiet ==
  ASSUME KernelInv, NEW t \in Tasks, TaskSuspend(t)
  PROVE  Quiet
<1>0. /\ current = t /\ t \notin ToSet(ready) /\ t # Disk
      /\ pc[t] \in SuspendPC /\ cont[t] = "down_ret"
      /\ UNCHANGED <<sleeping, left, ready, cont, kpc, nextTask>>
  <2>1. current = t /\ pc[t] \in SuspendPC
    BY Labels DEF TaskSuspend, SuspendStatus, SuspendEnqueue, SuspendSwitch, At
  <2>2. UNCHANGED <<sleeping, left, ready, cont, kpc, nextTask>>
    BY DEF TaskSuspend, SuspendStatus, SuspendEnqueue, SuspendSwitch, queueVars, loopVars
  <2>3. t # Disk /\ cont[t] = "down_ret"
    <3>1. CallInv
      BY DEF KernelInv
    <3>2. pc[Disk] = "user"
      BY <3>1 DEF CallInv
    <3>3. pc[t] \in SuspendPC => cont[t] = "down_ret"
      BY <3>1, Zenon DEF CallInv
    <3> QED
      BY <2>1, <3>2, <3>3, Labels
  <2>4. t \notin ToSet(ready)
    BY <2>1 DEF KernelInv, RunInv
  <2> QED
    BY <2>1, <2>2, <2>3, <2>4
<1>1. PICK l \in SuspendPC \cup {"down_ret"} : pc' = [pc EXCEPT ![t] = l]
  BY <1>0, Labels DEF TaskSuspend, SuspendStatus, SuspendEnqueue, SuspendSwitch, Goto
<1>2. /\ TcbTypeOK' /\ CpuTypeOK' /\ PcTypeOK(SemPC, SemCont)'
      /\ \A u \in Tasks : u # t => status'[u] = status[u]
      /\ sleepers' = sleepers
      /\ current' = TaskKernel \/ (current' = current /\ l \in SuspendPC)
  <2>1. l \in SemPC
    BY <1>1, Labels
  <2>2. CASE SuspendStatus(t)
    BY <1>0, <1>1, <2>1, <2>2, KernelTypes, Labels
       DEF SuspendStatus, Goto, queueVars, KernelInv, TcbTypeOK, CpuTypeOK, PcTypeOK, Status
  <2>3. CASE SuspendEnqueue(t)
    BY <1>0, <1>1, <2>1, <2>3, KernelTypes, Labels
       DEF SuspendEnqueue, Goto, KernelInv, TcbTypeOK, CpuTypeOK, PcTypeOK
  <2>4. CASE SuspendSwitch(t)
    BY <1>0, <1>1, <2>1, <2>4, KernelTypes
       DEF SuspendSwitch, SwitchToKernel, queueVars, KernelInv, TcbTypeOK, CpuTypeOK,
           PcTypeOK
  <2> QED
    BY <2>2, <2>3, <2>4 DEF TaskSuspend
<1>3. HeldKept
  BY <1>0, <1>1, <1>2, KernelTypes, Labels DEF HeldKept, Held
<1>4. /\ suspended' \in QueueOf(Tasks) /\ IsInjective(suspended'.items)
      /\ \/ ToSet(suspended'.items) = ToSet(suspended.items) /\ l # "suspend"
         \/ ToSet(suspended'.items) = ToSet(suspended.items) \cup {t} /\ l = "switch"
      /\ t \in ToSet(suspended.items) => l = "down_ret"
  <2>1. /\ suspended \in QueueOf(Tasks) /\ IsInjective(suspended.items)
        /\ t \in ToSet(suspended.items) => pc[t] = "switch"
    BY <1>0, KernelTypes, Labels DEF KernelInv, CallInv
  <2>2. CASE SuspendStatus(t)
    BY <1>1, <2>1, <2>2, KernelTypes, Labels DEF SuspendStatus, At, Goto, queueVars
  <2>3. CASE SuspendEnqueue(t)
    <3>1. suspended' = QAdd(suspended, t) /\ pc[t] = "enqueue" /\ l = "switch"
      BY <1>0, <1>1, <2>3, KernelTypes DEF SuspendEnqueue, At, Goto
    <3> QED
      BY <2>1, <3>1, QAddProperties
  <2>4. CASE SuspendSwitch(t)
    BY <1>0, <1>1, <2>1, <2>4, KernelTypes DEF SuspendSwitch, Goto, queueVars
  <2> QED
    BY <2>2, <2>3, <2>4 DEF TaskSuspend
<1>5. RunInv'
  BY <1>0, <1>1, <1>2, KernelTypes, Labels DEF KernelInv, RunInv, Created
<1>6. CallInv'
  <2>1. \A u \in ToSet(suspended'.items) \ {Disk} :
          pc'[u] = "switch" \/ (Held(u)' /\ pc'[u] = "down_ret")
    <3> SUFFICES ASSUME NEW u \in ToSet(suspended'.items) \ {Disk}
                 PROVE  pc'[u] = "switch" \/ (Held(u)' /\ pc'[u] = "down_ret")
      OBVIOUS
    <3>1. CASE u = t
      <4>1. l \in {"switch", "down_ret"} /\ pc'[t] = l
        BY <1>1, <1>4, <3>1, KernelTypes
      <4>2. Held(t)'
        BY <1>0, <1>3 DEF HeldKept, Held
      <4> QED
        BY <3>1, <4>1, <4>2
    <3>2. CASE u # t
      <4>1. u \in ToSet(suspended.items) \ {Disk} /\ u \in Tasks
        BY <1>4, <3>2, KernelTypes
      <4>2. pc'[u] = pc[u]
        BY <1>1, <3>2, <4>1, KernelTypes
      <4> QED
        BY <1>3, <4>1, <4>2 DEF KernelInv, CallInv, HeldKept
    <3> QED
      BY <3>1, <3>2
  <2> QED
    BY <1>0, <1>1, <1>2, <1>4, <2>1, KernelTypes DEF KernelInv, CallInv
<1>7. QuietPc
  BY <1>0, <1>1, KernelTypes DEF QuietPc
<1>8. QueuesTypeOK'
  BY <1>0, <1>2, <1>4 DEF KernelInv, QueuesTypeOK
<1> QED
  BY <1>2, <1>3, <1>5, <1>6, <1>7, <1>8 DEF Quiet, KernelInv

(* The steps of the kernel leave the semaphore alone. *)
LEMMA QuietSteps ==
  ASSUME KernelInv,
         \/ Loop \/ Timer \/ UNCHANGED vars
         \/ \E t \in Tasks : \/ Run(t)
                             \/ Yield(t) /\ UNCHANGED semVars
                             \/ \E new \in Tasks : Create(t, new)
                             \/ TaskSuspend(t) /\ UNCHANGED semVars
  PROVE  Quiet /\ UNCHANGED semVars
<1>1. CASE Loop
  BY <1>1, LoopQuiet DEF Loop
<1>2. CASE Timer
  BY <1>2, TickQuiet DEF Timer
<1>3. CASE UNCHANGED vars
  BY <1>3, StandStill DEF vars, kernelVars, KernelInv, TcbTypeOK, CpuTypeOK
<1>4. ASSUME NEW t \in Tasks, Run(t)
      PROVE  Quiet /\ UNCHANGED semVars
  BY <1>4, RunQuiet DEF Run
<1>5. ASSUME NEW t \in Tasks, Yield(t), UNCHANGED semVars
      PROVE  Quiet
  <2>1. current = t /\ TaskYield(t) /\ left' \in [Tasks -> 0..MaxSleep]
    BY <1>5, KernelTypes DEF Yield, At
  <2> QED
    BY <2>1, YieldQuiet
<1>6. ASSUME NEW t \in Tasks, NEW new \in Tasks, Create(t, new)
      PROVE  Quiet /\ UNCHANGED semVars
  BY <1>6, CreateQuiet DEF Create
<1>7. ASSUME NEW t \in Tasks, TaskSuspend(t)
      PROVE  Quiet
  BY <1>7, SuspendQuiet
<1> QED
  BY <1>1, <1>2, <1>3, <1>4, <1>5, <1>6, <1>7

(***************************************************************************)
(* The parts of the invariant that are about the semaphore.                *)
(***************************************************************************)

SemTypes ==
  /\ lock \in BOOLEAN
  /\ value \in Int
  /\ destroy \in BOOLEAN
  /\ wait_queue \in QueueOf(Tasks)
  /\ wake \in [Tasks -> Tasks \cup {NULL}]
  /\ ups \in 0..MaxUps
  /\ downs \in Nat

(* All of the invariant but ClosedInv, which only sem_destroy rests on. *)
Core == TypeOK /\ RunInv /\ CallInv /\ LockInv /\ WaitInv /\ WakeInv /\ CountInv

LEMMA Parts == Core <=> KernelInv /\ SemTypes /\ LockInv /\ WaitInv /\ WakeInv /\ CountInv
BY DEF Core, KernelInv, TypeOK, SemTypes, SemPC, SemCont

BlockedSet == {t \in Tasks : Blocked(t)}
UpSet == {t \in Tasks : pc[t] \in {"up", "in_up"}}

(* Counting with one task more or less. *)
LEMMA TaskCount ==
  ASSUME NEW A \in SUBSET Tasks, NEW B \in SUBSET Tasks
  PROVE  /\ Cardinality(A) \in Nat
         /\ B \subseteq A => Cardinality(B) <= Cardinality(A)
         /\ \A t : t \notin A /\ B = A \cup {t} => Cardinality(B) = Cardinality(A) + 1
         /\ \A t \in A : B = A \ {t} => Cardinality(B) = Cardinality(A) - 1
<1>1. IsFiniteSet(A) /\ IsFiniteSet(B)
  BY FS_Subset, SemaphoreAssumption
<1> QED
  BY <1>1, FS_Subset, FS_CardinalityType, FS_AddElement, FS_RemoveElement

(* A sequence without repetitions is as long as its set is large. *)
LEMMA DistinctCount ==
  ASSUME NEW s \in Seq(Tasks), IsInjective(s), NEW T \in SUBSET Tasks, ToSet(s) \subseteq T
  PROVE  Len(s) <= Cardinality(T)
<1>1. s \in [1..Len(s) -> T]
  <2>1. /\ Len(s) \in Nat
        /\ s \in [1..Len(s) -> Tasks]
        /\ DOMAIN s = 1..Len(s)
    BY LenProperties
  <2> QED
    BY <2>1 DEF ToSet
<1>2. s \in Injection(1..Len(s), T)
  BY <1>1 DEF Injection, IsInjective
<1>3. IsFiniteSet(T)
  BY FS_Subset, SemaphoreAssumption
<1>4. Cardinality(1..Len(s)) <= Cardinality(T)
  BY <1>2, <1>3, FS_Injection
<1> QED
  BY <1>4, FS_Interval, LenProperties

(* A quiet step keeps all of it. *)
LEMMA QuietKeeps ==
  ASSUME Core, Quiet, UNCHANGED semVars
  PROVE  /\ Core'
         /\ \A t \in Tasks : Blocked(t)' = Blocked(t)
<1> USE DEF semVars
<1>0. KernelInv /\ SemTypes /\ LockInv /\ WaitInv /\ WakeInv /\ CountInv
  BY Parts
<1>1. \A t \in Tasks : Blocked(t)' = Blocked(t)
  BY Labels DEF Quiet, QuietPc, Blocked
<1>2. SemTypes'
  BY <1>0 DEF SemTypes
<1>3. \A t \in Tasks : /\ pc[t] \in CriticalPC \cup {"up", "up_awake", "destroy_turn"}
                            => pc'[t] = pc[t]
                       /\ pc'[t] \in CriticalPC \cup {"up", "up_awake", "destroy_turn"}
                            => pc'[t] = pc[t]
                       /\ pc'[t] = "none" => pc[t] = "none"
  BY Labels DEF Quiet, QuietPc
<1>4. LockInv'
  <2>1. \A t \in Tasks : pc'[t] \in CriticalPC <=> pc[t] \in CriticalPC
    BY <1>3
  <2> QED
    BY <1>0, <2>1, Zenon DEF LockInv
<1>5. WaitInv'
  <2>1. ToSet(wait_queue.items) \subseteq Tasks
    BY <1>0, QueueType DEF SemTypes
  <2> QED
    BY <1>0, <2>1 DEF WaitInv, ValueCountsWaiters, Quiet, HeldKept
<1>6. WakeInv'
  <2> SUFFICES ASSUME NEW u \in Tasks, wake[u] # NULL
               PROVE  WakeInv!(u)!2'
    BY DEF WakeInv
  <2> QED
    BY <1>0, <1>3, Labels DEF WakeInv, Quiet, HeldKept, SemTypes, Created
<1>7. CountInv'
  <2>1. {t \in Tasks : Blocked(t)}' = {t \in Tasks : Blocked(t)}
    BY <1>1
  <2>2. {t \in Tasks : pc[t] \in {"up", "in_up"}}' = {t \in Tasks : pc[t] \in {"up", "in_up"}}
    <3>1. \A t \in Tasks : pc'[t] \in {"up", "in_up"} <=> pc[t] \in {"up", "in_up"}
      BY <1>3, Labels
    <3> QED
      BY <3>1
  <2> QED
    BY <1>0, <2>1, <2>2 DEF CountInv, UpsBegun, NeverOversold
<1>8. Core'
  BY <1>2, <1>4, <1>5, <1>6, <1>7, Parts, PTL DEF Quiet
<1> QED
  BY <1>1, <1>8

(***************************************************************************)
(* The steps of the running task t in a call, to the label l.              *)
(***************************************************************************)

TaskMoves(t, l) ==
  /\ current = t
  /\ pc[t] \notin SuspendPC \cup {"none"} /\ t # Disk
  /\ l \in SemPC \ {"none"}
  /\ pc' = [pc EXCEPT ![t] = l]
  /\ \/ cont' = cont /\ l \notin SuspendPC
     \/ cont' = [cont EXCEPT ![t] = "down_ret"]

Moved(t, l) ==
  /\ KernelInv' /\ HeldKept /\ ~ Held(t)
  /\ pc'[t] = l
  /\ \A u \in Tasks : u # t => pc'[u] = pc[u]

LEMMA MoveInv ==
  ASSUME KernelInv, NEW t \in Tasks, NEW l, TaskMoves(t, l),
         UNCHANGED <<status, sleeping, left, queueVars, current, remaining, loopVars>>
  PROVE  Moved(t, l)
<1> USE DEF TaskMoves, queueVars, loopVars
<1>1. ~ Held(t)
  BY Labels DEF Held
<1>2. pc'[t] = l /\ \A u \in Tasks : u # t => pc'[u] = pc[u]
  BY KernelTypes
<1>3. cont' \in [Tasks -> SemCont] /\ \A u \in Tasks : u # t => cont'[u] = cont[u]
  BY KernelTypes DEF SemCont
<1>4. TcbTypeOK' /\ QueuesTypeOK' /\ CpuTypeOK' /\ PcTypeOK(SemPC, SemCont)'
  BY <1>3, KernelTypes DEF KernelInv, TcbTypeOK, QueuesTypeOK, CpuTypeOK, PcTypeOK
<1>5. RunInv'
  BY <1>2, KernelTypes DEF KernelInv, RunInv, Created
<1>6. HeldKept
  BY <1>1, <1>2 DEF HeldKept, Held
<1>7. CallInv'
  <2>1. \A u \in ToSet(suspended.items) \ {Disk} :
          pc'[u] = "switch" \/ (Held(u)' /\ pc'[u] = "down_ret")
    <3>1. \A u \in ToSet(suspended.items) \ {Disk} : u \in Tasks /\ u # t
      BY <1>1, KernelTypes, Labels DEF KernelInv, CallInv
    <3> QED
      BY <1>2, <1>6, <3>1 DEF KernelInv, CallInv, HeldKept
  <2>2. \A u \in Tasks : pc'[u] \in SuspendPC => cont'[u] = "down_ret"
    <3>1. CallInv
      BY DEF KernelInv
    <3>2. l \in SuspendPC => cont'[t] = "down_ret"
      BY KernelTypes
    <3> QED
      BY <1>2, <1>3, <3>1, <3>2, Zenon DEF CallInv
  <2>3. pc'[Disk] = "user"
    BY <1>2, KernelTypes DEF KernelInv, CallInv
  <2> QED
    BY <2>1, <2>2, <2>3 DEF KernelInv, CallInv
<1> QED
  BY <1>1, <1>2, <1>4, <1>5, <1>6, <1>7 DEF Moved, KernelInv

(* The lock through a step of t. *)
LEMMA LockStep ==
  ASSUME LockInv, NEW t \in Tasks, NEW l, pc'[t] = l,
         \A u \in Tasks : u # t => pc'[u] = pc[u],
         \/ pc[t] \notin CriticalPC /\ l \notin CriticalPC /\ lock' = lock
         \/ ~ lock /\ lock' = TRUE /\ l \in CriticalPC
         \/ pc[t] \in CriticalPC /\ l \notin CriticalPC /\ lock' = FALSE
  PROVE  LockInv'
<1>1. CASE pc[t] \notin CriticalPC /\ l \notin CriticalPC /\ lock' = lock
  <2>1. \A u \in Tasks : pc'[u] \in CriticalPC <=> pc[u] \in CriticalPC
    BY <1>1
  <2> QED
    BY <1>1, <2>1, Zenon DEF LockInv
<1>2. CASE ~ lock /\ lock' = TRUE /\ l \in CriticalPC
  <2>1. \A u \in Tasks : pc'[u] \in CriticalPC <=> u = t
    BY <1>2 DEF LockInv
  <2> QED
    BY <1>2, <2>1 DEF LockInv
<1>3. CASE pc[t] \in CriticalPC /\ l \notin CriticalPC /\ lock' = FALSE
  <2>1. \A u \in Tasks : pc'[u] \notin CriticalPC
    BY <1>3 DEF LockInv
  <2> QED
    BY <1>3, <2>1 DEF LockInv
<1> QED
  BY <1>1, <1>2, <1>3

(* The count of blocked tasks, and of calls of sem_up, through a step of t. *)
LEMMA CountStep ==
  ASSUME NEW t \in Tasks, NEW l, pc'[t] = l,
         \A u \in Tasks : u # t => pc'[u] = pc[u]
  PROVE  /\ Cardinality(BlockedSet) \in Nat
         /\ Cardinality(UpSet) \in Nat
         /\ Blocked(t)' /\ ~ Blocked(t)
              => Cardinality(BlockedSet') = Cardinality(BlockedSet) + 1
         /\ Blocked(t) /\ ~ Blocked(t)'
              => Cardinality(BlockedSet') = Cardinality(BlockedSet) - 1
         /\ (Blocked(t)' <=> Blocked(t))
              => Cardinality(BlockedSet') = Cardinality(BlockedSet)
         /\ l \in {"up", "in_up"} /\ pc[t] \notin {"up", "in_up"}
              => Cardinality(UpSet') = Cardinality(UpSet) + 1
         /\ l \notin {"up", "in_up"} /\ pc[t] \in {"up", "in_up"}
              => Cardinality(UpSet') = Cardinality(UpSet) - 1
         /\ (l \in {"up", "in_up"} <=> pc[t] \in {"up", "in_up"})
              => Cardinality(UpSet') = Cardinality(UpSet)
<1>1. \A u \in Tasks : u # t => Blocked(u)' = Blocked(u)
  BY DEF Blocked
<1>2. /\ BlockedSet \in SUBSET Tasks /\ BlockedSet' \in SUBSET Tasks
      /\ UpSet \in SUBSET Tasks /\ UpSet' \in SUBSET Tasks
  BY DEF BlockedSet, UpSet
<1>3. /\ Cardinality(BlockedSet) \in Nat
      /\ Cardinality(UpSet) \in Nat
  BY <1>2, TaskCount
<1>4. ASSUME Blocked(t)', ~ Blocked(t)
      PROVE  Cardinality(BlockedSet') = Cardinality(BlockedSet) + 1
  <2>1. t \notin BlockedSet /\ BlockedSet' = BlockedSet \cup {t}
    BY <1>1, <1>4 DEF BlockedSet
  <2> QED
    BY <1>2, <2>1, TaskCount
<1>5. ASSUME Blocked(t), ~ Blocked(t)'
      PROVE  Cardinality(BlockedSet') = Cardinality(BlockedSet) - 1
  <2>1. t \in BlockedSet /\ BlockedSet' = BlockedSet \ {t}
    BY <1>1, <1>5 DEF BlockedSet
  <2> QED
    BY <1>2, <2>1, TaskCount
<1>6. ASSUME Blocked(t)' <=> Blocked(t)
      PROVE  Cardinality(BlockedSet') = Cardinality(BlockedSet)
  <2>1. BlockedSet' = BlockedSet
    BY <1>1, <1>6 DEF BlockedSet
  <2> QED
    BY <2>1
<1>7. ASSUME l \in {"up", "in_up"}, pc[t] \notin {"up", "in_up"}
      PROVE  Cardinality(UpSet') = Cardinality(UpSet) + 1
  <2>1. t \notin UpSet /\ UpSet' = UpSet \cup {t}
    BY <1>7 DEF UpSet
  <2> QED
    BY <1>2, <2>1, TaskCount
<1>8. ASSUME l \notin {"up", "in_up"}, pc[t] \in {"up", "in_up"}
      PROVE  Cardinality(UpSet') = Cardinality(UpSet) - 1
  <2>1. t \in UpSet /\ UpSet' = UpSet \ {t}
    BY <1>8 DEF UpSet
  <2> QED
    BY <1>2, <2>1, TaskCount
<1>9. ASSUME l \in {"up", "in_up"} <=> pc[t] \in {"up", "in_up"}
      PROVE  Cardinality(UpSet') = Cardinality(UpSet)
  <2>1. UpSet' = UpSet
    BY <1>9 DEF UpSet
  <2> QED
    BY <2>1
<1> QED
  BY <1>3, <1>4, <1>5, <1>6, <1>7, <1>8, <1>9

(* Steps of t that set nobody's pointer. *)
LEMMA WakeKept ==
  ASSUME Core, NEW t \in Tasks, NEW l, Moved(t, l), UNCHANGED <<wake, destroy>>,
         destroy => wait_queue' = wait_queue,
         \A u \in Tasks : wake[u] # NULL =>
            (QHas(wait_queue', wake[u]) <=> QHas(wait_queue, wake[u])),
         pc[t] \notin {"up_awake", "in_destroy_turn"}, l # "none",
         pc[t] = "destroy_turn" => l = "in_destroy_turn"
  PROVE  WakeInv'
<1>0. KernelInv /\ SemTypes /\ WakeInv
  BY Parts
<1> SUFFICES ASSUME NEW u \in Tasks, wake[u] # NULL
             PROVE  WakeInv!(u)!2'
  BY DEF WakeInv
<1>1. wake[u] \in Tasks
  BY <1>0 DEF SemTypes
<1>2. /\ wake[u] \notin {u, Disk}
      /\ Created(wake[u])
      /\ \/ pc[u] = "up_awake" /\ ~ QHas(wait_queue, wake[u])
         \/ /\ pc[u] \in {"destroy_turn", "in_destroy_turn"}
            /\ destroy
            /\ QHas(wait_queue, wake[u]) => wake[u] = Head(wait_queue.items)
      /\ ~ destroy => Held(wake[u]) /\ \A v \in Tasks : wake[v] = wake[u] => v = u
  BY <1>0 DEF WakeInv
<1>3. Created(wake[u])'
  BY <1>1, <1>2 DEF Moved, Created
<1>4. \/ pc'[u] = "up_awake" /\ ~ QHas(wait_queue, wake[u])'
      \/ /\ pc'[u] \in {"destroy_turn", "in_destroy_turn"}
         /\ destroy'
         /\ QHas(wait_queue, wake[u])' => wake[u] = Head(wait_queue'.items)
  BY <1>2 DEF Moved, QHas
<1>5. ~ destroy => Held(wake[u])'
  BY <1>1, <1>2 DEF Moved, HeldKept
<1> QED
  BY <1>2, <1>3, <1>4, <1>5

(* A task begins a call. *)
LEMMA CallStepInv ==
  ASSUME Core, NEW t \in Tasks, t # Disk, NEW l \in {"down", "up", "destroy"}, Call(t, l),
         l = "up" => UpsBegun < MaxUps
  PROVE  Core'
<1>0. KernelInv /\ SemTypes /\ LockInv /\ WaitInv /\ WakeInv /\ CountInv
  BY Parts
<1>1. pc[t] = "user" /\ UNCHANGED semVars
  BY DEF Call, At
<1>2. Moved(t, l)
  <2>1. TaskMoves(t, l)
    BY <1>1, Labels DEF Call, At, Goto, TaskMoves
  <2> QED
    BY <1>0, <2>1, MoveInv DEF Call
<1>3. SemTypes'
  BY <1>0, <1>1 DEF semVars, SemTypes
<1>4. LockInv'
  BY <1>0, <1>1, <1>2, LockStep, Labels DEF Moved, semVars
<1>5. WaitInv'
  <2>1. ToSet(wait_queue.items) \subseteq Tasks
    BY <1>0, QueueType DEF SemTypes
  <2> QED
    BY <1>0, <1>1, <1>2, <2>1 DEF WaitInv, ValueCountsWaiters, Moved, HeldKept, semVars
<1>6. WakeInv'
  BY <1>1, <1>2, WakeKept DEF semVars
<1>7. CountInv'
  <2>1. ~ Blocked(t) /\ ~ Blocked(t)'
    BY <1>1, <1>2, Labels DEF Blocked, Moved
  <2>2. /\ Cardinality(UpSet) \in Nat
        /\ Cardinality(BlockedSet') = Cardinality(BlockedSet)
        /\ l = "up" => Cardinality(UpSet') = Cardinality(UpSet) + 1
        /\ l # "up" => Cardinality(UpSet') = Cardinality(UpSet)
    BY <1>1, <1>2, <2>1, CountStep DEF Moved
  <2>3. ups + Cardinality(UpSet) <= MaxUps /\ (l = "up" => ups + Cardinality(UpSet) < MaxUps)
    BY <1>0 DEF CountInv, UpsBegun, UpSet
  <2>4. MaxUps \in Nat /\ ups \in Nat
    BY <1>0, SemaphoreAssumption DEF SemTypes
  <2>5. ups + Cardinality(UpSet') <= MaxUps
    BY <2>2, <2>3, <2>4
  <2> QED
    BY <1>0, <1>1, <2>2, <2>5
       DEF CountInv, UpsBegun, UpSet, BlockedSet, NeverOversold, semVars
<1> QED
  BY <1>2, <1>3, <1>4, <1>5, <1>6, <1>7, Parts, PTL DEF Moved

(* The xchgl. *)
LEMMA LockStepInv ==
  ASSUME Core, NEW t \in Tasks, Lock(t)
  PROVE  Core' /\ (\A u \in Tasks : Blocked(u)' = Blocked(u))
<1>0. KernelInv /\ SemTypes /\ LockInv /\ WaitInv /\ WakeInv /\ CountInv
  BY Parts
<1> DEFINE l == Inside[pc[t]]
<1>1. /\ current = t /\ pc[t] \in LockPC /\ ~ lock /\ lock' = TRUE
      /\ UNCHANGED <<value, destroy, wait_queue, wake, ups, downs>>
  BY DEF Lock
<1>2. /\ l \in CriticalPC
      /\ pc[t] = "destroy_turn" <=> l = "in_destroy_turn"
      /\ pc[t] = "down_ret" <=> l = "in_down_ret"
      /\ pc[t] = "up" <=> l = "in_up"
  BY <1>1, Labels DEF Inside
<1> HIDE DEF l
<1>3. Moved(t, l)
  <2>1. t # Disk
    BY <1>0, <1>1, Labels DEF KernelInv, CallInv
  <2>2. pc' = [pc EXCEPT ![t] = l] /\ cont' = cont
    BY DEF Lock, Goto, l
  <2>3. TaskMoves(t, l)
    BY <1>1, <1>2, <2>1, <2>2, Labels DEF TaskMoves
  <2> QED
    BY <1>0, <2>3, MoveInv DEF Lock
<1>4. SemTypes'
  BY <1>0, <1>1 DEF SemTypes
<1>5. LockInv'
  BY <1>0, <1>1, <1>2, <1>3, LockStep DEF Moved
<1>6. WaitInv'
  <2>1. ToSet(wait_queue.items) \subseteq Tasks
    BY <1>0, QueueType DEF SemTypes
  <2> QED
    BY <1>0, <1>1, <1>3, <2>1 DEF WaitInv, ValueCountsWaiters, Moved, HeldKept
<1>7. WakeInv'
  BY <1>1, <1>2, <1>3, WakeKept, Labels
<1>8. \A u \in Tasks : Blocked(u)' = Blocked(u)
  BY <1>1, <1>2, <1>3, Labels DEF Blocked, Moved
<1>9. CountInv'
  <2>1. BlockedSet' = BlockedSet
    BY <1>8 DEF BlockedSet
  <2>2. UpSet' = UpSet
    BY <1>1, <1>2, <1>3, Labels DEF UpSet, Moved
  <2> QED
    BY <1>0, <1>1, <2>1, <2>2 DEF CountInv, UpsBegun, UpSet, BlockedSet, NeverOversold
<1>10. Core'
  BY <1>3, <1>4, <1>5, <1>6, <1>7, <1>9, Parts, PTL DEF Moved
<1> QED
  BY <1>8, <1>10

(* What counts, in numbers. *)
LEMMA CountKept ==
  ASSUME Core, NEW t \in Tasks, NEW l, pc'[t] = l,
         \A u \in Tasks : u # t => pc'[u] = pc[u],
         SemTypes',
         \/ (Blocked(t)' <=> Blocked(t)) /\ value' + downs' + ups = value + downs + ups'
         \/ Blocked(t)' /\ ~ Blocked(t) /\ value' + downs' + ups + 1 = value + downs + ups'
         \/ Blocked(t) /\ ~ Blocked(t)' /\ value' + downs' + ups = value + downs + ups' + 1,
         \/ l \notin {"up", "in_up"} /\ ups' = ups
         \/ l \notin {"up", "in_up"} /\ pc[t] \in {"up", "in_up"} /\ ups' = ups + 1,
         NeverOversold'
  PROVE  CountInv'
<1>0. SemTypes /\ CountInv
  BY Parts
<1>1. /\ value \in Int /\ value' \in Int /\ downs \in Nat /\ downs' \in Nat
      /\ ups \in Nat /\ ups' \in Nat /\ MaxUps \in Nat /\ Initial \in Nat
  BY <1>0, SemaphoreAssumption DEF SemTypes
<1>2. pc'[t] = l /\ \A u \in Tasks : u # t => pc'[u] = pc[u]
  OBVIOUS
<1>3. Cardinality(BlockedSet) \in Nat /\ Cardinality(UpSet) \in Nat
  BY <1>2, CountStep
<1>4. /\ value + downs + Cardinality(BlockedSet) = Initial + ups
      /\ ups + Cardinality(UpSet) <= MaxUps
  BY <1>0 DEF CountInv, UpsBegun, BlockedSet, UpSet
<1>5. value' + downs' + Cardinality(BlockedSet') = Initial + ups'
  <2>1. CASE (Blocked(t)' <=> Blocked(t)) /\ value' + downs' + ups = value + downs + ups'
    BY <1>1, <1>2, <1>3, <1>4, <2>1, CountStep
  <2>2. CASE Blocked(t)' /\ ~ Blocked(t) /\ value' + downs' + ups + 1 = value + downs + ups'
    <3>1. Cardinality(BlockedSet') = Cardinality(BlockedSet) + 1
      BY <1>2, <2>2, CountStep
    <3>2. value' + downs' + ups + 1 = value + downs + ups'
      BY <2>2
    <3> QED
      BY <1>1, <1>3, <1>4, <3>1, <3>2
  <2>3. CASE Blocked(t) /\ ~ Blocked(t)' /\ value' + downs' + ups = value + downs + ups' + 1
    <3>1. Cardinality(BlockedSet') = Cardinality(BlockedSet) - 1
      BY <1>2, <2>3, CountStep
    <3>2. value' + downs' + ups = value + downs + ups' + 1
      BY <2>3
    <3> QED
      BY <1>1, <1>3, <1>4, <3>1, <3>2
  <2> QED
    BY <2>1, <2>2, <2>3
<1>6. ups' + Cardinality(UpSet') <= MaxUps
  <2>1. CASE l \notin {"up", "in_up"} /\ pc[t] \in {"up", "in_up"}
    <3>1. Cardinality(UpSet') = Cardinality(UpSet) - 1
      BY <1>2, <2>1, CountStep
    <3>2. ups' = ups \/ ups' = ups + 1
      OBVIOUS
    <3> QED
      BY <1>1, <1>3, <1>4, <3>1, <3>2
  <2>2. CASE pc[t] \notin {"up", "in_up"}
    <3>1. Cardinality(UpSet') = Cardinality(UpSet)
      BY <1>2, <2>2, CountStep
    <3> QED
      BY <1>1, <1>3, <1>4, <2>2, <3>1
  <2> QED
    BY <2>1, <2>2
<1> QED
  BY <1>5, <1>6 DEF CountInv, UpsBegun, BlockedSet, UpSet

LEMMA DownInv ==
  ASSUME Core, NEW t \in Tasks, Down(t)
  PROVE  Core'
<1>0. KernelInv /\ SemTypes /\ LockInv /\ WaitInv /\ WakeInv /\ CountInv
  BY Parts
<1>1. /\ current = t /\ pc[t] = "in_down" /\ lock' = FALSE
      /\ UNCHANGED <<destroy, wake, ups>>
  BY DEF Down, Critical, At
<1>2. t # Disk /\ ~ Blocked(t) /\ ~ Held(t)
  BY <1>0, <1>1, Labels DEF KernelInv, CallInv, Blocked, Held
<1>3. /\ wait_queue \in QueueOf(Tasks) /\ value \in Int /\ downs \in Nat /\ ups \in Nat
      /\ ToSet(wait_queue.items) \subseteq Tasks /\ t \notin ToSet(wait_queue.items)
      /\ Initial \in Nat
  BY <1>0, <1>2, QueueType, SemaphoreAssumption DEF SemTypes, WaitInv
<1>4. CASE destroy \/ value - 1 >= 0
  <2>1. /\ pc' = [pc EXCEPT ![t] = "user"] /\ UNCHANGED <<wait_queue, cont>>
        /\ destroy => value' = value /\ downs' = downs
        /\ ~ destroy => value' = value - 1 /\ downs' = downs + 1
    BY <1>3, <1>4 DEF Down, Goto
  <2>2. Moved(t, "user")
    <3>1. TaskMoves(t, "user")
      BY <1>1, <1>2, <2>1, Labels DEF TaskMoves
    <3> QED
      BY <1>0, <3>1, MoveInv DEF Down, queueVars
  <2>3. SemTypes'
    <3>1. value' \in Int /\ downs' \in Nat
      BY <1>3, <2>1
    <3> QED
      BY <1>0, <1>1, <2>1, <3>1 DEF SemTypes
  <2>4. LockInv'
    BY <1>0, <1>1, <2>2, LockStep, Labels DEF Moved
  <2>5. WaitInv'
    <3>1. \A u \in ToSet(wait_queue.items) : Held(u)'
      BY <1>0, <1>3, <2>2 DEF WaitInv, Moved, HeldKept
    <3>2. ValueCountsWaiters'
      BY <1>0, <1>1, <1>3, <1>4, <2>1 DEF WaitInv, ValueCountsWaiters
    <3> QED
      BY <1>0, <2>1, <3>1, <3>2 DEF WaitInv
  <2>6. WakeInv'
    BY <1>1, <2>1, <2>2, WakeKept
  <2>7. ~ Blocked(t)'
    BY <2>2, Labels DEF Blocked, Moved
  <2>8. NeverOversold'
    <3>1. Cardinality(BlockedSet) \in Nat
      BY TaskCount DEF BlockedSet
    <3>2. value + downs + Cardinality(BlockedSet) = Initial + ups /\ downs <= Initial + ups
      BY <1>0 DEF CountInv, BlockedSet, NeverOversold
    <3> QED
      BY <1>1, <1>3, <1>4, <2>1, <3>1, <3>2 DEF NeverOversold
  <2>9. CountInv'
    <3>1. value' + downs' = value + downs
      BY <1>3, <2>1
    <3>2. value' \in Int /\ downs' \in Int
      BY <2>3 DEF SemTypes
    <3>3. ups' = ups /\ ups \in Nat /\ value \in Int /\ downs \in Nat
      BY <1>1, <1>3
    <3>4. value' + downs' + ups = value + downs + ups'
      BY <3>1, <3>2, <3>3
    <3> QED
      BY <1>1, <1>2, <2>2, <2>3, <2>7, <2>8, <3>4, CountKept DEF Moved
  <2> QED
    BY <2>2, <2>3, <2>4, <2>5, <2>6, <2>9, Parts, PTL DEF Moved
<1>5. CASE ~ destroy /\ value - 1 < 0
  <2>1. /\ pc' = [pc EXCEPT ![t] = "suspend"] /\ cont' = [cont EXCEPT ![t] = "down_ret"]
        /\ wait_queue' = QAdd(wait_queue, t)
        /\ value' = value - 1 /\ downs' = downs
    BY <1>3, <1>5 DEF Down, Goto
  <2>2. Moved(t, "suspend")
    <3>1. TaskMoves(t, "suspend")
      BY <1>1, <1>2, <2>1, Labels DEF TaskMoves
    <3> QED
      BY <1>0, <3>1, MoveInv DEF Down, queueVars
  <2>3. /\ wait_queue' \in QueueOf(Tasks) /\ IsInjective(wait_queue'.items)
        /\ ToSet(wait_queue'.items) = ToSet(wait_queue.items) \cup {t}
        /\ QSize(wait_queue') = QSize(wait_queue) + 1
    <3>1. IsInjective(wait_queue.items)
      BY <1>0 DEF WaitInv
    <3>2. Len(Append(wait_queue.items, t)) = Len(wait_queue.items) + 1
      BY <1>3, QueueType, AppendProperties
    <3>3. wait_queue'.items = Append(wait_queue.items, t)
      BY <2>1 DEF QAdd
    <3>4. QSize(wait_queue') = QSize(wait_queue) + 1
      BY <3>2, <3>3 DEF QSize
    <3> QED
      BY <1>3, <2>1, <3>1, <3>4, QAddProperties
  <2>4. SemTypes'
    <3>1. value' \in Int
      BY <1>3, <2>1
    <3> QED
      BY <1>0, <1>1, <2>1, <2>3, <3>1 DEF SemTypes
  <2>5. LockInv'
    BY <1>0, <1>1, <2>2, LockStep, Labels DEF Moved
  <2>6. WaitInv'
    <3>1. \A u \in ToSet(wait_queue'.items) : Held(u)'
      <4>1. Held(t)'
        BY <2>2, Labels DEF Moved, Held
      <4> QED
        BY <1>0, <1>3, <2>2, <2>3, <4>1 DEF WaitInv, Moved, HeldKept
    <3>2. ValueCountsWaiters'
      <4>1. QSize(wait_queue) = IF value < 0 THEN -value ELSE 0
        BY <1>0, <1>5 DEF WaitInv, ValueCountsWaiters
      <4> QED
        BY <1>3, <1>5, <2>1, <2>3, <4>1 DEF ValueCountsWaiters
    <3> QED
      BY <2>3, <3>1, <3>2 DEF WaitInv
  <2>7. WakeInv'
    <3>1. \A u \in Tasks : wake[u] # NULL => wake[u] # t
      BY <1>0, <1>2, <1>5 DEF WakeInv
    <3>2. \A u \in Tasks : wake[u] # NULL =>
            (QHas(wait_queue', wake[u]) <=> QHas(wait_queue, wake[u]))
      BY <2>3, <3>1 DEF QHas
    <3> QED
      BY <1>1, <1>5, <2>2, <3>2, WakeKept
  <2>8. Blocked(t)'
    BY <2>2, Labels DEF Blocked, Moved
  <2>9. NeverOversold'
    BY <1>0, <1>1, <2>1 DEF CountInv, NeverOversold
  <2>10. CountInv'
    <3>1. value' + downs' + ups + 1 = value + downs + ups'
      BY <1>1, <1>3, <2>1
    <3> QED
      BY <1>1, <1>2, <2>2, <2>4, <2>8, <2>9, <3>1, CountKept DEF Moved
  <2> QED
    BY <2>2, <2>4, <2>5, <2>6, <2>7, <2>10, Parts, PTL DEF Moved
<1> QED
  BY <1>3, <1>4, <1>5

(* A task comes out of sem_down with the permit that sem_up handed to it,  *)
(* or with none when the semaphore is destroyed: it is not in the queue    *)
(* any more, so a negative value is covered by the others.                 *)
LEMMA DownReturnInv ==
  ASSUME Core, NEW t \in Tasks, DownReturn(t)
  PROVE  Core'
<1>0. KernelInv /\ SemTypes /\ LockInv /\ WaitInv /\ WakeInv /\ CountInv
  BY Parts
<1>1. /\ current = t /\ pc[t] = "in_down_ret" /\ lock' = FALSE
      /\ pc' = [pc EXCEPT ![t] = "user"] /\ cont' = cont
      /\ UNCHANGED <<destroy, wait_queue, wake, ups>>
      /\ destroy => value' = value + 1 /\ downs' = downs
      /\ ~ destroy => value' = value /\ downs' = downs + 1
  BY DEF DownReturn, Critical, At, Goto
<1>2. t # Disk /\ Blocked(t) /\ ~ Held(t)
  BY <1>0, <1>1, Labels DEF KernelInv, CallInv, Blocked, Held
<1>3. /\ wait_queue \in QueueOf(Tasks) /\ value \in Int /\ downs \in Nat /\ ups \in Nat
      /\ ToSet(wait_queue.items) \subseteq Tasks /\ t \notin ToSet(wait_queue.items)
      /\ Initial \in Nat
  BY <1>0, <1>2, QueueType, SemaphoreAssumption DEF SemTypes, WaitInv
<1>4. Moved(t, "user")
  <2>1. TaskMoves(t, "user")
    BY <1>1, <1>2, Labels DEF TaskMoves
  <2> QED
    BY <1>0, <2>1, MoveInv DEF DownReturn, queueVars
<1>5. SemTypes'
  <2>1. value' \in Int /\ downs' \in Nat
    BY <1>1, <1>3
  <2> QED
    BY <1>0, <1>1, <2>1 DEF SemTypes
<1>6. LockInv'
  BY <1>0, <1>1, <1>4, LockStep, Labels DEF Moved
<1>7. WaitInv'
  <2>1. \A u \in ToSet(wait_queue.items) : Held(u)'
    BY <1>0, <1>3, <1>4 DEF WaitInv, Moved, HeldKept
  <2>2. ValueCountsWaiters'
    BY <1>0, <1>1 DEF WaitInv, ValueCountsWaiters
  <2> QED
    BY <1>0, <1>1, <2>1, <2>2 DEF WaitInv
<1>8. WakeInv'
  BY <1>1, <1>4, WakeKept
<1>9. ~ Blocked(t)'
  BY <1>4, Labels DEF Blocked, Moved
<1>10. NeverOversold'
  <2>1. value + downs + Cardinality(BlockedSet) = Initial + ups /\ downs <= Initial + ups
    BY <1>0 DEF CountInv, BlockedSet, NeverOversold
  <2>2. CASE destroy
    BY <1>1, <2>1, <2>2 DEF NeverOversold
  <2>3. CASE ~ destroy
    <3>1. /\ Cardinality(BlockedSet \ {t}) \in Nat
          /\ Cardinality(BlockedSet \ {t}) = Cardinality(BlockedSet) - 1
          /\ Cardinality(BlockedSet) \in Nat
      BY <1>2, TaskCount DEF BlockedSet
    <3>2. ToSet(wait_queue.items) \subseteq BlockedSet \ {t}
      BY <1>0, <1>3, Labels DEF WaitInv, Held, Blocked, BlockedSet
    <3>3. Len(wait_queue.items) <= Cardinality(BlockedSet \ {t})
      <4>1. BlockedSet \ {t} \in SUBSET Tasks
        BY DEF BlockedSet
      <4> QED
        BY <1>0, <1>3, <3>2, <4>1, QueueType, DistinctCount DEF WaitInv
    <3>4. Len(wait_queue.items) = IF value < 0 THEN -value ELSE 0
      BY <1>0, <2>3 DEF WaitInv, ValueCountsWaiters, QSize
    <3>5. value + Cardinality(BlockedSet) - 1 >= 0
      BY <1>3, <3>1, <3>3, <3>4
    <3> QED
      BY <1>1, <1>3, <2>1, <2>3, <3>1, <3>5 DEF NeverOversold
  <2> QED
    BY <2>2, <2>3
<1>11. CountInv'
  <2>1. ups' = ups /\ ups \in Nat /\ value \in Int /\ downs \in Nat
    BY <1>1, <1>3
  <2>2. \/ value' = value + 1 /\ downs' = downs
        \/ value' = value /\ downs' = downs + 1
    <3>1. CASE destroy
      BY <1>1, <3>1
    <3>2. CASE ~ destroy
      BY <1>1, <3>2
    <3> QED
      BY <3>1, <3>2
  <2>3. value' + downs' + ups = value + downs + ups' + 1
    BY <2>1, <2>2
  <2> QED
    BY <1>1, <1>2, <1>4, <1>5, <1>9, <1>10, <2>3, CountKept DEF Moved
<1> QED
  BY <1>4, <1>5, <1>6, <1>7, <1>8, <1>11, Parts, PTL DEF Moved

(* The walks of sem_up and sem_destroy begin at the first waiting task. *)
LEMMA HeadItem ==
  ASSUME NEW q \in QueueOf(Tasks)
  PROVE  /\ QHead(q) \in QueueOf(Tasks) /\ QHead(q).items = q.items
         /\ q.items = << >> => QItem(QHead(q)) = NULL
         /\ q.items # << >> => /\ QItem(QHead(q)) = Head(q.items)
                               /\ Head(q.items) \in ToSet(q.items)
                               /\ Head(q.items) \in Tasks
<1>1. QHead(q) \in QueueOf(Tasks) /\ QHead(q).items = q.items
  BY QWalkProperties
<1>2. QHead(q).it = IF q.items = << >> THEN 0 ELSE 1
  BY QueueType DEF QHead
<1>3. ASSUME q.items # << >>
      PROVE  Head(q.items) = q.items[1] /\ q.items[1] \in ToSet(q.items)
  <2>1. q.items \in Seq(Tasks) /\ Len(q.items) \in Nat \ {0} /\ DOMAIN q.items = 1..Len(q.items)
    BY <1>3, QueueType, EmptySeq
  <2>2. 1 \in DOMAIN q.items
    BY <2>1
  <2> QED
    BY <1>3, <2>1, <2>2, HeadTailProperties DEF ToSet
<1>4. ToSet(q.items) \subseteq Tasks
  BY QueueType
<1> QED
  BY <1>1, <1>2, <1>3, <1>4 DEF QItem

(* Taking the first task off the queue. *)
LEMMA FirstOut ==
  ASSUME NEW q \in QueueOf(Tasks), IsInjective(q.items), q.items # << >>
  PROVE  LET d == QDel(q, Head(q.items))
         IN  /\ d \in QueueOf(Tasks)
             /\ d.items = Tail(q.items)
             /\ IsInjective(d.items)
             /\ ToSet(d.items) = ToSet(q.items) \ {Head(q.items)}
             /\ QSize(q) \in Nat \ {0}
             /\ QSize(d) = QSize(q) - 1
<1> DEFINE d == QDel(q, Head(q.items))
<1>1. q.items \in Seq(Tasks) /\ Len(q.items) \in Nat \ {0}
  BY QueueType, EmptySeq
<1>2. Head(q.items) = q.items[1] /\ Len(Tail(q.items)) = Len(q.items) - 1
  BY <1>1, HeadTailProperties
<1>3. d \in QueueOf(Tasks) /\ d.items = Tail(q.items)
  BY <1>2, QDelHead
<1>4. IsInjective(d.items) /\ ToSet(d.items) = ToSet(q.items) \ {Head(q.items)}
  BY QDelProperties
<1> QED
  BY <1>1, <1>2, <1>3, <1>4 DEF QSize

(* A step of t that awakes the task of its local pointer: nobody else comes *)
(* out of sem_down.                                                         *)
Released(t, l) ==
  /\ KernelInv' /\ ~ Held(t)
  /\ pc'[t] = l
  /\ \A u \in Tasks : u # t => pc'[u] = pc[u]
  /\ \A u \in Tasks \ {wake[t]} : Held(u) => Held(u)'

LEMMA ReleaseInv ==
  ASSUME KernelInv, NEW t \in Tasks, NEW l, TaskMoves(t, l), l \notin SuspendPC,
         AwakeLocal(t), UNCHANGED <<left, current, remaining, cont, loopVars>>,
         wake[t] # NULL => /\ wake[t] \in Tasks \ {t, Disk}
                           /\ Created(wake[t])
  PROVE  Released(t, l)
<1>1. CASE wake[t] = NULL \/ status[wake[t]] # "SUSPENDED"
  <2>1. UNCHANGED <<status, sleeping, queueVars>>
    BY <1>1 DEF AwakeLocal, AwakeTask, AwakeSuspended, AwakeSleepers, queueVars
  <2> QED
    BY <2>1, MoveInv DEF Moved, HeldKept, Released
<1>2. CASE wake[t] # NULL /\ status[wake[t]] = "SUSPENDED"
  <2> DEFINE w == wake[t]
  <2>1. w \in Tasks /\ w # t /\ w # Disk /\ pc[w] # "none" /\ status[w] = "SUSPENDED"
    BY <1>2 DEF Created
  <2>2. ~ sleeping[w] /\ w \notin ToSet(ready) /\ sleepers = EmptyQueue
    BY <2>1 DEF KernelInv, CallInv, RunInv
  <2>3. /\ status' = [status EXCEPT ![w] = "READY"]
        /\ sleeping' = [sleeping EXCEPT ![w] = FALSE]
        /\ ready' = Append(ready, w)
        /\ suspended' = QDel(suspended, w)
        /\ sleepers' = sleepers
    BY <1>2, <2>2 DEF AwakeLocal, AwakeTask, AwakeSuspended, AwakeSleepers
  <2> HIDE DEF w
  <2>4. /\ current = t /\ pc[t] \notin SuspendPC \cup {"none"} /\ t # Disk
        /\ pc' = [pc EXCEPT ![t] = l] /\ cont' = cont /\ l \in SemPC \ {"none"}
        /\ UNCHANGED <<left, current, remaining, kpc, nextTask>>
    BY DEF TaskMoves, loopVars
  <2>5. /\ ready' \in Seq(Tasks) /\ IsInjective(ready')
        /\ ToSet(ready') = ToSet(ready) \cup {w}
    BY <2>1, <2>2, <2>3, KernelTypes, AppendSet DEF KernelInv, RunInv
  <2>6. /\ suspended' \in QueueOf(Tasks) /\ IsInjective(suspended'.items)
        /\ ToSet(suspended'.items) = ToSet(suspended.items) \ {w}
    BY <2>3, KernelTypes, QDelProperties DEF KernelInv, CallInv
  <2>7. ~ Held(t)
    BY <2>4, Labels DEF Held
  <2>8. pc'[t] = l /\ \A u \in Tasks : u # t => pc'[u] = pc[u]
    BY <2>4, KernelTypes
  <2>9. \A u \in Tasks \ {w} : Held(u) => Held(u)'
    BY <2>4, <2>5, <2>7, <2>8 DEF Held
  <2>10. TcbTypeOK' /\ QueuesTypeOK' /\ CpuTypeOK' /\ PcTypeOK(SemPC, SemCont)'
    BY <2>1, <2>3, <2>4, <2>5, <2>6, KernelTypes
       DEF KernelInv, TcbTypeOK, QueuesTypeOK, CpuTypeOK, PcTypeOK, Status
  <2>11. RunInv'
    <3>1. current' \notin ToSet(ready')
      BY <2>1, <2>4, <2>5 DEF KernelInv, RunInv
    <3>2. \A u \in Tasks : Created(u)' <=> Created(u)
      BY <2>4, <2>8 DEF Created
    <3>3. \A u \in ToSet(ready') : Created(u)' /\ (u # Disk => status'[u] = "READY")
      BY <2>1, <2>3, <2>5, <3>2, KernelTypes DEF KernelInv, RunInv, Created
    <3> QED
      BY <2>4, <2>5, <3>1, <3>2, <3>3 DEF KernelInv, RunInv
  <2>12. CallInv'
    <3>1. \A u \in ToSet(suspended'.items) \ {Disk} :
            pc'[u] = "switch" \/ (Held(u)' /\ pc'[u] = "down_ret")
      <4>1. \A u \in ToSet(suspended'.items) \ {Disk} : u \in Tasks \ {w} /\ u # t
        BY <2>4, <2>6, <2>7, KernelTypes, Labels DEF KernelInv, CallInv
      <4> QED
        BY <2>6, <2>8, <2>9, <4>1 DEF KernelInv, CallInv
    <3>2. \A u \in Tasks : pc'[u] \in SuspendPC => cont'[u] = "down_ret"
      <4>1. CallInv
        BY DEF KernelInv
      <4> QED
        BY <2>4, <2>8, <4>1, Zenon DEF CallInv
    <3>3. pc'[Disk] = "user" /\ sleepers' = EmptyQueue
      BY <2>2, <2>3, <2>4, <2>8, KernelTypes DEF KernelInv, CallInv
    <3>4. \A u \in Tasks : ~ sleeping'[u]
      BY <2>1, <2>3, KernelTypes DEF KernelInv, CallInv
    <3> QED
      BY <2>6, <3>1, <3>2, <3>3, <3>4 DEF CallInv
  <2> QED
    BY <2>7, <2>8, <2>9, <2>10, <2>11, <2>12 DEF Released, KernelInv, w
<1> QED
  BY <1>1, <1>2

(* sem_up hands the new permit to the first waiting task, whose pointer no *)
(* other task has; a destroyed semaphore is left as it is.                 *)
LEMMA UpInv ==
  ASSUME Core, NEW t \in Tasks, Up(t)
  PROVE  Core'
<1>0. KernelInv /\ SemTypes /\ LockInv /\ WaitInv /\ WakeInv /\ CountInv
  BY Parts
<1>1. /\ current = t /\ pc[t] = "in_up" /\ lock' = FALSE
      /\ UNCHANGED <<destroy, cont, downs>>
  BY DEF Up, Critical, At
<1>2. t # Disk /\ ~ Blocked(t) /\ ~ Held(t)
  BY <1>0, <1>1, Labels DEF KernelInv, CallInv, Blocked, Held
<1>3. /\ wait_queue \in QueueOf(Tasks) /\ value \in Int /\ downs \in Nat /\ ups \in Nat
      /\ ToSet(wait_queue.items) \subseteq Tasks /\ t \notin ToSet(wait_queue.items)
      /\ Initial \in Nat /\ MaxUps \in Nat /\ wake \in [Tasks -> Tasks \cup {NULL}]
      /\ destroy \in BOOLEAN /\ IsInjective(wait_queue.items)
  BY <1>0, <1>2, QueueType, SemaphoreAssumption DEF SemTypes, WaitInv
<1>4. CASE destroy
  <2>1. pc' = [pc EXCEPT ![t] = "user"] /\ UNCHANGED <<value, wait_queue, wake, ups>>
    BY <1>4 DEF Up, Goto
  <2>2. Moved(t, "user")
    <3>1. TaskMoves(t, "user")
      BY <1>1, <1>2, <2>1, Labels DEF TaskMoves
    <3> QED
      BY <1>0, <3>1, MoveInv DEF Up, queueVars
  <2>3. SemTypes'
    BY <1>0, <1>1, <2>1 DEF SemTypes
  <2>4. LockInv'
    BY <1>0, <1>1, <2>2, LockStep, Labels DEF Moved
  <2>5. WaitInv'
    <3>1. \A u \in ToSet(wait_queue.items) : Held(u)'
      BY <1>0, <1>3, <2>2 DEF WaitInv, Moved, HeldKept
    <3> QED
      BY <1>0, <1>1, <1>4, <2>1, <3>1 DEF WaitInv, ValueCountsWaiters
  <2>6. WakeInv'
    BY <1>1, <2>1, <2>2, WakeKept
  <2>7. ~ Blocked(t)'
    BY <2>2, Labels DEF Blocked, Moved
  <2>8. NeverOversold'
    BY <1>0, <1>1, <2>1 DEF CountInv, NeverOversold
  <2>9. CountInv'
    <3>1. value' + downs' + ups = value + downs + ups'
      BY <1>1, <2>1
    <3> QED
      BY <1>1, <1>2, <2>1, <2>2, <2>3, <2>7, <2>8, <3>1, CountKept DEF Moved
  <2> QED
    BY <2>2, <2>3, <2>4, <2>5, <2>6, <2>9, Parts, PTL DEF Moved
<1>5. CASE ~ destroy
  <2> DEFINE q == QHead(wait_queue)
             w == QItem(q)
  <2>1. /\ pc' = [pc EXCEPT ![t] = "up_awake"]
        /\ value' = value + 1 /\ ups' = ups + 1
        /\ wake' = [wake EXCEPT ![t] = w]
        /\ wait_queue' = IF w = NULL THEN q ELSE QDel(q, w)
    BY <1>5 DEF Up, Goto
  <2>2. Moved(t, "up_awake")
    <3>1. TaskMoves(t, "up_awake")
      BY <1>1, <1>2, <2>1, Labels DEF TaskMoves
    <3> QED
      BY <1>0, <3>1, MoveInv DEF Up, queueVars
  <2>3. /\ q \in QueueOf(Tasks) /\ q.items = wait_queue.items
        /\ q.items = << >> => w = NULL
        /\ q.items # << >> => w = Head(q.items) /\ w \in ToSet(q.items) /\ w \in Tasks
    BY <1>3, HeadItem
  <2>4. /\ wait_queue' \in QueueOf(Tasks) /\ IsInjective(wait_queue'.items)
        /\ ToSet(wait_queue'.items) = ToSet(wait_queue.items) \ {w}
        /\ QSize(wait_queue') = IF QSize(wait_queue) = 0 THEN 0 ELSE QSize(wait_queue) - 1
    <3>1. CASE q.items = << >>
      <4>1. QSize(wait_queue) = 0 /\ ToSet(q.items) = {}
        BY <2>3, <3>1, EmptyQueueProperties, EmptySeq DEF QSize, EmptyQueue
      <4>2. wait_queue' = q
        BY <2>1, <2>3, <3>1
      <4> QED
        BY <1>3, <2>3, <4>1, <4>2 DEF QSize
    <3>2. CASE q.items # << >>
      <4>1. w = Head(q.items) /\ w # NULL
        BY <2>3, <3>2, KernelAssumption
      <4>2. wait_queue' = QDel(q, Head(q.items))
        BY <2>1, <4>1
      <4>3. QSize(q) = QSize(wait_queue)
        BY <2>3 DEF QSize
      <4> QED
        BY <1>3, <2>3, <3>2, <4>1, <4>2, <4>3, FirstOut
    <3> QED
      BY <3>1, <3>2
  <2> HIDE DEF q, w
  <2>5. w # NULL => w \in ToSet(wait_queue.items) /\ w \in Tasks
    BY <2>3
  <2>6. SemTypes'
    <3>1. Cardinality(UpSet) \in Nat /\ Cardinality(UpSet \ {t}) \in Nat
          /\ Cardinality(UpSet \ {t}) = Cardinality(UpSet) - 1
      BY <1>1, TaskCount DEF UpSet
    <3>2. ups + Cardinality(UpSet) <= MaxUps
      BY <1>0 DEF CountInv, UpsBegun, UpSet
    <3>3. ups' \in 0..MaxUps /\ value' \in Int
      BY <1>3, <2>1, <3>1, <3>2
    <3>4. wake' \in [Tasks -> Tasks \cup {NULL}]
      BY <1>3, <2>1, <2>5
    <3> QED
      BY <1>0, <1>1, <2>4, <3>3, <3>4 DEF SemTypes
  <2>7. LockInv'
    BY <1>0, <1>1, <2>2, LockStep, Labels DEF Moved
  <2>8. WaitInv'
    <3>1. \A u \in ToSet(wait_queue'.items) : Held(u)'
      BY <1>0, <1>3, <2>2, <2>4 DEF WaitInv, Moved, HeldKept
    <3>2. ValueCountsWaiters'
      <4>1. QSize(wait_queue) = IF value < 0 THEN -value ELSE 0
        BY <1>0, <1>5 DEF WaitInv, ValueCountsWaiters
      <4> QED
        BY <1>1, <1>3, <2>1, <2>4, <4>1 DEF ValueCountsWaiters
    <3> QED
      BY <2>4, <3>1, <3>2 DEF WaitInv
  <2>9. WakeInv'
    <3>1. wake'[t] = w /\ \A u \in Tasks : u # t => wake'[u] = wake[u]
      BY <1>3, <2>1
    <3>2. \A u \in Tasks : wake[u] # NULL => /\ wake[u] \notin {u, Disk}
                                             /\ Created(wake[u])
                                             /\ pc[u] = "up_awake"
                                             /\ ~ QHas(wait_queue, wake[u])
                                             /\ Held(wake[u])
                                             /\ \A v \in Tasks : wake[v] = wake[u] => v = u
      BY <1>0, <1>5 DEF WakeInv
    <3>3. ~ destroy'
      BY <1>1, <1>5
    <3>4. ASSUME NEW c, c = w, c # NULL
          PROVE  /\ c \notin {t, Disk} /\ Created(c)' /\ pc'[t] = "up_awake"
                 /\ ~ QHas(wait_queue, c)' /\ Held(c)'
                 /\ \A v \in Tasks : wake'[v] = c => v = t
      <4>1. Held(c) /\ c \in Tasks /\ c \in ToSet(wait_queue.items)
        BY <1>0, <2>5, <3>4 DEF WaitInv
      <4>2. c \notin {t, Disk} /\ Created(c)
        BY <1>0, <1>2, <4>1, Labels DEF Held, KernelInv, CallInv, Created
      <4>3. Created(c)' /\ Held(c)' /\ pc'[t] = "up_awake"
        BY <2>2, <4>1, <4>2 DEF Moved, HeldKept, Created
      <4>4. ~ QHas(wait_queue, c)'
        BY <2>4, <3>4 DEF QHas
      <4>5. \A v \in Tasks : wake'[v] = c => v = t
        BY <3>1, <3>2, <3>4, <4>1 DEF QHas
      <4> QED
        BY <4>2, <4>3, <4>4, <4>5
    <3>5. ASSUME NEW u \in Tasks, u # t, wake[u] # NULL
          PROVE  /\ wake[u] \notin {u, Disk} /\ Created(wake[u])' /\ pc'[u] = "up_awake"
                 /\ ~ QHas(wait_queue, wake[u])' /\ Held(wake[u])'
                 /\ \A v \in Tasks : wake'[v] = wake[u] => v = u
      <4>1. wake[u] \in Tasks
        BY <1>3, <3>5
      <4>2. Created(wake[u])' /\ Held(wake[u])' /\ pc'[u] = "up_awake"
        BY <2>2, <3>1, <3>2, <3>5, <4>1 DEF Moved, HeldKept, Created
      <4>3. ~ QHas(wait_queue, wake[u])'
        BY <2>4, <3>1, <3>2, <3>5 DEF QHas
      <4>4. w # wake[u]
        BY <2>5, <3>2, <3>5 DEF QHas
      <4> QED
        BY <3>1, <3>2, <3>5, <4>2, <4>3, <4>4
    <3> SUFFICES ASSUME NEW u \in Tasks, wake'[u] # NULL
                 PROVE  WakeInv!(u)!2'
      BY DEF WakeInv
    <3>6. CASE u = t
      <4>1. PICK c : c = w
        OBVIOUS
      <4>2. wake'[u] = c /\ c # NULL
        BY <3>1, <3>6, <4>1
      <4> QED
        BY <3>3, <3>4, <3>6, <4>1, <4>2 DEF QHas, Created
    <3>7. CASE u # t
      BY <3>1, <3>3, <3>5, <3>7 DEF QHas
    <3> QED
      BY <3>6, <3>7
  <2>10. ~ Blocked(t)'
    BY <2>2, Labels DEF Blocked, Moved
  <2>11. NeverOversold'
    BY <1>0, <1>1, <1>3, <2>1 DEF CountInv, NeverOversold
  <2>12. CountInv'
    <3>1. value' + downs' + ups = value + downs + ups'
      BY <1>1, <1>3, <2>1
    <3> QED
      BY <1>1, <1>2, <2>1, <2>2, <2>6, <2>10, <2>11, <3>1, CountKept DEF Moved
  <2> QED
    BY <2>2, <2>6, <2>7, <2>8, <2>9, <2>12, Parts, PTL DEF Moved
<1> QED
  BY <1>4, <1>5

(* The awoken task is not in the wait queue, and no other sem_up has it. *)
LEMMA UpAwakeInv ==
  ASSUME Core, NEW t \in Tasks, UpAwake(t)
  PROVE  Core'
<1>0. KernelInv /\ SemTypes /\ LockInv /\ WaitInv /\ WakeInv /\ CountInv
  BY Parts
<1>1. /\ current = t /\ pc[t] = "up_awake" /\ pc' = [pc EXCEPT ![t] = "user"]
      /\ wake' = [wake EXCEPT ![t] = NULL]
      /\ AwakeLocal(t)
      /\ UNCHANGED <<left, current, remaining, cont, loopVars, lock, value, destroy,
                     wait_queue, ups, downs>>
  BY DEF UpAwake, At, Goto
<1>2. t # Disk /\ ~ Blocked(t)
  BY <1>0, <1>1, Labels DEF KernelInv, CallInv, Blocked
<1>3. /\ wake \in [Tasks -> Tasks \cup {NULL}] /\ NULL \notin Tasks
      /\ ToSet(wait_queue.items) \subseteq Tasks
      /\ destroy \in BOOLEAN
  BY <1>0, QueueType, KernelAssumption DEF SemTypes
<1>4. wake[t] # NULL => /\ wake[t] \in Tasks \ {t, Disk} /\ Created(wake[t])
                        /\ ~ QHas(wait_queue, wake[t])
                        /\ ~ destroy => \A v \in Tasks : wake[v] = wake[t] => v = t
  BY <1>0, <1>1, <1>3 DEF WakeInv
<1>5. Released(t, "user")
  <2>1. TaskMoves(t, "user") /\ "user" \notin SuspendPC
    BY <1>1, <1>2, Labels DEF TaskMoves
  <2> QED
    BY <1>0, <1>1, <1>4, <2>1, ReleaseInv
<1>6. SemTypes'
  BY <1>0, <1>1 DEF SemTypes
<1>7. LockInv'
  BY <1>0, <1>1, <1>5, LockStep, Labels DEF Released
<1>8. WaitInv'
  <2>1. \A u \in ToSet(wait_queue.items) : u \in Tasks \ {wake[t]}
    BY <1>3, <1>4 DEF QHas
  <2> QED
    BY <1>0, <1>1, <1>5, <2>1 DEF WaitInv, ValueCountsWaiters, Released
<1>9. WakeInv'
  <2>1. wake'[t] = NULL /\ \A u \in Tasks : u # t => wake'[u] = wake[u]
    BY <1>1, <1>3
  <2> SUFFICES ASSUME NEW u \in Tasks, wake'[u] # NULL
               PROVE  WakeInv!(u)!2'
    BY DEF WakeInv
  <2>2. u # t /\ wake'[u] = wake[u] /\ wake[u] \in Tasks
    BY <1>3, <2>1
  <2>3. /\ wake[u] \notin {u, Disk}
        /\ Created(wake[u])
        /\ \/ pc[u] = "up_awake" /\ ~ QHas(wait_queue, wake[u])
           \/ /\ pc[u] \in {"destroy_turn", "in_destroy_turn"}
              /\ destroy
              /\ QHas(wait_queue, wake[u]) => wake[u] = Head(wait_queue.items)
        /\ ~ destroy => Held(wake[u]) /\ \A v \in Tasks : wake[v] = wake[u] => v = u
    BY <1>0, <2>2 DEF WakeInv
  <2>4. Created(wake[u])'
    BY <2>2, <2>3, <1>5 DEF Released, Created
  <2>5. ~ destroy => Held(wake[u])' /\ \A v \in Tasks : wake'[v] = wake[u] => v = u
    BY <1>5, <2>1, <2>2, <2>3 DEF Released
  <2>6. pc'[u] = pc[u]
    BY <1>5, <2>2 DEF Released
  <2> QED
    BY <1>1, <2>2, <2>3, <2>4, <2>5, <2>6 DEF QHas
<1>10. CountInv'
  <2>1. ~ Blocked(t)'
    BY <1>5, Labels DEF Blocked, Released
  <2>2. NeverOversold'
    BY <1>0, <1>1 DEF CountInv, NeverOversold
  <2>3. value' + downs' + ups = value + downs + ups'
    BY <1>1
  <2> QED
    BY <1>1, <1>2, <1>5, <1>6, <2>1, <2>2, <2>3, CountKept DEF Released
<1> QED
  BY <1>5, <1>6, <1>7, <1>8, <1>9, <1>10, Parts, PTL DEF Released

(* sem_destroy points at the head of the queue q that its step leaves. *)
LEMMA TakeHeadInv ==
  ASSUME KernelInv, SemTypes, WaitInv, WakeInv, NEW t \in Tasks, NEW l,
         NEW q \in QueueOf(Tasks), IsInjective(q.items),
         ToSet(q.items) \subseteq ToSet(wait_queue.items),
         \/ q.items = wait_queue.items
         \/ \A u \in Tasks \ {t} : wake[u] \notin ToSet(q.items),
         wait_queue' = QHead(q),
         wake' = [wake EXCEPT ![t] = QItem(QHead(q))],
         l = IF QItem(QHead(q)) = NULL THEN "user" ELSE "destroy_turn",
         pc'[t] = l, ~ Held(t), ~ Held(t)',
         \A u \in Tasks : u # t => pc'[u] = pc[u],
         \A u \in ToSet(q.items) : Held(u)',
         destroy', destroy \/ q.items = wait_queue.items
  PROVE  /\ wait_queue' \in QueueOf(Tasks)
         /\ wake' \in [Tasks -> Tasks \cup {NULL}]
         /\ WaitInv'
         /\ WakeInv'
<1>1. /\ QHead(q) \in QueueOf(Tasks) /\ QHead(q).items = q.items
      /\ q.items = << >> => QItem(QHead(q)) = NULL
      /\ q.items # << >> => /\ QItem(QHead(q)) = Head(q.items)
                            /\ Head(q.items) \in ToSet(q.items)
                            /\ Head(q.items) \in Tasks
  BY HeadItem
<1>2. PICK w : w = QItem(QHead(q))
  OBVIOUS
<1>3. /\ w \in Tasks \cup {NULL}
      /\ w # NULL => w = Head(q.items) /\ w \in ToSet(q.items) /\ w \in Tasks
  BY <1>1, <1>2
<1>4. /\ wake \in [Tasks -> Tasks \cup {NULL}] /\ NULL \notin Tasks
      /\ wake' \in [Tasks -> Tasks \cup {NULL}]
      /\ wake'[t] = w /\ \A u \in Tasks : u # t => wake'[u] = wake[u]
  BY <1>2, <1>3, KernelAssumption DEF SemTypes
<1>5. wait_queue'.items = q.items
  BY <1>1
<1>6. WaitInv'
  BY <1>5 DEF WaitInv, ValueCountsWaiters
<1>7. ASSUME w # NULL
      PROVE  /\ w \notin {t, Disk} /\ Created(w)' /\ pc'[t] = "destroy_turn"
             /\ w = Head(wait_queue'.items)
  <2>1. Held(w)' /\ w \in Tasks
    BY <1>3, <1>7
  <2>2. w # t
    BY <2>1
  <2>3. pc'[w] = pc[w] /\ Held(w)
    BY <1>3, <1>7, <2>1, <2>2 DEF WaitInv
  <2>4. w # Disk /\ Created(w)'
    BY <2>3, Labels DEF Held, KernelInv, CallInv, Created
  <2> QED
    BY <1>2, <1>3, <1>5, <1>7, <2>2, <2>4
<1>8. ASSUME NEW u \in Tasks, u # t, wake[u] # NULL
      PROVE  /\ wake[u] \notin {u, Disk} /\ Created(wake[u])'
             /\ \/ pc'[u] = "up_awake" /\ ~ QHas(wait_queue, wake[u])'
                \/ /\ pc'[u] \in {"destroy_turn", "in_destroy_turn"}
                   /\ QHas(wait_queue, wake[u])' => wake[u] = Head(wait_queue'.items)
  <2>1. wake[u] \in Tasks /\ wake'[u] = wake[u] /\ pc'[u] = pc[u]
    BY <1>4, <1>8
  <2>2. /\ wake[u] \notin {u, Disk}
        /\ Created(wake[u])
        /\ \/ pc[u] = "up_awake" /\ ~ QHas(wait_queue, wake[u])
           \/ /\ pc[u] \in {"destroy_turn", "in_destroy_turn"}
              /\ QHas(wait_queue, wake[u]) => wake[u] = Head(wait_queue.items)
    BY <1>8 DEF WakeInv
  <2>3. Created(wake[u])'
    BY <2>1, <2>2 DEF Created
  <2>4. QHas(wait_queue, wake[u])' <=> wake[u] \in ToSet(q.items)
    BY <1>5, <2>1 DEF QHas
  <2>5. CASE q.items = wait_queue.items
    BY <1>5, <2>1, <2>2, <2>3, <2>4, <2>5 DEF QHas
  <2>6. CASE \A v \in Tasks \ {t} : wake[v] \notin ToSet(q.items)
    BY <1>8, <2>1, <2>2, <2>3, <2>4, <2>6
  <2> QED
    BY <2>5, <2>6
<1>9. WakeInv'
  <2> SUFFICES ASSUME NEW u \in Tasks, wake'[u] # NULL
               PROVE  WakeInv!(u)!2'
    BY DEF WakeInv
  <2>1. CASE u = t
    BY <1>4, <1>7, <2>1 DEF Created
  <2>2. CASE u # t
    BY <1>4, <1>8, <2>2 DEF Created, QHas
  <2> QED
    BY <2>1, <2>2
<1> QED
  BY <1>1, <1>4, <1>6, <1>9

(* sem_destroy closes the semaphore. *)
LEMMA DestroyInv ==
  ASSUME Core, NEW t \in Tasks, Destroy(t)
  PROVE  Core'
<1>0. KernelInv /\ SemTypes /\ LockInv /\ WaitInv /\ WakeInv /\ CountInv
  BY Parts
<1> DEFINE l == IF QItem(QHead(wait_queue)) = NULL THEN "user" ELSE "destroy_turn"
<1>1. /\ current = t /\ pc[t] = "in_destroy" /\ lock' = FALSE /\ destroy' = TRUE
      /\ pc' = [pc EXCEPT ![t] = l]
      /\ wait_queue' = QHead(wait_queue)
      /\ wake' = [wake EXCEPT ![t] = QItem(QHead(wait_queue))]
      /\ UNCHANGED <<cont, value, ups, downs>>
  BY DEF Destroy, Critical, At, Goto, TakeHead
<1>2. t # Disk /\ ~ Blocked(t) /\ l \in {"user", "destroy_turn"}
  BY <1>0, <1>1, Labels DEF KernelInv, CallInv, Blocked
<1>3. /\ wait_queue \in QueueOf(Tasks) /\ IsInjective(wait_queue.items)
      /\ ToSet(wait_queue.items) \subseteq Tasks
  BY <1>0, QueueType DEF SemTypes, WaitInv
<1>4. Moved(t, l)
  <2>1. TaskMoves(t, l)
    BY <1>1, <1>2, Labels DEF TaskMoves
  <2> QED
    BY <1>0, <2>1, MoveInv DEF Destroy, queueVars
<1>5. /\ wait_queue' \in QueueOf(Tasks)
      /\ wake' \in [Tasks -> Tasks \cup {NULL}]
      /\ WaitInv'
      /\ WakeInv'
  <2>1. \A u \in ToSet(wait_queue.items) : Held(u)'
    BY <1>0, <1>3, <1>4 DEF WaitInv, Moved, HeldKept
  <2>2. ~ Held(t) /\ ~ Held(t)' /\ pc'[t] = l /\ \A u \in Tasks : u # t => pc'[u] = pc[u]
    BY <1>2, <1>4, Labels DEF Moved, Held
  <2>3. PICK q : q = wait_queue
    OBVIOUS
  <2> HIDE DEF l
  <2>4. l = IF QItem(QHead(q)) = NULL THEN "user" ELSE "destroy_turn"
    BY <2>3 DEF l
  <2> QED
    BY <1>0, <1>1, <1>3, <2>1, <2>2, <2>3, <2>4, TakeHeadInv
<1> HIDE DEF l
<1>6. SemTypes'
  BY <1>0, <1>1, <1>5 DEF SemTypes
<1>7. LockInv'
  BY <1>0, <1>1, <1>2, <1>4, LockStep, Labels DEF Moved
<1>8. CountInv'
  <2>1. ~ Blocked(t)'
    BY <1>2, <1>4, Labels DEF Blocked, Moved
  <2>2. NeverOversold'
    BY <1>0, <1>1 DEF CountInv, NeverOversold
  <2>3. value' + downs' + ups = value + downs + ups'
    BY <1>1
  <2> QED
    BY <1>1, <1>2, <1>4, <1>6, <2>1, <2>2, <2>3, CountKept DEF Moved
<1> QED
  BY <1>4, <1>5, <1>6, <1>7, <1>8, Parts, PTL DEF Moved

(* The queue that a turn of sem_destroy leaves: without its first task, or *)
(* the same when another sem_destroy has been here.                        *)
LEMMA TurnQueue ==
  ASSUME Core, NEW t \in Tasks, pc[t] = "in_destroy_turn"
  PROVE  LET q == QDel(wait_queue, wake[t])
         IN  /\ q \in QueueOf(Tasks) /\ IsInjective(q.items)
             /\ ToSet(q.items) = ToSet(wait_queue.items) \ {wake[t]}
             /\ \/ q.items = wait_queue.items /\ ~ QHas(wait_queue, wake[t])
                \/ /\ destroy
                   /\ wake[t] = Head(wait_queue.items) /\ wait_queue.items # << >>
                   /\ QHas(wait_queue, wake[t])
                   /\ q.items = Tail(wait_queue.items)
                   /\ \A u \in Tasks : wake[u] \notin ToSet(q.items)
<1> DEFINE q == QDel(wait_queue, wake[t])
<1>0. SemTypes /\ WaitInv /\ WakeInv
  BY Parts
<1>1. /\ wait_queue \in QueueOf(Tasks) /\ IsInjective(wait_queue.items)
      /\ ToSet(wait_queue.items) \subseteq Tasks /\ NULL \notin Tasks
  BY <1>0, QueueType, KernelAssumption DEF SemTypes, WaitInv
<1>2. /\ q \in QueueOf(Tasks) /\ IsInjective(q.items)
      /\ ToSet(q.items) = ToSet(wait_queue.items) \ {wake[t]}
  BY <1>1, QDelProperties
<1>3. CASE wake[t] \notin ToSet(wait_queue.items)
  BY <1>1, <1>2, <1>3, QDelAbsent DEF QHas
<1>4. CASE wake[t] \in ToSet(wait_queue.items)
  <2>1. wake[t] # NULL
    BY <1>1, <1>4
  <2>2. destroy /\ wake[t] = Head(wait_queue.items)
    BY <1>0, <1>4, <2>1 DEF WakeInv, QHas
  <2>3. wait_queue.items # << >>
    BY <1>4, EmptyQueueProperties DEF EmptyQueue
  <2>4. q.items = Tail(wait_queue.items)
    BY <1>1, <2>2, <2>3, FirstOut
  <2>5. \A u \in Tasks : wake[u] \in ToSet(wait_queue.items) => wake[u] = wake[t]
    BY <1>0, <1>1, <2>2 DEF WakeInv, QHas
  <2> QED
    BY <1>2, <1>4, <2>2, <2>3, <2>4, <2>5 DEF QHas
<1> QED
  BY <1>3, <1>4

LEMMA DestroyTurnInv ==
  ASSUME Core, ClosedInv, NEW t \in Tasks, DestroyTurn(t)
  PROVE  Core'
<1>0. KernelInv /\ SemTypes /\ LockInv /\ WaitInv /\ WakeInv /\ CountInv
  BY Parts
<1>1. PICK q : q = QDel(wait_queue, wake[t])
  OBVIOUS
<1> DEFINE l == IF QItem(QHead(q)) = NULL THEN "user" ELSE "destroy_turn"
<1>2. /\ current = t /\ pc[t] = "in_destroy_turn" /\ lock' = FALSE
      /\ pc' = [pc EXCEPT ![t] = l]
      /\ wait_queue' = QHead(q)
      /\ wake' = [wake EXCEPT ![t] = QItem(QHead(q))]
      /\ AwakeLocal(t)
      /\ UNCHANGED <<left, current, remaining, cont, loopVars, value, destroy, ups, downs>>
  BY <1>1 DEF DestroyTurn, Critical, At, Goto, TakeHead
<1>3. t # Disk /\ ~ Blocked(t) /\ l \in {"user", "destroy_turn"}
  BY <1>0, <1>2, Labels DEF KernelInv, CallInv, Blocked
<1>4. /\ q \in QueueOf(Tasks) /\ IsInjective(q.items)
      /\ ToSet(q.items) = ToSet(wait_queue.items) \ {wake[t]}
      /\ q.items = wait_queue.items \/ \A u \in Tasks : wake[u] \notin ToSet(q.items)
      /\ ToSet(wait_queue.items) \subseteq Tasks
  BY <1>0, <1>1, <1>2, TurnQueue, QueueType DEF SemTypes
<1> HIDE DEF l
<1>5. Released(t, l)
  <2>1. wake[t] # NULL => wake[t] \in Tasks \ {t, Disk} /\ Created(wake[t])
    BY <1>0 DEF WakeInv, SemTypes
  <2>2. TaskMoves(t, l) /\ l \notin SuspendPC
    BY <1>2, <1>3, Labels DEF TaskMoves
  <2> QED
    BY <1>0, <1>2, <2>1, <2>2, ReleaseInv
<1>6. destroy
  BY <1>2 DEF ClosedInv
<1>7. /\ wait_queue' \in QueueOf(Tasks)
      /\ wake' \in [Tasks -> Tasks \cup {NULL}]
      /\ WaitInv'
      /\ WakeInv'
  <2>1. \A u \in ToSet(q.items) : Held(u)'
    BY <1>0, <1>4, <1>5 DEF WaitInv, Released
  <2>2. ~ Held(t) /\ ~ Held(t)' /\ pc'[t] = l /\ \A u \in Tasks : u # t => pc'[u] = pc[u]
    BY <1>3, <1>5, Labels DEF Released, Held
  <2>3. l = IF QItem(QHead(q)) = NULL THEN "user" ELSE "destroy_turn"
    BY DEF l
  <2>4. destroy' /\ ToSet(q.items) \subseteq ToSet(wait_queue.items)
    BY <1>2, <1>4, <1>6
  <2> QED
    BY <1>0, <1>2, <1>4, <1>6, <2>1, <2>2, <2>3, <2>4, TakeHeadInv
<1>8. SemTypes'
  BY <1>0, <1>2, <1>7 DEF SemTypes
<1>9. LockInv'
  BY <1>0, <1>2, <1>3, <1>5, LockStep, Labels DEF Released
<1>10. CountInv'
  <2>1. ~ Blocked(t)'
    BY <1>3, <1>5, Labels DEF Blocked, Released
  <2>2. NeverOversold'
    BY <1>0, <1>2 DEF CountInv, NeverOversold
  <2>3. value' + downs' + ups = value + downs + ups'
    BY <1>2
  <2> QED
    BY <1>2, <1>3, <1>5, <1>8, <2>1, <2>2, <2>3, CountKept DEF Released
<1> QED
  BY <1>5, <1>7, <1>8, <1>9, <1>10, Parts, PTL DEF Released

(***************************************************************************)
(* The invariant holds.                                                    *)
(***************************************************************************)

LEMMA InitInv ==
  ASSUME Init
  PROVE  IInv
<1>0. /\ status = [t \in Tasks |-> IF t = Disk THEN "SUSPENDED" ELSE "READY"]
      /\ sleeping = [t \in Tasks |-> FALSE] /\ left = [t \in Tasks |-> 0]
      /\ pc = [t \in Tasks |-> IF t \in {Disk, User} THEN "user" ELSE "none"]
      /\ cont = [t \in Tasks |-> "user"]
      /\ ready = <<Disk, User>> /\ suspended = QAdd(EmptyQueue, Disk)
      /\ sleepers = EmptyQueue
      /\ current = TaskKernel /\ remaining = QUANTUM /\ kpc = "loop" /\ nextTask = NULL
      /\ lock = FALSE /\ value = Initial /\ destroy = FALSE /\ wait_queue = EmptyQueue
      /\ wake = [t \in Tasks |-> NULL] /\ ups = 0 /\ downs = 0
  BY DEF Init, KernelInit, TcbInit, QueuesInit, ProcessorInit
<1>1. /\ EmptyQueue \in QueueOf(Tasks)
      /\ ToSet(EmptyQueue.items) = {}
      /\ IsInjective(EmptyQueue.items)
      /\ QSize(EmptyQueue) = 0
  BY EmptyQueueProperties, EmptySeq DEF EmptyQueue, QSize
<1>2. /\ suspended \in QueueOf(Tasks)
      /\ ToSet(suspended.items) = {Disk}
      /\ IsInjective(suspended.items)
  <2>1. Disk \in Tasks /\ suspended = QAdd(EmptyQueue, Disk)
    BY <1>0, KernelAssumption
  <2> HIDE DEF EmptyQueue
  <2>2. PICK e : e = EmptyQueue
    OBVIOUS
  <2>3. /\ e \in QueueOf(Tasks) /\ ToSet(e.items) = {} /\ IsInjective(e.items)
        /\ suspended = QAdd(e, Disk)
    BY <1>1, <2>1, <2>2
  <2> QED
    BY <2>1, <2>3, QAddProperties
<1>3. /\ ready \in Seq(Tasks)
      /\ ToSet(ready) = {Disk, User}
      /\ IsInjective(ready)
  <2>1. DOMAIN ready = {1, 2} /\ ready[1] = Disk /\ ready[2] = User /\ ready \in Seq(Tasks)
    BY <1>0, KernelAssumption
  <2> QED
    BY <2>1, KernelAssumption DEF ToSet, IsInjective
<1>4. KernelInv
  <2>1. TcbTypeOK /\ CpuTypeOK /\ PcTypeOK(SemPC, SemCont)
    BY <1>0, KernelAssumption
       DEF TcbTypeOK, CpuTypeOK, PcTypeOK, SemPC, SemCont, Status, KernelPC
  <2>2. QueuesTypeOK
    BY <1>0, <1>1, <1>2, <1>3 DEF QueuesTypeOK
  <2>3. RunInv
    BY <1>0, <1>3, KernelAssumption DEF RunInv, Created
  <2>4. CallInv
    BY <1>0, <1>2, KernelAssumption, Labels DEF CallInv
  <2> QED
    BY <2>1, <2>2, <2>3, <2>4 DEF KernelInv
<1>5. SemTypes
  <2>1. ups \in 0..MaxUps /\ value \in Int /\ downs \in Nat
    BY <1>0, SemaphoreAssumption
  <2>2. wake \in [Tasks -> Tasks \cup {NULL}] /\ lock \in BOOLEAN /\ destroy \in BOOLEAN
    BY <1>0
  <2> QED
    BY <1>0, <1>1, <2>1, <2>2 DEF SemTypes
<1>6. \A t \in Tasks : pc[t] \in {"user", "none"}
  BY <1>0
<1>7. LockInv /\ ClosedInv
  BY <1>0, <1>6, Labels DEF LockInv, ClosedInv
<1>8. WaitInv /\ WakeInv
  BY <1>0, <1>1, SemaphoreAssumption DEF WaitInv, WakeInv, ValueCountsWaiters
<1>9. CountInv
  <2>1. BlockedSet = {} /\ UpSet = {}
    BY <1>6, Labels DEF BlockedSet, UpSet, Blocked
  <2>2. Cardinality(BlockedSet) = 0 /\ Cardinality(UpSet) = 0
    BY <2>1, FS_EmptySet
  <2> QED
    BY <1>0, <2>2, SemaphoreAssumption
       DEF CountInv, UpsBegun, NeverOversold, BlockedSet, UpSet
<1> QED
  BY <1>4, <1>5, <1>7, <1>8, <1>9, Parts DEF IInv, Core

(* Only sem_destroy gets to its loop, and it has closed the semaphore. *)
LEMMA ClosedStep ==
  ASSUME KernelInv, ClosedInv, NEW t \in Tasks, NEW l, pc' = [pc EXCEPT ![t] = l],
         destroy => destroy',
         \/ l \notin {"destroy_turn", "in_destroy_turn"}
         \/ pc[t] \in {"destroy_turn", "in_destroy_turn"}
         \/ destroy'
  PROVE  ClosedInv'
<1>1. pc'[t] = l /\ \A u \in Tasks : u # t => pc'[u] = pc[u]
  BY KernelTypes
<1> QED
  BY <1>1 DEF ClosedInv

LEMMA CallClosed ==
  ASSUME Core, ClosedInv, NEW t \in Tasks,
         \/ \E l \in {"down", "up", "destroy"} : Call(t, l)
         \/ Lock(t) \/ Down(t) \/ DownReturn(t) \/ Up(t) \/ UpAwake(t)
         \/ Destroy(t) \/ DestroyTurn(t)
  PROVE  ClosedInv'
<1>0. KernelInv
  BY Parts
<1>1. ASSUME NEW l \in {"down", "up", "destroy"}, Call(t, l)
      PROVE  ClosedInv'
  BY <1>0, <1>1, ClosedStep DEF Call, Goto, semVars
<1>2. CASE Lock(t)
  BY <1>0, <1>2, ClosedStep, Labels DEF Lock, Goto, Inside
<1>3. CASE Down(t)
  BY <1>0, <1>3, ClosedStep DEF Down, Goto
<1>4. CASE DownReturn(t)
  BY <1>0, <1>4, ClosedStep DEF DownReturn, Goto
<1>5. CASE Up(t)
  BY <1>0, <1>5, ClosedStep DEF Up, Goto
<1>6. CASE UpAwake(t)
  BY <1>0, <1>6, ClosedStep DEF UpAwake, Goto
<1>7. CASE Destroy(t)
  BY <1>0, <1>7, ClosedStep DEF Destroy, TakeHead, Goto
<1>8. CASE DestroyTurn(t)
  BY <1>0, <1>8, ClosedStep DEF DestroyTurn, TakeHead, Goto, Critical, At
<1> QED
  BY <1>1, <1>2, <1>3, <1>4, <1>5, <1>6, <1>7, <1>8

LEMMA QuietClosed ==
  ASSUME ClosedInv, Quiet, UNCHANGED semVars
  PROVE  ClosedInv'
BY Labels DEF ClosedInv, Quiet, QuietPc, semVars

(* Every step is one of the kernel, or of a task in a call. *)
KernelActs ==
  \/ Loop \/ Timer \/ UNCHANGED vars
  \/ \E t \in Tasks : \/ Run(t)
                      \/ Yield(t) /\ UNCHANGED semVars
                      \/ \E new \in Tasks : Create(t, new)
                      \/ TaskSuspend(t) /\ UNCHANGED semVars

LEMMA Steps ==
  ASSUME [Next]_vars
  PROVE  \/ KernelActs
         \/ \E t \in Tasks :
              \/ t # Disk /\ \E l \in {"down", "up", "destroy"} :
                                Call(t, l) /\ (l = "up" => UpsBegun < MaxUps)
              \/ Lock(t) \/ Down(t) \/ DownReturn(t) \/ Up(t) \/ UpAwake(t)
              \/ Destroy(t) \/ DestroyTurn(t)
<1>1. CASE Off \/ UNCHANGED vars
  BY <1>1 DEF Off, KernelActs
<1>2. CASE Loop \/ Timer
  BY <1>2 DEF KernelActs
<1>3. ASSUME NEW t \in Tasks, Run(t) \/ UserStep(t) \/ CallStep(t)
      PROVE  \/ KernelActs
             \/ t # Disk /\ \E l \in {"down", "up", "destroy"} :
                               Call(t, l) /\ (l = "up" => UpsBegun < MaxUps)
             \/ Lock(t) \/ Down(t) \/ DownReturn(t) \/ Up(t) \/ UpAwake(t)
             \/ Destroy(t) \/ DestroyTurn(t)
  BY <1>3 DEF UserStep, CallStep, KernelActs
<1> QED
  BY <1>1, <1>2, <1>3 DEF Next

LEMMA NextInv ==
  ASSUME IInv, [Next]_vars
  PROVE  IInv'
<1>0. Core /\ ClosedInv /\ KernelInv
  BY Parts DEF IInv, Core
<1>1. CASE KernelActs
  <2>1. Quiet /\ UNCHANGED semVars
    BY <1>0, <1>1, QuietSteps DEF KernelActs
  <2> QED
    BY <1>0, <2>1, QuietKeeps, QuietClosed DEF IInv, Core
<1>2. ASSUME NEW t \in Tasks, NEW l \in {"down", "up", "destroy"}, t # Disk,
             Call(t, l), l = "up" => UpsBegun < MaxUps
      PROVE  IInv'
  BY <1>0, <1>2, CallStepInv, CallClosed DEF IInv, Core
<1>3. ASSUME NEW t \in Tasks,
             Lock(t) \/ Down(t) \/ DownReturn(t) \/ Up(t) \/ UpAwake(t)
               \/ Destroy(t) \/ DestroyTurn(t)
      PROVE  IInv'
  <2>1. Core'
    BY <1>0, <1>3, LockStepInv, DownInv, DownReturnInv, UpInv, UpAwakeInv, DestroyInv,
       DestroyTurnInv
  <2>2. ClosedInv'
    BY <1>0, <1>3, CallClosed
  <2> QED
    BY <2>1, <2>2 DEF IInv, Core
<1> QED
  BY <1>1, <1>2, <1>3, Steps

LEMMA Invariant == Spec => []IInv
BY InitInv, NextInv, PTL DEF Spec

(* Types, whatever the tasks do. *)
THEOREM TypeCorrect == Spec => []TypeOK
<1>1. IInv => TypeOK
  BY DEF IInv
<1> QED
  BY <1>1, Invariant, PTL

(* No task comes out of sem_down without a permit of its own. *)
THEOREM NoPermitTwice == Spec => []NeverOversold
<1>1. IInv => NeverOversold
  BY DEF IInv, CountInv
<1> QED
  BY <1>1, Invariant, PTL

(* A negative value is the number of tasks in the wait queue. *)
THEOREM ValueIsTheQueue == Spec => []ValueCountsWaiters
<1>1. IInv => ValueCountsWaiters
  BY DEF IInv, WaitInv
<1> QED
  BY <1>1, Invariant, PTL

(* The spin lock is taken exactly while a task is in a critical section. *)
THEOREM LockExcludes == Spec => []LockIsExclusive
<1>1. ASSUME IInv
      PROVE  LockIsExclusive
  <2> DEFINE inside == {t \in Tasks : pc[t] \in CriticalPC}
  <2>1. LockInv /\ lock \in BOOLEAN
    BY <1>1 DEF IInv, TypeOK
  <2>2. CASE lock
    <3>1. PICK t \in Tasks : pc[t] \in CriticalPC
      BY <2>1, <2>2 DEF LockInv
    <3>2. inside = {t}
      BY <2>1, <3>1 DEF LockInv
    <3> QED
      BY <2>2, <3>2, FS_Singleton DEF LockIsExclusive
  <2>3. CASE ~ lock
    <3>1. inside = {}
      BY <2>1, <2>3 DEF LockInv
    <3> QED
      BY <2>3, <3>1, FS_EmptySet DEF LockIsExclusive
  <2> QED
    BY <2>2, <2>3
<1> QED
  BY <1>1, Invariant, PTL

(***************************************************************************)
(* The refinement: what each step is to the callers.                       *)
(***************************************************************************)

LEMMA CallersInit ==
  ASSUME Init
  PROVE  Abstract!Init
<1>0. /\ value = Initial /\ destroy = FALSE /\ wait_queue = EmptyQueue
      /\ pc = [t \in Tasks |-> IF t \in {Disk, User} THEN "user" ELSE "none"]
  BY DEF Init, KernelInit, TcbInit
<1>1. wait_queue.items = << >> /\ Permits = Initial
  BY <1>0, SemaphoreAssumption DEF EmptyQueue, Permits
<1>2. \A t \in Tasks : CallerState(t) = "out"
  <2>1. \A t : ~ QHas(wait_queue, t)
    BY <1>0, EmptyQueueProperties DEF QHas
  <2>2. \A t \in Tasks : ~ Blocked(t)
    BY <1>0, Labels DEF Blocked
  <2> QED
    BY <2>1, <2>2 DEF CallerState
<1> QED
  BY <1>0, <1>1, <1>2 DEF Abstract!Init, CallerStates

(* Nobody's place changes. *)
LEMMA SameCallers ==
  ASSUME \A u \in Tasks : /\ Blocked(u)' = Blocked(u)
                          /\ QHas(wait_queue, u)' = QHas(wait_queue, u)
  PROVE  CallerStates' = CallerStates
<1>1. \A u \in Tasks : CallerState(u)' = CallerState(u)
  BY DEF CallerState
<1> QED
  BY <1>1 DEF CallerStates

(* One task's place changes. *)
LEMMA OneCaller ==
  ASSUME NEW t \in Tasks, NEW p, CallerState(t)' = p,
         \A u \in Tasks \ {t} : /\ Blocked(u)' = Blocked(u)
                                /\ QHas(wait_queue, u)' = QHas(wait_queue, u)
  PROVE  CallerStates' = [CallerStates EXCEPT ![t] = p]
<1>1. \A u \in Tasks \ {t} : CallerState(u)' = CallerState(u)
  BY DEF CallerState
<1> QED
  BY <1>1 DEF CallerStates

(* Steps that the callers do not see. *)
LEMMA Unseen ==
  ASSUME UNCHANGED <<value, destroy, wait_queue>>,
         \A u \in Tasks : Blocked(u)' = Blocked(u)
  PROVE  UNCHANGED Abstract!vars
<1>1. CallerStates' = CallerStates
  BY SameCallers DEF QHas
<1> QED
  BY <1>1 DEF Abstract!vars, Permits

(* Where a running task is, between task_suspend and the next one. *)
LEMMA RunningCaller ==
  ASSUME Core, NEW t \in Tasks, current = t, pc[t] \notin SuspendPC
  PROVE  /\ ~ QHas(wait_queue, t)
         /\ CallerState(t) = IF Blocked(t) THEN "let go" ELSE "out"
         /\ wait_queue \in QueueOf(Tasks) /\ IsInjective(wait_queue.items)
         /\ value \in Int /\ destroy \in BOOLEAN
<1>1. ~ Held(t)
  BY DEF Held
<1>2. ~ QHas(wait_queue, t)
  BY <1>1, Parts DEF WaitInv, QHas
<1> QED
  BY <1>2, Parts DEF CallerState, SemTypes, WaitInv

(* The other tasks stay where they are, up to the queue. *)
LEMMA OthersStay ==
  ASSUME Core, NEW t \in Tasks, NEW l, pc' = [pc EXCEPT ![t] = l]
  PROVE  pc'[t] = l /\ \A u \in Tasks \ {t} : Blocked(u)' = Blocked(u)
BY Parts, KernelTypes DEF Blocked

LEMMA DownRefines ==
  ASSUME Core, NEW t \in Tasks, Down(t)
  PROVE  Abstract!Take(t) \/ Abstract!Block(t) \/ UNCHANGED Abstract!vars
<1>1. current = t /\ pc[t] = "in_down" /\ UNCHANGED destroy
  BY DEF Down, Critical, At
<1>2. ~ Blocked(t)
  BY <1>1, Labels DEF Blocked
<1>3. /\ ~ QHas(wait_queue, t) /\ CallerState(t) = "out"
      /\ wait_queue \in QueueOf(Tasks) /\ IsInjective(wait_queue.items)
      /\ value \in Int /\ destroy \in BOOLEAN
  BY <1>1, <1>2, RunningCaller, Labels
<1>4. CallerStates[t] = "out"
  BY <1>3 DEF CallerStates
<1>5. CASE destroy \/ value - 1 >= 0
  <2>1. pc' = [pc EXCEPT ![t] = "user"] /\ wait_queue' = wait_queue
        /\ value' = IF destroy THEN value ELSE value - 1
    BY <1>3, <1>5 DEF Down, Goto
  <2>2. pc'[t] = "user" /\ \A u \in Tasks \ {t} : Blocked(u)' = Blocked(u)
    BY <2>1, OthersStay
  <2>3. ~ Blocked(t)'
    BY <2>2, Labels DEF Blocked
  <2>4. \A u \in Tasks : Blocked(u)' = Blocked(u)
    BY <1>2, <2>2, <2>3, Zenon DEF Blocked
  <2>5. CASE destroy
    BY <1>1, <2>1, <2>4, <2>5, Unseen
  <2>6. CASE ~ destroy
    <3>1. Permits = value /\ Permits' = value - 1 /\ Permits > 0
      BY <1>1, <1>3, <1>5, <2>1, <2>6 DEF Permits
    <3>2. CallerStates' = CallerStates
      BY <2>1, <2>4, SameCallers DEF QHas
    <3> QED
      BY <1>1, <1>4, <2>1, <2>6, <3>1, <3>2 DEF Abstract!Take
  <2> QED
    BY <2>5, <2>6
<1>6. CASE ~ destroy /\ value - 1 < 0
  <2>1. pc' = [pc EXCEPT ![t] = "suspend"] /\ wait_queue' = QAdd(wait_queue, t)
        /\ value' = value - 1
    BY <1>3, <1>6 DEF Down, Goto
  <2>2. pc'[t] = "suspend" /\ \A u \in Tasks \ {t} : Blocked(u)' = Blocked(u)
    BY <2>1, OthersStay
  <2>3. Permits = 0 /\ Permits' = 0
    BY <1>1, <1>3, <1>6, <2>1 DEF Permits
  <2>4. /\ wait_queue'.items = Append(wait_queue.items, t)
        /\ ToSet(wait_queue'.items) = ToSet(wait_queue.items) \cup {t}
    BY <1>3, <2>1, QAddProperties DEF QAdd
  <2>5. CallerState(t)' = "waiting"
    BY <2>4 DEF CallerState, QHas
  <2>6. \A u \in Tasks \ {t} : QHas(wait_queue, u)' = QHas(wait_queue, u)
    BY <2>4 DEF QHas
  <2>7. CallerStates' = [CallerStates EXCEPT ![t] = "waiting"]
    BY <2>2, <2>5, <2>6, OneCaller
  <2> QED
    BY <1>1, <1>4, <1>6, <2>3, <2>4, <2>7 DEF Abstract!Block
<1> QED
  BY <1>3, <1>5, <1>6

LEMMA DownReturnRefines ==
  ASSUME Core, NEW t \in Tasks, DownReturn(t)
  PROVE  Abstract!Return(t)
<1>1. /\ current = t /\ pc[t] = "in_down_ret" /\ UNCHANGED <<destroy, wait_queue>>
      /\ pc' = [pc EXCEPT ![t] = "user"]
      /\ ~ destroy => value' = value
  BY DEF DownReturn, Critical, At, Goto
<1>2. Blocked(t)
  BY <1>1 DEF Blocked
<1>3. ~ QHas(wait_queue, t) /\ CallerState(t) = "let go" /\ destroy \in BOOLEAN
  BY <1>1, <1>2, RunningCaller, Labels
<1>4. pc'[t] = "user" /\ \A u \in Tasks \ {t} : Blocked(u)' = Blocked(u)
  BY <1>1, OthersStay
<1>5. CallerState(t)' = "out"
  BY <1>1, <1>3, <1>4, Labels DEF CallerState, Blocked, QHas
<1>6. CallerStates' = [CallerStates EXCEPT ![t] = "out"]
  BY <1>1, <1>4, <1>5, OneCaller DEF QHas
<1>7. CallerStates[t] = "let go"
  BY <1>3 DEF CallerStates
<1>8. Permits' = Permits
  BY <1>1, <1>3 DEF Permits
<1> QED
  BY <1>1, <1>6, <1>7, <1>8 DEF Abstract!Return

(* The first task of the queue is let go. *)
LEMMA FirstLetGo ==
  ASSUME Core, wait_queue.items # << >>, wait_queue'.items = Tail(wait_queue.items),
         ToSet(wait_queue'.items) = ToSet(wait_queue.items) \ {Head(wait_queue.items)},
         \A u \in Tasks : Blocked(u)' = Blocked(u)
  PROVE  Abstract!LetGo
<1>1. PICK h : h = Head(wait_queue.items)
  OBVIOUS
<1>2. h \in Tasks /\ h \in ToSet(wait_queue.items)
  BY <1>1, Parts, HeadItem DEF SemTypes
<1>3. Blocked(h)'
  BY <1>2, Parts, Labels DEF WaitInv, Held, Blocked
<1>4. CallerState(h)' = "let go"
  BY <1>1, <1>3 DEF CallerState, QHas
<1>5. \A u \in Tasks \ {h} : QHas(wait_queue, u)' = QHas(wait_queue, u)
  BY <1>1 DEF QHas
<1>6. CallerStates' = [CallerStates EXCEPT ![h] = "let go"]
  BY <1>2, <1>4, <1>5, OneCaller
<1> QED
  BY <1>1, <1>6 DEF Abstract!LetGo

LEMMA UpRefines ==
  ASSUME Core, NEW t \in Tasks, Up(t)
  PROVE  Abstract!Give \/ UNCHANGED Abstract!vars
<1>0. SemTypes /\ WaitInv
  BY Parts
<1>1. current = t /\ pc[t] = "in_up" /\ UNCHANGED destroy
  BY DEF Up, Critical, At
<1>2. /\ wait_queue \in QueueOf(Tasks) /\ IsInjective(wait_queue.items)
      /\ value \in Int /\ destroy \in BOOLEAN
  BY <1>1, RunningCaller, Labels
<1>3. \A u \in Tasks : Blocked(u)' = Blocked(u)
  <2>1. PICK l \in {"user", "up_awake"} : pc' = [pc EXCEPT ![t] = l]
    BY DEF Up, Goto
  <2>2. pc'[t] = l /\ \A u \in Tasks \ {t} : Blocked(u)' = Blocked(u)
    BY <2>1, OthersStay
  <2>3. ~ Blocked(t) /\ ~ Blocked(t)'
    BY <1>1, <2>2, Labels DEF Blocked
  <2> QED
    BY <2>2, <2>3, Zenon DEF Blocked
<1>4. CASE destroy
  <2>1. UNCHANGED <<value, wait_queue>>
    BY <1>4 DEF Up
  <2> QED
    BY <1>1, <1>3, <2>1, Unseen
<1>5. CASE ~ destroy
  <2> DEFINE q == QHead(wait_queue)
             w == QItem(q)
  <2>1. value' = value + 1 /\ wait_queue' = IF w = NULL THEN q ELSE QDel(q, w)
    BY <1>5 DEF Up
  <2>2. /\ q \in QueueOf(Tasks) /\ q.items = wait_queue.items
        /\ q.items = << >> => w = NULL
        /\ q.items # << >> => w = Head(q.items) /\ w \in Tasks
    BY <1>2, HeadItem
  <2> HIDE DEF q, w
  <2>3. QSize(wait_queue) = IF value < 0 THEN -value ELSE 0
    BY <1>0, <1>5 DEF WaitInv, ValueCountsWaiters
  <2>4. CASE wait_queue.items = << >>
    <3>1. QSize(wait_queue) = 0
      BY <2>4, EmptySeq DEF QSize
    <3>2. value >= 0
      BY <1>2, <2>3, <3>1
    <3>3. Permits' = Permits + 1
      BY <1>1, <1>2, <1>5, <2>1, <3>2 DEF Permits
    <3>4. wait_queue'.items = wait_queue.items
      BY <2>1, <2>2, <2>4
    <3>5. CallerStates' = CallerStates
      BY <1>3, <3>4, SameCallers DEF QHas
    <3> QED
      BY <1>1, <1>5, <2>4, <3>3, <3>4, <3>5 DEF Abstract!Give
  <2>5. CASE wait_queue.items # << >>
    <3>1. wait_queue' = QDel(q, Head(q.items)) /\ q.items # << >>
      BY <2>1, <2>2, <2>5, KernelAssumption
    <3>2. /\ wait_queue'.items = Tail(wait_queue.items)
          /\ ToSet(wait_queue'.items)
               = ToSet(wait_queue.items) \ {Head(wait_queue.items)}
          /\ QSize(q) \in Nat \ {0}
      BY <1>2, <2>2, <3>1, FirstOut
    <3>3. value < 0
      BY <1>2, <2>2, <2>3, <3>2 DEF QSize
    <3>4. Permits = 0 /\ Permits' = 0
      BY <1>1, <1>2, <1>5, <2>1, <3>3 DEF Permits
    <3>5. Abstract!LetGo
      BY <1>3, <2>5, <3>2, FirstLetGo
    <3> QED
      BY <1>1, <1>5, <2>5, <3>4, <3>5 DEF Abstract!Give
  <2> QED
    BY <2>4, <2>5
<1> QED
  BY <1>2, <1>4, <1>5

LEMMA UpAwakeRefines ==
  ASSUME Core, NEW t \in Tasks, UpAwake(t)
  PROVE  UNCHANGED Abstract!vars
<1>1. /\ pc[t] = "up_awake" /\ pc' = [pc EXCEPT ![t] = "user"]
      /\ UNCHANGED <<value, destroy, wait_queue>>
  BY DEF UpAwake, At, Goto
<1>2. pc'[t] = "user" /\ \A u \in Tasks \ {t} : Blocked(u)' = Blocked(u)
  BY <1>1, OthersStay
<1>3. ~ Blocked(t) /\ ~ Blocked(t)'
  BY <1>1, <1>2, Labels DEF Blocked
<1> QED
  BY <1>1, <1>2, <1>3, Unseen, Zenon DEF Blocked

(* The steps of sem_destroy: nobody is blocked, or comes back, by them. *)
LEMMA DestroySteps ==
  ASSUME Core, NEW t \in Tasks, NEW q, TakeHead(t, q),
         pc[t] \in {"in_destroy", "in_destroy_turn"}
  PROVE  \A u \in Tasks : Blocked(u)' = Blocked(u)
<1>1. PICK l \in {"user", "destroy_turn"} : pc' = [pc EXCEPT ![t] = l]
  BY DEF TakeHead, Goto
<1>2. pc'[t] = l /\ \A u \in Tasks \ {t} : Blocked(u)' = Blocked(u)
  BY <1>1, OthersStay
<1>3. ~ Blocked(t) /\ ~ Blocked(t)'
  BY <1>2, Labels DEF Blocked
<1> QED
  BY <1>2, <1>3, Zenon DEF Blocked

LEMMA DestroyRefines ==
  ASSUME Core, NEW t \in Tasks, Destroy(t)
  PROVE  Abstract!Close \/ UNCHANGED Abstract!vars
<1>1. /\ current = t /\ pc[t] = "in_destroy" /\ destroy' = TRUE /\ value' = value
      /\ TakeHead(t, wait_queue)
  BY DEF Destroy, Critical, At
<1>2. destroy \in BOOLEAN /\ wait_queue \in QueueOf(Tasks)
  BY Parts DEF SemTypes
<1>3. wait_queue'.items = wait_queue.items
  BY <1>1, <1>2, QWalkProperties DEF TakeHead
<1>4. \A u \in Tasks : Blocked(u)' = Blocked(u)
  <2>1. PICK q : q = wait_queue
    OBVIOUS
  <2>2. TakeHead(t, q)
    BY <1>1, <2>1 DEF TakeHead
  <2> QED
    BY <1>1, <2>2, DestroySteps
<1>5. CallerStates' = CallerStates
  BY <1>3, <1>4, SameCallers DEF QHas
<1>6. Permits' = 0
  BY <1>1 DEF Permits
<1>7. CASE destroy
  BY <1>1, <1>3, <1>5, <1>6, <1>7 DEF Abstract!vars, Permits
<1>8. CASE ~ destroy
  BY <1>1, <1>3, <1>5, <1>6, <1>8 DEF Abstract!Close
<1> QED
  BY <1>2, <1>7, <1>8

LEMMA DestroyTurnRefines ==
  ASSUME Core, ClosedInv, NEW t \in Tasks, DestroyTurn(t)
  PROVE  Abstract!Drain \/ UNCHANGED Abstract!vars
<1>1. PICK q : q = QDel(wait_queue, wake[t])
  OBVIOUS
<1>2. /\ pc[t] = "in_destroy_turn" /\ UNCHANGED <<destroy, value>>
      /\ TakeHead(t, q) /\ wait_queue' = QHead(q)
  BY <1>1 DEF DestroyTurn, Critical, At, TakeHead
<1>3. \A u \in Tasks : Blocked(u)' = Blocked(u)
  BY <1>2, DestroySteps
<1>4. /\ q \in QueueOf(Tasks)
      /\ ToSet(q.items) = ToSet(wait_queue.items) \ {wake[t]}
      /\ \/ q.items = wait_queue.items /\ ~ QHas(wait_queue, wake[t])
         \/ /\ destroy
            /\ wake[t] = Head(wait_queue.items) /\ wait_queue.items # << >>
            /\ q.items = Tail(wait_queue.items)
  BY <1>1, <1>2, TurnQueue
<1>5. wait_queue'.items = q.items
  BY <1>2, <1>4, QWalkProperties
<1>6. Permits' = Permits
  BY <1>2 DEF Permits
<1>7. CASE q.items = wait_queue.items
  <2>1. CallerStates' = CallerStates
    BY <1>3, <1>5, <1>7, SameCallers DEF QHas
  <2> QED
    BY <1>2, <1>5, <1>6, <1>7, <2>1 DEF Abstract!vars
<1>8. CASE /\ destroy
           /\ wake[t] = Head(wait_queue.items) /\ wait_queue.items # << >>
           /\ q.items = Tail(wait_queue.items)
  <2>1. Abstract!LetGo
    BY <1>3, <1>4, <1>5, <1>8, FirstLetGo
  <2> QED
    BY <1>2, <1>6, <1>8, <2>1 DEF Abstract!Drain
<1> QED
  BY <1>4, <1>7, <1>8

LEMMA StepRefines ==
  ASSUME IInv, [Next]_vars
  PROVE  [Abstract!Next]_(Abstract!vars)
<1>0. Core /\ ClosedInv /\ KernelInv
  BY Parts DEF IInv, Core
<1>1. CASE KernelActs
  <2>1. Quiet /\ UNCHANGED semVars
    BY <1>0, <1>1, QuietSteps DEF KernelActs
  <2> QED
    BY <1>0, <2>1, QuietKeeps, Unseen DEF semVars
<1>2. ASSUME NEW t \in Tasks, NEW l \in {"down", "up", "destroy"}, Call(t, l)
      PROVE  UNCHANGED Abstract!vars
  <2>1. pc[t] = "user" /\ pc' = [pc EXCEPT ![t] = l] /\ UNCHANGED semVars
    BY <1>2 DEF Call, At, Goto
  <2>2. pc'[t] = l /\ \A u \in Tasks \ {t} : Blocked(u)' = Blocked(u)
    BY <1>0, <2>1, OthersStay
  <2>3. ~ Blocked(t) /\ ~ Blocked(t)'
    BY <2>1, <2>2, Labels DEF Blocked
  <2> QED
    BY <2>1, <2>2, <2>3, Unseen, Zenon DEF Blocked, semVars
<1>3. ASSUME NEW t \in Tasks, Lock(t)
      PROVE  UNCHANGED Abstract!vars
  BY <1>0, <1>3, LockStepInv, Unseen DEF Lock
<1>4. ASSUME NEW t \in Tasks,
             Down(t) \/ DownReturn(t) \/ Up(t) \/ UpAwake(t) \/ Destroy(t) \/ DestroyTurn(t)
      PROVE  Abstract!Next \/ UNCHANGED Abstract!vars
  BY <1>0, <1>4, DownRefines, DownReturnRefines, UpRefines, UpAwakeRefines,
     DestroyRefines, DestroyTurnRefines DEF Abstract!Next
<1> QED
  BY <1>1, <1>2, <1>3, <1>4, Steps

(* Every step is a step of the semaphore its callers know, or none. *)
THEOREM SemaphoreImplements == Spec => Implements
<1>1. Init => Abstract!Init
  BY CallersInit
<1>2. IInv /\ [Next]_vars => [Abstract!Next]_(Abstract!vars)
  BY StepRefines
<1> QED
  BY <1>1, <1>2, Invariant, PTL DEF Spec, Implements, Abstract!Spec

(***************************************************************************)
(* sem_destroy leaves nobody suspended, where no quantum ends inside a     *)
(* call: the walk over the queue is not overtaken by a task on its way in. *)
(***************************************************************************)

(* The kernel makes nobody wait for the semaphore. *)
LEMMA KernelAtomic ==
  ASSUME ~ KernelPreemption, IInv, AtomicInv, KernelActs
  PROVE  /\ AtomicInv'
         /\ \A u \in Tasks : Suspended(u)' => Suspended(u)
<1>0. KernelInv /\ current \in Tasks \cup {TaskKernel} /\ TaskKernel \notin Tasks
  BY Parts, KernelAssumption DEF IInv, Core, TypeOK, CpuTypeOK
<1> USE DEF AtomicInv, Suspended
<1>1. CASE /\ UNCHANGED <<status, current, pc>>
           /\ kpc' = kpc \/ kpc # "run" \/ current = TaskKernel
  BY <1>0, <1>1
<1>2. CASE Loop
  <2>1. ~ \E w \in Tasks : ScanSleeper(w)
    BY <1>0, KernelTypes, EmptyHead DEF ScanSleeper
  <2> QED
    BY <1>1, <1>2, <2>1
       DEF Loop, KernelStep, AfterRun, EmptyTurn, ScanEnd, Stop, queueVars
<1>3. CASE UNCHANGED vars
  BY <1>1, <1>3 DEF vars, kernelVars
<1>4. ASSUME NEW t \in Tasks, Run(t)
      PROVE  AtomicInv' /\ \A u \in Tasks : Suspended(u)' => Suspended(u)
  <2>1. /\ kpc = "loop" /\ kpc' = "run" /\ current' = t
        /\ status' = [status EXCEPT ![t] = "RUNNING"] /\ UNCHANGED pc
    BY <1>4 DEF Run, Dispatch
  <2> QED
    BY <1>0, <2>1, KernelTypes
<1>5. ASSUME NEW t \in Tasks, current = t, pc[t] = "user", TaskYield(t)
      PROVE  AtomicInv' /\ \A u \in Tasks : Suspended(u)' => Suspended(u)
  <2>1. /\ current' = TaskKernel /\ UNCHANGED <<pc, kpc>>
        /\ status' = [status EXCEPT ![t] = "READY"]
    BY <1>5 DEF TaskYield, SwitchToKernel, loopVars
  <2> QED
    BY <1>0, <1>5, <2>1, KernelTypes
<1>6. CASE Timer
  <2>1. ASSUME NEW t \in Tasks, TickPreempts(t)
        PROVE  current = t /\ pc[t] = "user" /\ TaskYield(t)
    BY <2>1 DEF TickPreempts, MayPreempt
  <2> QED
    BY <1>1, <1>5, <1>6, <2>1 DEF Timer, Tick, TickInKernel, TickInTask, loopVars
<1>7. ASSUME NEW t \in Tasks, Yield(t)
      PROVE  AtomicInv' /\ \A u \in Tasks : Suspended(u)' => Suspended(u)
  BY <1>5, <1>7 DEF Yield, At
<1>8. ASSUME NEW t \in Tasks, NEW new \in Tasks, Create(t, new)
      PROVE  AtomicInv' /\ \A u \in Tasks : Suspended(u)' => Suspended(u)
  <2>1. /\ pc' = [pc EXCEPT ![new] = "user"] /\ UNCHANGED <<current, kpc>>
        /\ status' = [status EXCEPT ![new] = "READY"]
    BY <1>8 DEF Create, TaskCreate, Goto, loopVars
  <2> QED
    BY <1>0, <2>1, KernelTypes, Labels
<1>9. ASSUME NEW t \in Tasks, TaskSuspend(t)
      PROVE  AtomicInv' /\ \A u \in Tasks : Suspended(u)' => Suspended(u)
  <2>1. /\ current = t /\ pc[t] \in SuspendPC /\ UNCHANGED kpc
        /\ current' \in {t, TaskKernel}
        /\ (pc'[t] \in SuspendPC /\ current' = t) \/ pc'[t] = "down_ret"
        /\ \A u \in Tasks \ {t} : pc'[u] = pc[u] /\ status'[u] = status[u]
    <3>1. pc[t] \in SuspendPC => cont[t] = "down_ret"
      BY <1>0 DEF KernelInv, CallInv
    <3> QED
      BY <1>0, <1>9, <3>1, KernelTypes, Labels
         DEF TaskSuspend, SuspendStatus, SuspendEnqueue, SuspendSwitch, At, Goto,
             SwitchToKernel, loopVars
  <2> QED
    BY <1>0, <2>1, Labels
<1> QED
  BY <1>2, <1>3, <1>4, <1>6, <1>7, <1>8, <1>9 DEF KernelActs

LEMMA KernelOwes ==
  ASSUME ~ KernelPreemption, IInv, AtomicInv, OwedInv, KernelActs
  PROVE  AtomicInv' /\ OwedInv'
<1>1. Quiet /\ UNCHANGED semVars
  BY QuietSteps, Parts DEF KernelActs, IInv, Core
<1>2. AtomicInv' /\ \A u \in Tasks : Suspended(u)' => Suspended(u)
  BY KernelAtomic
<1>3. \A u \in Tasks : \A l \in {"up_awake", "destroy_turn", "in_destroy_turn"} :
        pc'[u] = l <=> pc[u] = l
  BY <1>1, Labels DEF Quiet, QuietPc
<1>4. UNCHANGED <<destroy, wait_queue, wake>>
  BY <1>1 DEF semVars
<1> QED
  BY <1>2, <1>3, <1>4 DEF OwedInv, QHas

(* A step of the running task t inside a call, to the label l. *)
Inward(t, l) ==
  /\ current = t
  /\ pc[t] \notin SuspendPC
  /\ pc' = [pc EXCEPT ![t] = l]
  /\ UNCHANGED <<current, kpc>>

LEMMA InwardAtomic ==
  ASSUME IInv, AtomicInv, NEW t \in Tasks, NEW l, Inward(t, l)
  PROVE  /\ AtomicInv'
         /\ pc'[t] = l
         /\ \A u \in Tasks \ {t} : /\ pc'[u] = pc[u]
                                  /\ pc[u] \in {"none", "user", "down_ret"}
         /\ status' = status =>
              \A u \in Tasks \ {t} : Suspended(u)' => Suspended(u)
         /\ Suspended(t)' => l \in SuspendPC
<1>1. pc \in [Tasks -> SemPC]
  BY KernelTypes, Parts DEF IInv, Core
<1> QED
  BY <1>1 DEF AtomicInv, Inward, Suspended

(* Calls, the lock, and the steps that awake nobody and leave the queue. *)
LEMMA SideOwes ==
  ASSUME IInv, AtomicInv, OwedInv, NEW t \in Tasks,
         (\E l \in {"down", "up", "destroy"} : Call(t, l)) \/ Lock(t) \/ DownReturn(t)
  PROVE  AtomicInv' /\ OwedInv'
<1>1. PICK l \in SemPC \ (SuspendPC \cup {"up_awake", "down_ret"}) :
        /\ Inward(t, l)
        /\ pc[t] # "up_awake"
        /\ pc[t] = "destroy_turn" => l = "in_destroy_turn"
        /\ pc[t] # "in_destroy_turn"
  BY Labels DEF Call, Lock, DownReturn, Critical, Inward, At, Goto, Inside, loopVars
<1>2. UNCHANGED <<status, destroy, wait_queue, wake>>
  BY DEF Call, Lock, DownReturn, semVars
<1>3. /\ AtomicInv'
      /\ pc'[t] = l
      /\ \A u \in Tasks \ {t} : pc'[u] = pc[u]
      /\ \A u \in Tasks : Suspended(u)' => Suspended(u)
  BY <1>1, <1>2, InwardAtomic
<1> QED
  BY <1>1, <1>2, <1>3 DEF OwedInv, QHas

(* sem_down queues the task before it suspends. *)
LEMMA DownOwes ==
  ASSUME IInv, AtomicInv, OwedInv, NEW t \in Tasks, Down(t)
  PROVE  AtomicInv' /\ OwedInv'
<1>1. PICK l \in {"suspend", "user"} :
        /\ Inward(t, l)
        /\ l = "suspend" => wait_queue' = QAdd(wait_queue, t) /\ ~ destroy
        /\ l = "user" => wait_queue' = wait_queue
  BY Labels DEF Down, Critical, Inward, At, Goto, loopVars
<1>2. UNCHANGED <<status, destroy, wake>> /\ pc[t] = "in_down"
  BY DEF Down, Critical, At
<1>3. wait_queue \in QueueOf(Tasks)
  BY DEF IInv, TypeOK
<1>4. ToSet(QAdd(wait_queue, t).items) = ToSet(wait_queue.items) \cup {t}
  BY <1>3, QAddProperties
<1>5. /\ AtomicInv'
      /\ pc'[t] = l
      /\ \A u \in Tasks \ {t} : pc'[u] = pc[u]
      /\ \A u \in Tasks \ {t} : Suspended(u)' => Suspended(u)
      /\ Suspended(t)' => l = "suspend"
  BY <1>1, <1>2, InwardAtomic, Labels
<1> QED
  BY <1>1, <1>2, <1>4, <1>5 DEF OwedInv, QHas

(* sem_up takes over what it owes to the first of the queue. *)
LEMMA UpOwes ==
  ASSUME IInv, AtomicInv, OwedInv, NEW t \in Tasks, Up(t)
  PROVE  AtomicInv' /\ OwedInv'
<1>1. UNCHANGED <<status, destroy>> /\ pc[t] = "in_up"
  BY DEF Up, Critical, At
<1>2. /\ wait_queue \in QueueOf(Tasks) /\ IsInjective(wait_queue.items)
      /\ wake \in [Tasks -> Tasks \cup {NULL}]
  BY DEF IInv, TypeOK, WaitInv
<1>3. CASE destroy
  <2>1. Inward(t, "user") /\ UNCHANGED <<wait_queue, wake>>
    BY <1>3, Labels DEF Up, Critical, Inward, At, Goto, loopVars
  <2>2. /\ AtomicInv'
        /\ pc'[t] = "user"
        /\ \A u \in Tasks \ {t} : pc'[u] = pc[u]
        /\ \A u \in Tasks : Suspended(u)' => Suspended(u)
    BY <1>1, <2>1, InwardAtomic, Labels
  <2> QED
    BY <1>1, <2>1, <2>2 DEF OwedInv, QHas
<1>4. CASE ~ destroy
  <2> DEFINE w == QItem(QHead(wait_queue))
  <2>1. /\ Inward(t, "up_awake") /\ wake' = [wake EXCEPT ![t] = w]
        /\ wait_queue' = IF w = NULL THEN QHead(wait_queue) ELSE QDel(QHead(wait_queue), w)
    BY <1>4, Labels DEF Up, Critical, Inward, At, Goto, loopVars
  <2> HIDE DEF w
  <2>2. ToSet(wait_queue.items) \subseteq ToSet(wait_queue'.items) \cup {w}
    <3>1. /\ QHead(wait_queue) \in QueueOf(Tasks)
          /\ QHead(wait_queue).items = wait_queue.items
      BY <1>2, QWalkProperties
    <3> QED
      BY <1>2, <2>1, <3>1, QDelProperties
  <2>3. AtomicInv' /\ \A u \in Tasks : Suspended(u)' => Suspended(u)
    BY <1>1, <2>1, InwardAtomic, Labels
  <2>4. \A v \in Tasks : pc[v] # "up_awake"
    BY <1>1, <2>1, InwardAtomic DEF Inward
  <2>5. \A u \in Tasks : Suspended(u)' =>
          QHas(wait_queue, u)' \/ (pc'[t] = "up_awake" /\ wake'[t] = u)
    BY <1>2, <2>1, <2>2, <2>3, <2>4, InwardAtomic DEF OwedInv, QHas
  <2> QED
    BY <1>1, <1>4, <2>3, <2>5 DEF OwedInv
<1> QED
  BY <1>3, <1>4

(* Whom a task awakes inside a call is no longer suspended. *)
LEMMA AwokenReleased ==
  ASSUME IInv, AtomicInv, NEW t \in Tasks,
         NEW l \in SemPC \ (SuspendPC \cup {"down_ret"}),
         Inward(t, l), AwakeLocal(t)
  PROVE  /\ \A u \in Tasks : Suspended(u)' => Suspended(u) /\ u # wake[t]
<1>1. status \in [Tasks -> Status] /\ wake[t] \in Tasks \cup {NULL} /\ NULL \notin Tasks
  BY KernelTypes, Parts, KernelAssumption DEF IInv, Core, TypeOK
<1>2. \A u \in Tasks : /\ status'[u] = "SUSPENDED" => status[u] = "SUSPENDED"
                       /\ u = wake[t] => status'[u] # "SUSPENDED"
  BY <1>1 DEF AwakeLocal, AwakeTask
<1>3. /\ current' = current
      /\ pc'[t] = l
      /\ \A u \in Tasks \ {t} : pc'[u] = pc[u] /\ pc[u] \notin SuspendPC
  BY InwardAtomic, Labels DEF Inward
<1> QED
  BY <1>2, <1>3 DEF Suspended

LEMMA UpAwakeOwes ==
  ASSUME IInv, AtomicInv, OwedInv, NEW t \in Tasks, UpAwake(t)
  PROVE  AtomicInv' /\ OwedInv'
<1>1. /\ Inward(t, "user") /\ AwakeLocal(t) /\ pc[t] = "up_awake"
      /\ UNCHANGED <<destroy, wait_queue>>
  BY Labels DEF UpAwake, Inward, At, Goto, loopVars
<1>2. \A u \in Tasks : Suspended(u)' => Suspended(u) /\ u # wake[t]
  BY <1>1, AwokenReleased, Labels
<1>3. AtomicInv' /\ pc'[t] = "user"
      /\ \A u \in Tasks \ {t} : pc'[u] = pc[u] /\ pc[u] \in {"none", "user", "down_ret"}
  BY <1>1, InwardAtomic
<1> QED
  BY <1>1, <1>2, <1>3 DEF OwedInv, QHas

(* The loop of sem_destroy awakes the first of the queue, and goes on until *)
(* the queue is empty.                                                      *)
LEMMA TakeHeadOwes ==
  ASSUME NEW t \in Tasks, NEW q \in QueueOf(Tasks), TakeHead(t, q),
         pc \in [Tasks -> SemPC]
  PROVE  /\ wait_queue'.items = q.items
         /\ pc' = [pc EXCEPT ![t] = IF q.items = << >> THEN "user" ELSE "destroy_turn"]
BY HeadItem, KernelAssumption DEF TakeHead, Goto

LEMMA DestroyOwes ==
  ASSUME IInv, AtomicInv, OwedInv, NEW t \in Tasks, Destroy(t)
  PROVE  AtomicInv' /\ OwedInv'
<1>1. current = t /\ pc[t] = "in_destroy" /\ UNCHANGED <<status, current, kpc>>
  BY DEF Destroy, Critical, At, loopVars
<1>2. wait_queue \in QueueOf(Tasks) /\ pc \in [Tasks -> SemPC]
  BY KernelTypes, Parts DEF IInv, TypeOK, Core
<1>3. /\ wait_queue'.items = wait_queue.items
      /\ pc' = [pc EXCEPT ![t] = IF wait_queue.items = << >> THEN "user" ELSE "destroy_turn"]
  BY <1>2, TakeHeadOwes DEF Destroy
<1>4. Inward(t, IF wait_queue.items = << >> THEN "user" ELSE "destroy_turn")
  BY <1>1, <1>3, Labels DEF Inward
<1>5. \A u \in Tasks : pc[u] # "up_awake"
  BY <1>1 DEF AtomicInv
<1> QED
  BY <1>1, <1>3, <1>4, <1>5, InwardAtomic, Labels DEF OwedInv, Suspended, QHas

LEMMA DestroyTurnOwes ==
  ASSUME IInv, AtomicInv, OwedInv, NEW t \in Tasks, DestroyTurn(t)
  PROVE  AtomicInv' /\ OwedInv'
<1>1. /\ current = t /\ pc[t] = "in_destroy_turn" /\ UNCHANGED <<current, kpc, destroy>>
      /\ AwakeLocal(t)
  BY DEF DestroyTurn, Critical, At, loopVars
<1>2. /\ wait_queue \in QueueOf(Tasks) /\ IsInjective(wait_queue.items)
      /\ pc \in [Tasks -> SemPC]
  BY KernelTypes, Parts DEF IInv, TypeOK, WaitInv, Core
<1> DEFINE q == QDel(wait_queue, wake[t])
           l == IF q.items = << >> THEN "user" ELSE "destroy_turn"
<1>3. q \in QueueOf(Tasks) /\ ToSet(q.items) = ToSet(wait_queue.items) \ {wake[t]}
  BY <1>2, QDelProperties
<1>4. wait_queue'.items = q.items /\ pc' = [pc EXCEPT ![t] = l]
  BY <1>2, <1>3, TakeHeadOwes DEF DestroyTurn
<1>5. Inward(t, l) /\ l \in SemPC \ (SuspendPC \cup {"down_ret"})
  BY <1>1, <1>4, Labels DEF Inward
<1>6. \A u \in Tasks : Suspended(u)' => Suspended(u) /\ u # wake[t]
  BY <1>1, <1>5, AwokenReleased
<1>7. \A u \in Tasks : pc[u] # "up_awake"
  BY <1>1 DEF AtomicInv
<1> QED
  BY <1>3, <1>4, <1>5, <1>6, <1>7, InwardAtomic DEF OwedInv, QHas

LEMMA OwedHolds ==
  ASSUME ~ KernelPreemption
  PROVE  Spec => [](AtomicInv /\ OwedInv)
<1>1. Init => AtomicInv /\ OwedInv
  <2> SUFFICES ASSUME Init
               PROVE  AtomicInv /\ OwedInv
    OBVIOUS
  <2>1. current = TaskKernel /\ ~ destroy /\ TaskKernel \notin Tasks
    BY KernelAssumption DEF Init, KernelInit, ProcessorInit
  <2>2. \A t \in Tasks : pc[t] \in {"none", "user"}
    BY DEF Init, KernelInit, TcbInit
  <2> QED
    BY <2>1, <2>2, Labels DEF AtomicInv, OwedInv, Suspended
<1>2. ASSUME IInv, AtomicInv, OwedInv, [Next]_vars
      PROVE  AtomicInv' /\ OwedInv'
  BY <1>2, Steps, KernelOwes, SideOwes, DownOwes, UpOwes, UpAwakeOwes, DestroyOwes,
     DestroyTurnOwes
<1> QED
  BY <1>1, <1>2, Invariant, PTL DEF Spec

(* Once sem_destroy is over, no task is left suspended by sem_down.  A     *)
(* task whose quantum ends between spin_unlock and task_suspend would be   *)
(* taken off the queue before it suspends, and stay suspended: hence the   *)
(* assumption.                                                             *)
THEOREM NobodyStaysBlocked ==
  ASSUME ~ KernelPreemption
  PROVE  Spec => []DestroyReleases
<1>1. AtomicInv /\ OwedInv => DestroyReleases
  <2> SUFFICES ASSUME AtomicInv, OwedInv, destroy,
                      \A u \in Tasks : pc[u] \notin {"destroy", "in_destroy", "destroy_turn",
                                                     "in_destroy_turn", "up_awake"},
                      NEW t \in Tasks, Blocked(t), current # t, status[t] = "SUSPENDED"
               PROVE  FALSE
    BY DEF DestroyReleases
  <2>1. pc[t] = "down_ret"
    BY Labels DEF Blocked, AtomicInv
  <2>2. wait_queue.items = << >> /\ QHas(wait_queue, t)
    BY <2>1 DEF OwedInv, Suspended
  <2> QED
    BY <2>2, EmptyQueueProperties DEF QHas, EmptyQueue
<1> QED
  BY <1>1, OwedHolds, PTL
=============================================================================
