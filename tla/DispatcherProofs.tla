-------------------------- MODULE DispatcherProofs --------------------------
(***************************************************************************)
(* The guarantees of task_wait, task_sleep and task_awake, where every     *)
(* task is and when the dispatcher stops, for any number of tasks, any     *)
(* quantum and preemption at any step of a kernel call; and, where no      *)
(* quantum ends inside a kernel call, that the dispatcher's assertion      *)
(* holds and that no waiter is left behind.                                *)
(***************************************************************************)
EXTENDS Dispatcher, QueueProofs, FiniteSetTheorems

(* The abbreviations are seen through everywhere; what a leaf cites is the *)
(* parts of the invariant and the action it needs.                         *)
USE KernelAssumption, DispatcherAssumption
USE DEF TypeOK, TcbTypeOK, QueuesTypeOK, CpuTypeOK, PcTypeOK, WaitTypeOK,
        Status, KernelPC, SuspendPC, ExitPC, DispatcherPC, DispatcherCont,
        loopVars, queueVars, waitVars, QHas, Active, Ready, Waiting, Asleep,
        InWait, Exited, Delivered, Created, At, Goto, SwitchToKernel

(* left only counts down. *)
LeftStep == /\ left' \in [Tasks -> 0..MaxSleep]
            /\ \A x \in Tasks : left[x] = 0 => left'[x] = 0

(* A task that yields, or is made to, is ready. *)
LEMMA YieldInv ==
  ASSUME IInv, NEW t \in Tasks, current = t, TaskYield(t), LeftStep,
         UNCHANGED waitVars
  PROVE  IInv'
<1>1. /\ ready' \in Seq(Tasks)
      /\ ToSet(ready') = ToSet(ready) \cup {t}
      /\ IsInjective(ready')
  BY AppendSet DEF IInv, ReadyInv, TaskYield
<1>2. TypeOK'
  <2>1. TcbTypeOK' /\ QueuesTypeOK'
    BY <1>1 DEF IInv, TaskYield, LeftStep
  <2>2. CpuTypeOK' /\ PcTypeOK(DispatcherPC, DispatcherCont)'
    BY <1>1 DEF IInv, TaskYield
  <2>3. WaitTypeOK'
    BY <1>1 DEF IInv, TaskYield
  <2> QED
    BY <2>1, <2>2, <2>3
<1>3. CpuInv'
  BY <1>1 DEF IInv, CpuInv, TaskYield
<1>4. DiskInv'
  BY <1>1 DEF IInv, DiskInv, TaskYield
<1>5. ReadyInv'
  BY <1>1 DEF IInv, ReadyInv, TaskYield
<1>6. CallInv'
  BY <1>1 DEF IInv, CallInv, TaskYield
<1>7. SuspendedInv'
  BY <1>1 DEF IInv, SuspendedInv, TaskYield
<1>8. SleepersInv'
  BY <1>1 DEF IInv, SleepersInv, TaskYield
<1>9. StatusInv'
  BY <1>1, SMTT(60) DEF IInv, StatusInv, StatusOf, TaskYield
<1>10. WaitInv'
  BY <1>1 DEF IInv, WaitInv, TaskYield
<1>11. AuxInv'
  BY <1>1 DEF IInv, AuxInv, TaskYield
<1>12. SleepInv'
  BY <1>1 DEF IInv, SleepInv, TaskYield, LeftStep
<1> QED
  BY <1>2, <1>3, <1>4, <1>5, <1>6, <1>7, <1>8, <1>9, <1>10, <1>11, <1>12 DEF
     IInv

(* task_create: the new task is ready and in no other queue. *)
LEMMA CreateInv ==
  ASSUME IInv, NEW t \in Tasks, NEW new \in Tasks, Create(t, new)
  PROVE  IInv'
<1>1. /\ ready' \in Seq(Tasks)
      /\ ToSet(ready') = ToSet(ready) \cup {new}
      /\ IsInjective(ready')
  BY AppendSet, SMTT(60) DEF IInv, ReadyInv, Create, TaskCreate
<1>2. TypeOK'
  <2>1. TcbTypeOK' /\ QueuesTypeOK'
    BY <1>1 DEF IInv, Create, TaskCreate
  <2>2. CpuTypeOK' /\ PcTypeOK(DispatcherPC, DispatcherCont)'
    BY <1>1 DEF IInv, Create, TaskCreate
  <2>3. WaitTypeOK'
    BY <1>1 DEF IInv, Create, TaskCreate
  <2> QED
    BY <2>1, <2>2, <2>3
<1>3. CpuInv'
  BY <1>1 DEF IInv, CpuInv, Create, TaskCreate
<1>4. DiskInv'
  BY <1>1 DEF IInv, DiskInv, Create, TaskCreate
<1>5. ReadyInv'
  BY <1>1 DEF IInv, ReadyInv, Create, TaskCreate
<1>6. CallInv'
  BY <1>1 DEF IInv, CallInv, Create, TaskCreate
<1>7. SuspendedInv'
  BY <1>1 DEF IInv, SuspendedInv, Create, TaskCreate
<1>8. SleepersInv'
  BY <1>1 DEF IInv, SleepersInv, Create, TaskCreate
<1>9. StatusInv'
  BY <1>1, SMTT(60) DEF IInv, StatusInv, StatusOf, Create, TaskCreate, ReadyInv
<1>10. WaitInv'
  BY <1>1, SMTT(60) DEF IInv, WaitInv, Create, TaskCreate, CallInv
<1>11. AuxInv'
  BY <1>1, SMTT(60) DEF IInv, AuxInv, Create, TaskCreate
<1>12. SleepInv'
  BY <1>1 DEF IInv, SleepInv, Create, TaskCreate
<1> QED
  BY <1>2, <1>3, <1>4, <1>5, <1>6, <1>7, <1>8, <1>9, <1>10, <1>11, <1>12 DEF
     IInv

(* task_wait: the target is recorded before the suspension. *)
LEMMA WaitCallInv ==
  ASSUME IInv, NEW t \in Tasks, NEW u \in Tasks, t # Disk, Wait(t, u)
  PROVE  IInv'
<1>2. TypeOK'
  <2>1. TcbTypeOK' /\ QueuesTypeOK'
    BY DEF IInv, Wait
  <2>2. CpuTypeOK' /\ PcTypeOK(DispatcherPC, DispatcherCont)'
    BY DEF IInv, Wait
  <2>3. WaitTypeOK'
    BY DEF IInv, Wait
  <2> QED
    BY <2>1, <2>2, <2>3
<1>3. CpuInv'
  BY DEF IInv, CpuInv, Wait
<1>4. DiskInv'
  BY DEF IInv, DiskInv, Wait
<1>5. ReadyInv'
  BY DEF IInv, ReadyInv, Wait
<1>6. CallInv'
  BY DEF IInv, CallInv, Wait
<1>7. SuspendedInv'
  BY DEF IInv, SuspendedInv, Wait
<1>8. SleepersInv'
  BY DEF IInv, SleepersInv, Wait
<1>9. StatusInv'
  BY SMTT(60) DEF IInv, StatusInv, StatusOf, Wait
<1>10. WaitInv'
  BY SMTT(60) DEF IInv, WaitInv, Wait, CallInv
<1>11. AuxInv'
  BY SMTT(60) DEF IInv, AuxInv, Wait
<1>12. SleepInv'
  BY DEF IInv, SleepInv, Wait
<1> QED
  BY <1>2, <1>3, <1>4, <1>5, <1>6, <1>7, <1>8, <1>9, <1>10, <1>11, <1>12 DEF
     IInv

(* task_sleep: the flag is set before the suspension. *)
LEMMA SleepCallInv ==
  ASSUME IInv, NEW t \in Tasks, NEW d \in 0..MaxSleep, t # Disk, Sleep(t, d)
  PROVE  IInv'
<1>2. TypeOK'
  <2>1. TcbTypeOK' /\ QueuesTypeOK'
    BY DEF IInv, Sleep
  <2>2. CpuTypeOK' /\ PcTypeOK(DispatcherPC, DispatcherCont)'
    BY DEF IInv, Sleep
  <2>3. WaitTypeOK'
    BY DEF IInv, Sleep
  <2> QED
    BY <2>1, <2>2, <2>3
<1>3. CpuInv'
  BY DEF IInv, CpuInv, Sleep
<1>4. DiskInv'
  BY DEF IInv, DiskInv, Sleep
<1>5. ReadyInv'
  BY DEF IInv, ReadyInv, Sleep
<1>6. CallInv'
  BY DEF IInv, CallInv, Sleep
<1>7. SuspendedInv'
  BY DEF IInv, SuspendedInv, Sleep
<1>8. SleepersInv'
  BY DEF IInv, SleepersInv, Sleep
<1>9. StatusInv'
  BY SMTT(60) DEF IInv, StatusInv, StatusOf, Sleep
<1>10. WaitInv'
  BY SMTT(60) DEF IInv, WaitInv, Sleep
<1>11. AuxInv'
  BY SMTT(60) DEF IInv, AuxInv, Sleep
<1>12. SleepInv'
  BY DEF IInv, SleepInv, Sleep
<1> QED
  BY <1>2, <1>3, <1>4, <1>5, <1>6, <1>7, <1>8, <1>9, <1>10, <1>11, <1>12 DEF
     IInv

(* A call returns: the task keeps what it was given. *)
LEMMA ReturnInv ==
  ASSUME IInv, NEW t \in Tasks, Return(t)
  PROVE  IInv'
<1>2. TypeOK'
  <2>1. TcbTypeOK' /\ QueuesTypeOK'
    BY DEF IInv, Return
  <2>2. CpuTypeOK' /\ PcTypeOK(DispatcherPC, DispatcherCont)'
    BY DEF IInv, Return
  <2>3. WaitTypeOK'
    BY DEF IInv, Return
  <2> QED
    BY <2>1, <2>2, <2>3
<1>3. CpuInv'
  BY DEF IInv, CpuInv, Return
<1>4. DiskInv'
  BY DEF IInv, DiskInv, Return
<1>5. ReadyInv'
  BY DEF IInv, ReadyInv, Return
<1>6. CallInv'
  BY DEF IInv, CallInv, Return
<1>7. SuspendedInv'
  BY DEF IInv, SuspendedInv, Return
<1>8. SleepersInv'
  BY DEF IInv, SleepersInv, Return
<1>9. StatusInv'
  BY SMTT(60) DEF IInv, StatusInv, StatusOf, Return, SuspendedInv, SleepersInv
<1>10. WaitInv'
  BY SMTT(60) DEF IInv, WaitInv, Return, CallInv
<1>11. AuxInv'
  BY SMTT(60) DEF IInv, AuxInv, Return
<1>12. SleepInv'
  BY DEF IInv, SleepInv, Return
<1> QED
  BY <1>2, <1>3, <1>4, <1>5, <1>6, <1>7, <1>8, <1>9, <1>10, <1>11, <1>12 DEF
     IInv

(* task_exit begins: the task is FINISHED but still runs. *)
LEMMA ExitInv ==
  ASSUME IInv, NEW t \in Tasks, NEW code \in Codes, t # Disk, Exit(t, code)
  PROVE  IInv'
<1>2. TypeOK'
  <2>1. TcbTypeOK' /\ QueuesTypeOK'
    BY DEF IInv, Exit
  <2>2. CpuTypeOK' /\ PcTypeOK(DispatcherPC, DispatcherCont)'
    BY DEF IInv, Exit
  <2>3. WaitTypeOK'
    BY DEF IInv, Exit
  <2> QED
    BY <2>1, <2>2, <2>3
<1>3. CpuInv'
  BY DEF IInv, CpuInv, Exit
<1>4. DiskInv'
  BY DEF IInv, DiskInv, Exit
<1>5. ReadyInv'
  BY DEF IInv, ReadyInv, Exit
<1>6. CallInv'
  BY DEF IInv, CallInv, Exit
<1>7. SuspendedInv'
  BY DEF IInv, SuspendedInv, Exit
<1>8. SleepersInv'
  BY DEF IInv, SleepersInv, Exit
<1>9. StatusInv'
  BY SMTT(60) DEF IInv, StatusInv, StatusOf, Exit
<1>10. WaitInv'
  BY SMTT(60) DEF IInv, WaitInv, Exit
<1>11. AuxInv'
  BY SMTT(60) DEF IInv, AuxInv, Exit
<1>12. SleepInv'
  BY DEF IInv, SleepInv, Exit
<1> QED
  BY <1>2, <1>3, <1>4, <1>5, <1>6, <1>7, <1>8, <1>9, <1>10, <1>11, <1>12 DEF
     IInv

(* The first step of task_suspend. *)
LEMMA SuspendStatusInv ==
  ASSUME IInv, NEW t \in Tasks, SuspendStatus(t), UNCHANGED waitVars
  PROVE  IInv'
<1>2. TypeOK'
  <2>1. TcbTypeOK' /\ QueuesTypeOK'
    BY DEF IInv, SuspendStatus
  <2>2. CpuTypeOK' /\ PcTypeOK(DispatcherPC, DispatcherCont)'
    BY DEF IInv, SuspendStatus
  <2>3. WaitTypeOK'
    BY DEF IInv, SuspendStatus
  <2> QED
    BY <2>1, <2>2, <2>3
<1>3. CpuInv'
  BY DEF IInv, CpuInv, SuspendStatus
<1>4. DiskInv'
  BY DEF IInv, DiskInv, SuspendStatus
<1>5. ReadyInv'
  BY DEF IInv, ReadyInv, SuspendStatus
<1>6. CallInv'
  BY DEF IInv, CallInv, SuspendStatus
<1>7. SuspendedInv'
  BY DEF IInv, SuspendedInv, SuspendStatus
<1>8. SleepersInv'
  BY DEF IInv, SleepersInv, SuspendStatus
<1>9. StatusInv'
  BY SMTT(60) DEF IInv, StatusInv, StatusOf, SuspendStatus
<1>10. WaitInv'
  BY SMTT(60) DEF IInv, WaitInv, SuspendStatus, CallInv
<1>11. AuxInv'
  BY SMTT(60) DEF IInv, AuxInv, SuspendStatus
<1>12. SleepInv'
  BY DEF IInv, SleepInv, SuspendStatus
<1> QED
  BY <1>2, <1>3, <1>4, <1>5, <1>6, <1>7, <1>8, <1>9, <1>10, <1>11, <1>12 DEF
     IInv

(* The second step of task_suspend: the task is in the queue of its call. *)
LEMMA SuspendEnqueueInv ==
  ASSUME IInv, NEW t \in Tasks, SuspendEnqueue(t), UNCHANGED waitVars
  PROVE  IInv'
<1>1. /\ suspended' \in QueueOf(Tasks) /\ IsInjective(suspended'.items)
      /\ sleepers' \in QueueOf(Tasks) /\ IsInjective(sleepers'.items)
      /\ ToSet(sleepers'.items) = ToSet(sleepers.items)
                                    \cup (IF cont[t] = "sleep_ret" THEN {t} ELSE {})
      /\ ToSet(suspended'.items) = ToSet(suspended.items)
                                    \cup (IF cont[t] = "sleep_ret" THEN {} ELSE {t})
  <2>1. CASE cont[t] = "sleep_ret"
    <3>1. sleepers' = QAdd(sleepers, t) /\ suspended' = suspended
      BY <2>1 DEF SuspendEnqueue
    <3>2. t \notin ToSet(sleepers.items)
      BY DEF IInv, SleepersInv, SuspendEnqueue
    <3>3. /\ suspended \in QueueOf(Tasks) /\ IsInjective(suspended.items)
          /\ sleepers \in QueueOf(Tasks) /\ IsInjective(sleepers.items)
      BY DEF IInv, SuspendedInv, SleepersInv
    <3>4. /\ sleepers' \in QueueOf(Tasks) /\ IsInjective(sleepers'.items)
          /\ ToSet(sleepers'.items) = ToSet(sleepers.items) \cup {t}
      BY <3>1, <3>2, <3>3, QAddProperties, ZenonT(60)
    <3> QED
      BY <2>1, <3>1, <3>3, <3>4
  <2>2. CASE cont[t] # "sleep_ret"
    <3>1. suspended' = QAdd(suspended, t) /\ sleepers' = sleepers
      BY <2>2 DEF SuspendEnqueue
    <3>2. t \notin ToSet(suspended.items)
      BY DEF IInv, DiskInv, SuspendedInv, SuspendEnqueue
    <3>3. /\ suspended \in QueueOf(Tasks) /\ IsInjective(suspended.items)
          /\ sleepers \in QueueOf(Tasks) /\ IsInjective(sleepers.items)
      BY DEF IInv, SuspendedInv, SleepersInv
    <3>4. /\ suspended' \in QueueOf(Tasks) /\ IsInjective(suspended'.items)
          /\ ToSet(suspended'.items) = ToSet(suspended.items) \cup {t}
      BY <3>1, <3>2, <3>3, QAddProperties, ZenonT(60)
    <3> QED
      BY <2>2, <3>1, <3>3, <3>4
  <2> QED
    BY <2>1, <2>2
<1>2. TypeOK'
  <2>1. TcbTypeOK' /\ QueuesTypeOK'
    BY <1>1 DEF IInv, SuspendEnqueue
  <2>2. CpuTypeOK' /\ PcTypeOK(DispatcherPC, DispatcherCont)'
    BY <1>1 DEF IInv, SuspendEnqueue
  <2>3. WaitTypeOK'
    BY <1>1 DEF IInv, SuspendEnqueue
  <2> QED
    BY <2>1, <2>2, <2>3
<1>3. CpuInv'
  BY <1>1 DEF IInv, CpuInv, SuspendEnqueue
<1>4. DiskInv'
  BY <1>1 DEF IInv, DiskInv, SuspendEnqueue
<1>5. ReadyInv'
  BY <1>1 DEF IInv, ReadyInv, SuspendEnqueue
<1>6. CallInv'
  BY <1>1 DEF IInv, CallInv, SuspendEnqueue, DiskInv
<1>7. SuspendedInv'
  BY <1>1 DEF IInv, SuspendedInv, SuspendEnqueue, CallInv
<1>8. SleepersInv'
  BY <1>1 DEF IInv, SleepersInv, SuspendEnqueue, CallInv
<1>9. StatusInv'
  BY <1>1, SMTT(60) DEF IInv, StatusInv, StatusOf, SuspendEnqueue
<1>10. WaitInv'
  BY <1>1, SMTT(60) DEF IInv, WaitInv, SuspendEnqueue, CallInv
<1>11. AuxInv'
  BY <1>1, SMTT(60) DEF IInv, AuxInv, SuspendEnqueue
<1>12. SleepInv'
  BY <1>1 DEF IInv, SleepInv, SuspendEnqueue
<1> QED
  BY <1>2, <1>3, <1>4, <1>5, <1>6, <1>7, <1>8, <1>9, <1>10, <1>11, <1>12 DEF
     IInv

(* The last step of task_suspend: the processor is given back. *)
LEMMA SuspendSwitchInv ==
  ASSUME IInv, NEW t \in Tasks, SuspendSwitch(t), UNCHANGED waitVars
  PROVE  IInv'
<1>2. TypeOK'
  <2>1. TcbTypeOK' /\ QueuesTypeOK'
    BY DEF IInv, SuspendSwitch
  <2>2. CpuTypeOK' /\ PcTypeOK(DispatcherPC, DispatcherCont)'
    BY SMTT(60) DEF IInv, SuspendSwitch
  <2>3. WaitTypeOK'
    BY DEF IInv, SuspendSwitch
  <2> QED
    BY <2>1, <2>2, <2>3
<1>3. CpuInv'
  BY DEF IInv, CpuInv, SuspendSwitch
<1>4. DiskInv'
  BY DEF IInv, DiskInv, SuspendSwitch
<1>5. ReadyInv'
  BY DEF IInv, ReadyInv, SuspendSwitch
<1>6. CallInv'
  BY DEF IInv, CallInv, SuspendSwitch
<1>7. SuspendedInv'
  BY DEF IInv, SuspendedInv, SuspendSwitch, ReadyInv, CallInv
<1>8. SleepersInv'
  BY SMTT(60) DEF IInv, SleepersInv, SuspendSwitch, ReadyInv, CallInv
<1>9. StatusInv'
  BY SMTT(60) DEF IInv, StatusInv, StatusOf, SuspendSwitch, ReadyInv, CallInv
<1>10. WaitInv'
  <2>1. /\ pc[t] = "switch" /\ cont[t] \in {"wait_ret", "sleep_ret"}
        /\ pc' = [pc EXCEPT ![t] = cont[t]] /\ pc \in [Tasks -> DispatcherPC]
        /\ cont' = cont /\ ready' = ready /\ current' = TaskKernel
        /\ target' = target /\ targetCode' = targetCode /\ exitCode' = exitCode
    BY DEF IInv, CallInv, SuspendSwitch
  <2>2. t \notin ToSet(ready)
    BY DEF IInv, ReadyInv, SuspendSwitch
  <2> SUFFICES ASSUME NEW x \in Tasks
               PROVE  /\ InWait(x)' => target'[x] \in Tasks
                      /\ pc'[x] = "wait_ret" /\ Active(x)' => Delivered(x)'
    BY DEF WaitInv
  <2>3. InWait(x)' => InWait(x)
    BY <2>1
  <2>4. InWait(x) => target[x] \in Tasks
    BY DEF IInv, WaitInv
  <2>5. ASSUME pc'[x] = "wait_ret", Active(x)'
        PROVE  Delivered(x)'
    <3>1. x # t /\ Active(x) /\ pc[x] = "wait_ret" /\ cont[x] = "wait_ret"
      BY <2>1, <2>2, <2>5 DEF IInv, CallInv
    <3>2. Delivered(x) /\ target[x] \in Tasks
      BY <3>1 DEF IInv, WaitInv
    <3>3. Exited(target[x])'
      BY <2>1, <3>2
    <3> QED
      BY <2>1, <3>2, <3>3
  <2> QED
    BY <2>1, <2>3, <2>4, <2>5
<1>11. AuxInv'
  BY SMTT(60) DEF IInv, AuxInv, SuspendSwitch, ReadyInv, CallInv
<1>12. SleepInv'
  BY DEF IInv, SleepInv, SuspendSwitch, ReadyInv, CallInv
<1> QED
  BY <1>2, <1>3, <1>4, <1>5, <1>6, <1>7, <1>8, <1>9, <1>10, <1>11, <1>12 DEF
     IInv

(* The walk of task_exit starts at the head of the suspended queue. *)
LEMMA ExitHeadInv ==
  ASSUME IInv, NEW t \in Tasks, ExitHead(t)
  PROVE  IInv'
<1>1. /\ suspended' \in QueueOf(Tasks) /\ suspended'.items = suspended.items
      /\ QItem(suspended') = NULL \/ QItem(suspended') \in ToSet(suspended.items)
  BY QWalkProperties, QItemProperties DEF IInv, ExitHead
<1>2. TypeOK'
  <2>1. TcbTypeOK' /\ QueuesTypeOK'
    BY <1>1 DEF IInv, ExitHead
  <2>2. CpuTypeOK' /\ PcTypeOK(DispatcherPC, DispatcherCont)'
    BY <1>1 DEF IInv, ExitHead
  <2>3. WaitTypeOK'
    BY <1>1, QueueType DEF IInv, ExitHead
  <2> QED
    BY <2>1, <2>2, <2>3
<1>3. CpuInv'
  BY <1>1 DEF IInv, CpuInv, ExitHead
<1>4. DiskInv'
  BY <1>1 DEF IInv, DiskInv, ExitHead
<1>5. ReadyInv'
  BY <1>1 DEF IInv, ReadyInv, ExitHead
<1>6. CallInv'
  BY <1>1 DEF IInv, CallInv, ExitHead
<1>7. SuspendedInv'
  BY <1>1 DEF IInv, SuspendedInv, ExitHead
<1>8. SleepersInv'
  BY <1>1 DEF IInv, SleepersInv, ExitHead
<1>9. StatusInv'
  BY <1>1, SMTT(60) DEF IInv, StatusInv, StatusOf, ExitHead
<1>10. WaitInv'
  BY <1>1, SMTT(60) DEF IInv, WaitInv, ExitHead, CallInv
<1>11. AuxInv'
  BY <1>1, SMTT(60) DEF IInv, AuxInv, ExitHead, DiskInv, SuspendedInv
<1>12. SleepInv'
  BY <1>1 DEF IInv, SleepInv, ExitHead
<1> QED
  BY <1>2, <1>3, <1>4, <1>5, <1>6, <1>7, <1>8, <1>9, <1>10, <1>11, <1>12 DEF
     IInv

(* task_exit ends: the task is in no queue. *)
LEMMA ExitDoneInv ==
  ASSUME IInv, NEW t \in Tasks, ExitDone(t)
  PROVE  IInv'
<1>2. TypeOK'
  <2>1. TcbTypeOK' /\ QueuesTypeOK'
    BY DEF IInv, ExitDone
  <2>2. CpuTypeOK' /\ PcTypeOK(DispatcherPC, DispatcherCont)'
    BY DEF IInv, ExitDone
  <2>3. WaitTypeOK'
    BY DEF IInv, ExitDone
  <2> QED
    BY <2>1, <2>2, <2>3
<1>3. CpuInv'
  BY DEF IInv, CpuInv, ExitDone
<1>4. DiskInv'
  BY DEF IInv, DiskInv, ExitDone
<1>5. ReadyInv'
  BY DEF IInv, ReadyInv, ExitDone
<1>6. CallInv'
  BY DEF IInv, CallInv, ExitDone
<1>7. SuspendedInv'
  BY DEF IInv, SuspendedInv, ExitDone
<1>8. SleepersInv'
  BY DEF IInv, SleepersInv, ExitDone
<1>9. StatusInv'
  BY DEF IInv, StatusInv, StatusOf, ExitDone
<1>10. WaitInv'
  BY SMTT(60) DEF IInv, WaitInv, ExitDone, CallInv
<1>11. AuxInv'
  BY SMTT(60) DEF IInv, AuxInv, ExitDone
<1>12. SleepInv'
  BY DEF IInv, SleepInv, ExitDone
<1> QED
  BY <1>2, <1>3, <1>4, <1>5, <1>6, <1>7, <1>8, <1>9, <1>10, <1>11, <1>12 DEF
     IInv

(* What task_awake does to the status, the flag and the three queues. *)
LEMMA AwakeProperties ==
  ASSUME IInv, NEW w \in Tasks, w # Disk, current # w, AwakeTask(w)
  PROVE  /\ ready' \in Seq(Tasks) /\ IsInjective(ready')
         /\ AwakeSuspended(w) \in QueueOf(Tasks)
         /\ AwakeSleepers(w) \in QueueOf(Tasks)
         /\ IsInjective(AwakeSuspended(w).items)
         /\ IsInjective(AwakeSleepers(w).items)
         /\ status[w] = "SUSPENDED" =>
              /\ pc[w] \in {"wait_ret", "sleep_ret"}
              /\ ~ Active(w)
              /\ ToSet(ready') = ToSet(ready) \cup {w}
              /\ ToSet(AwakeSuspended(w).items) = ToSet(suspended.items) \ {w}
              /\ ToSet(AwakeSleepers(w).items) = ToSet(sleepers.items) \ {w}
         /\ status[w] # "SUSPENDED" =>
              ready' = ready /\ AwakeSuspended(w) = suspended /\ AwakeSleepers(w) = sleepers
<1>1. CASE status[w] # "SUSPENDED"
  BY <1>1 DEF IInv, ReadyInv, SuspendedInv, SleepersInv, AwakeTask, AwakeSuspended,
     AwakeSleepers
<1>2. CASE status[w] = "SUSPENDED"
  <2>1. /\ pc[w] \in {"wait_ret", "sleep_ret"}
        /\ ~ Active(w)
    BY <1>2 DEF IInv, ReadyInv, StatusInv, StatusOf, SuspendedInv,
       SleepersInv
  <2>2. /\ ready' \in Seq(Tasks) /\ IsInjective(ready')
        /\ ToSet(ready') = ToSet(ready) \cup {w}
    <3>1. ready' = Append(ready, w) /\ w \notin ToSet(ready)
      BY <1>2, <2>1 DEF AwakeTask
    <3>2. ready \in Seq(Tasks) /\ IsInjective(ready)
      BY DEF IInv, ReadyInv
    <3> QED
      BY <3>1, <3>2, AppendSet
  <2>3. /\ IsInjective(suspended.items) /\ IsInjective(sleepers.items)
        /\ suspended \in QueueOf(Tasks) /\ sleepers \in QueueOf(Tasks)
    BY DEF IInv, SuspendedInv, SleepersInv
  <2>4. CASE sleeping[w]
    <3>1. w \notin ToSet(suspended.items)
      BY <1>2, <2>4 DEF IInv, StatusInv, StatusOf, SuspendedInv
    <3>2. AwakeSleepers(w) = QDel(sleepers, w) /\ AwakeSuspended(w) = suspended
      BY <1>2, <2>4 DEF AwakeSleepers, AwakeSuspended
    <3> QED
      BY <1>2, <2>1, <2>2, <2>3, <3>1, <3>2, QDelProperties
  <2>5. CASE ~ sleeping[w]
    <3>1. w \notin ToSet(sleepers.items)
      BY <2>5 DEF IInv, StatusInv, StatusOf
    <3>2. AwakeSuspended(w) = QDel(suspended, w) /\ AwakeSleepers(w) = sleepers
      BY <1>2, <2>5 DEF AwakeSleepers, AwakeSuspended
    <3> QED
      BY <1>2, <2>1, <2>2, <2>3, <3>1, <3>2, QDelProperties
  <2> QED
    BY <2>4, <2>5
<1> QED
  BY <1>1, <1>2

(* task_run: the selected task leaves the ready queue and runs. *)
LEMMA RunInv ==
  ASSUME IInv, NEW t \in Tasks, Run(t)
  PROVE  IInv'
<1>1. /\ ready' \in Seq(Tasks)
      /\ ToSet(ready') = ToSet(ready) \ {t}
      /\ IsInjective(ready')
  BY RemoveFirstProperties DEF IInv, ReadyInv, Run, Dispatch
<1>2. TypeOK'
  <2>1. TcbTypeOK' /\ QueuesTypeOK'
    BY <1>1 DEF IInv, Run, Dispatch
  <2>2. CpuTypeOK' /\ PcTypeOK(DispatcherPC, DispatcherCont)'
    BY <1>1 DEF IInv, Run, Dispatch
  <2>3. WaitTypeOK'
    BY <1>1 DEF IInv, Run, Dispatch
  <2> QED
    BY <2>1, <2>2, <2>3
<1>3. CpuInv'
  BY <1>1 DEF IInv, CpuInv, Run, Dispatch
<1>4. DiskInv'
  BY <1>1 DEF IInv, DiskInv, Run, Dispatch
<1>5. ReadyInv'
  BY <1>1 DEF IInv, ReadyInv, Run, Dispatch
<1>6. CallInv'
  BY <1>1 DEF IInv, CallInv, Run, Dispatch, CpuInv
<1>7. SuspendedInv'
  BY <1>1 DEF IInv, SuspendedInv, Run, Dispatch
<1>8. SleepersInv'
  BY <1>1 DEF IInv, SleepersInv, Run, Dispatch
<1>9. StatusInv'
  BY <1>1 DEF IInv, StatusInv, StatusOf, Run, Dispatch, CpuInv, ReadyInv
<1>10. WaitInv'
  BY <1>1 DEF IInv, WaitInv, Run, Dispatch
<1>11. AuxInv'
  BY <1>1 DEF IInv, AuxInv, Run, Dispatch
<1>12. SleepInv'
  BY <1>1 DEF IInv, SleepInv, Run, Dispatch
<1> QED
  BY <1>2, <1>3, <1>4, <1>5, <1>6, <1>7, <1>8, <1>9, <1>10, <1>11, <1>12 DEF
     IInv

(* A turn of the walk of t in task_exit lets the task w go. *)
LetGo(t, w) == target[w] = t /\ status[w] = "SUSPENDED"

(* What a turn of the walk of task_exit does to the queues. *)
LEMMA ExitScanProperties ==
  ASSUME IInv, NEW t \in Tasks, NEW w \in Tasks, ExitScan(t, w)
  PROVE  /\ ready' \in Seq(Tasks) /\ IsInjective(ready')
         /\ suspended' \in QueueOf(Tasks) /\ IsInjective(suspended'.items)
         /\ sleepers' \in QueueOf(Tasks) /\ IsInjective(sleepers'.items)
         /\ QItem(suspended') = NULL \/ QItem(suspended') \in ToSet(suspended'.items)
         /\ ToSet(sleepers'.items) = ToSet(sleepers.items)
         /\ target[w] = t => w # Disk /\ w # t
         /\ LetGo(t, w) => /\ pc[w] = "wait_ret" /\ cont[w] = "wait_ret" /\ ~ Active(w)
                           /\ status' = [status EXCEPT ![w] = "READY"]
                           /\ sleeping' = [sleeping EXCEPT ![w] = FALSE]
                           /\ ToSet(ready') = ToSet(ready) \cup {w}
                           /\ ToSet(suspended'.items) = ToSet(suspended.items) \ {w}
         /\ ~ LetGo(t, w) => /\ UNCHANGED <<status, sleeping, ready>>
                             /\ suspended'.items = suspended.items
<1>0. /\ ready \in Seq(Tasks) /\ IsInjective(ready)
      /\ suspended \in QueueOf(Tasks) /\ IsInjective(suspended.items)
      /\ sleepers \in QueueOf(Tasks) /\ IsInjective(sleepers.items)
  BY DEF IInv, ReadyInv, SuspendedInv, SleepersInv
<1>1. CASE target[w] # t
  <2>1. /\ suspended' = QNext(suspended)
        /\ UNCHANGED <<status, sleeping, ready, sleepers>>
    BY <1>1 DEF ExitScan
  <2> QED
    BY <1>0, <1>1, <2>1, QWalkProperties, QItemProperties DEF LetGo
<1>2. CASE target[w] = t
  <2>1. /\ suspended' = QNext(AwakeSuspended(w))
        /\ sleepers' = AwakeSleepers(w)
        /\ AwakeTask(w)
    BY <1>2 DEF ExitScan
  <2>2. w # Disk /\ w # t /\ current # w /\ InWait(w)
    BY <1>2 DEF IInv, DiskInv, AuxInv, ExitScan
  <2>3. w \notin ToSet(sleepers.items)
    BY <2>2 DEF IInv, SleepersInv
  <2>4. /\ ready' \in Seq(Tasks) /\ IsInjective(ready')
        /\ AwakeSuspended(w) \in QueueOf(Tasks)
        /\ AwakeSleepers(w) \in QueueOf(Tasks)
        /\ IsInjective(AwakeSuspended(w).items)
        /\ IsInjective(AwakeSleepers(w).items)
    BY <2>1, <2>2, AwakeProperties
  <2>5. /\ suspended' \in QueueOf(Tasks)
        /\ suspended'.items = AwakeSuspended(w).items
    BY <2>1, <2>4, QWalkProperties
  <2>6. QItem(suspended') = NULL \/ QItem(suspended') \in ToSet(suspended'.items)
    BY <2>5, QItemProperties
  <2>7. CASE status[w] = "SUSPENDED"
    <3>1. /\ pc[w] \in {"wait_ret", "sleep_ret"}
          /\ ~ Active(w)
          /\ ToSet(ready') = ToSet(ready) \cup {w}
          /\ ToSet(AwakeSuspended(w).items) = ToSet(suspended.items) \ {w}
          /\ ToSet(AwakeSleepers(w).items) = ToSet(sleepers.items) \ {w}
      BY <2>1, <2>2, <2>7, AwakeProperties
    <3>2. /\ status' = [status EXCEPT ![w] = "READY"]
          /\ sleeping' = [sleeping EXCEPT ![w] = FALSE]
      BY <2>1, <2>7 DEF AwakeTask
    <3>3. ToSet(sleepers'.items) = ToSet(sleepers.items)
      BY <2>1, <2>3, <3>1
    <3> QED
      BY <1>2, <2>1, <2>2, <2>4, <2>5, <2>6, <2>7, <3>1, <3>2, <3>3 DEF LetGo
  <2>8. CASE status[w] # "SUSPENDED"
    <3>1. /\ UNCHANGED <<status, sleeping, ready>>
          /\ AwakeSuspended(w) = suspended
          /\ AwakeSleepers(w) = sleepers
      BY <2>1, <2>8 DEF AwakeTask, AwakeSuspended, AwakeSleepers
    <3> QED
      BY <1>0, <1>2, <2>1, <2>2, <2>5, <2>6, <2>8, <3>1 DEF LetGo
  <2> QED
    BY <2>7, <2>8
<1> QED
  BY <1>1, <1>2

(* A turn of the walk of task_exit. *)
LEMMA ExitScanInv ==
  ASSUME IInv, NEW t \in Tasks, NEW w \in Tasks, ExitScan(t, w)
  PROVE  IInv'
<1>1. /\ ready' \in Seq(Tasks) /\ IsInjective(ready')
      /\ suspended' \in QueueOf(Tasks) /\ IsInjective(suspended'.items)
      /\ sleepers' \in QueueOf(Tasks) /\ IsInjective(sleepers'.items)
      /\ QItem(suspended') = NULL \/ QItem(suspended') \in ToSet(suspended'.items)
      /\ ToSet(sleepers'.items) = ToSet(sleepers.items)
      /\ target[w] = t => w # Disk /\ w # t
      /\ LetGo(t, w) => /\ pc[w] = "wait_ret" /\ cont[w] = "wait_ret" /\ ~ Active(w)
                        /\ status' = [status EXCEPT ![w] = "READY"]
                        /\ sleeping' = [sleeping EXCEPT ![w] = FALSE]
                        /\ ToSet(ready') = ToSet(ready) \cup {w}
                        /\ ToSet(suspended'.items) = ToSet(suspended.items) \ {w}
      /\ ~ LetGo(t, w) => /\ UNCHANGED <<status, sleeping, ready>>
                          /\ suspended'.items = suspended.items
  BY ExitScanProperties
<1>2. /\ current = t /\ pc[t] = "exit_scan" /\ aux[t] = w
      /\ LetGo(t, w) => target[w] = t
      /\ UNCHANGED <<left, current, remaining, pc, cont, kpc, nextTask, target, exitCode>>
      /\ aux' = [aux EXCEPT ![t] = QItem(suspended')]
      /\ targetCode' = IF target[w] = t THEN [targetCode EXCEPT ![w] = exitCode[t]]
                                       ELSE targetCode
  BY DEF ExitScan, LetGo
<1>3. TypeOK'
  <2>1. TcbTypeOK' /\ QueuesTypeOK'
    <3>1. QueuesTypeOK'
      BY <1>1 DEF IInv
    <3>2. CASE LetGo(t, w)
      <4>1. /\ status' = [status EXCEPT ![w] = "READY"]
            /\ sleeping' = [sleeping EXCEPT ![w] = FALSE]
            /\ left' = left
        BY <1>1, <1>2, <3>2
      <4> QED
        BY <3>1, <4>1 DEF IInv
    <3>3. CASE ~ LetGo(t, w)
      BY <1>1, <1>2, <3>1, <3>3 DEF IInv
    <3> QED
      BY <3>2, <3>3
  <2>2. CpuTypeOK' /\ PcTypeOK(DispatcherPC, DispatcherCont)'
    BY <1>1, <1>2 DEF IInv
  <2>3. WaitTypeOK'
    <3>1. CASE LetGo(t, w)
      BY <1>1, <1>2, <3>1, QueueType DEF IInv
    <3>2. CASE ~ LetGo(t, w)
      BY <1>1, <1>2, <3>2, QueueType DEF IInv
    <3> QED
      BY <3>1, <3>2
  <2> QED
    BY <2>1, <2>2, <2>3
<1>4. CpuInv'
  BY <1>1, <1>2 DEF IInv, CpuInv
<1>5. DiskInv'
  BY <1>1, <1>2 DEF IInv, DiskInv
<1>6. ReadyInv'
  BY <1>1, <1>2, ZenonT(60) DEF IInv, ReadyInv
<1>7. CallInv'
  BY <1>1, <1>2 DEF IInv, CallInv
<1>8. SuspendedInv'
  BY <1>1, <1>2 DEF IInv, SuspendedInv
<1>9. SleepersInv'
  BY <1>1, <1>2 DEF IInv, SleepersInv
<1>10. StatusInv'
  <2> SUFFICES ASSUME NEW x \in Tasks
               PROVE  StatusOf(x)'
    BY DEF StatusInv
  <2>1. CASE ~ LetGo(t, w)
    BY <1>1, <1>2, <2>1 DEF IInv, StatusInv, StatusOf
  <2>2. CASE LetGo(t, w) /\ x = w
    BY <1>1, <1>2, <2>2 DEF IInv, StatusInv, StatusOf
  <2>3. CASE LetGo(t, w) /\ x # w
    <3>1. /\ status'[x] = status[x] /\ sleeping'[x] = sleeping[x]
          /\ Waiting(x)' = Waiting(x) /\ Asleep(x)' = Asleep(x)
          /\ Active(x)' = Active(x)
      BY <1>1, <1>2, <2>3 DEF IInv
    <3> QED
      BY <1>2, <3>1 DEF IInv, StatusInv, StatusOf
  <2> QED
    BY <2>1, <2>2, <2>3
<1>11. WaitInv'
  <2> SUFFICES ASSUME NEW x \in Tasks
               PROVE  /\ InWait(x)' => target'[x] \in Tasks
                      /\ pc'[x] = "wait_ret" /\ Active(x)' => Delivered(x)'
    BY DEF WaitInv
  <2>1. InWait(x)' => target'[x] \in Tasks
    BY <1>2 DEF IInv, WaitInv
  <2>2. ASSUME pc[x] = "wait_ret", Active(x)'
        PROVE  Delivered(x)'
    <3>1. CASE target[w] = t /\ x = w
      BY <1>1, <1>2, <3>1 DEF IInv
    <3>2. CASE ~ (target[w] = t /\ x = w)
      <4>1. ~ (LetGo(t, w) /\ x = w) /\ targetCode'[x] = targetCode[x]
        BY <1>2, <3>2 DEF IInv
      <4>2. Active(x)
        BY <1>1, <1>2, <2>2, <4>1 DEF IInv
      <4> QED
        BY <1>2, <2>2, <4>1, <4>2 DEF IInv, WaitInv
    <3> QED
      BY <3>1, <3>2
  <2> QED
    BY <1>2, <2>1, <2>2
<1>12. AuxInv'
  <2> SUFFICES ASSUME NEW x \in Tasks, NEW u \in Tasks, aux'[u] = x, target'[x] = u
               PROVE  (InWait(x) /\ ~ (pc[x] = "wait_ret" /\ Active(x)))'
    BY DEF AuxInv
  <2>1. CASE u # t
    <3>1. aux[u] = x /\ target[x] = u /\ ~ (LetGo(t, w) /\ x = w)
      BY <1>2, <2>1 DEF IInv
    <3> QED
      BY <1>1, <1>2, <3>1, SMTT(60) DEF IInv, AuxInv
  <2>2. CASE u = t
    <3>1. x = QItem(suspended')
      BY <1>2, <2>2 DEF IInv
    <3>2. x \in ToSet(suspended'.items) /\ x # Disk
      BY <1>1, <1>2, <2>2, <3>1 DEF IInv, DiskInv
    <3>3. x \in ToSet(suspended.items) /\ ~ (LetGo(t, w) /\ x = w)
      BY <1>1, <3>2
    <3> QED
      BY <1>1, <1>2, <3>2, <3>3 DEF IInv, SuspendedInv
  <2> QED
    BY <2>1, <2>2
<1>13. SleepInv'
  BY <1>1, <1>2, SMTT(60) DEF IInv, SleepInv
<1> QED
  BY <1>3, <1>4, <1>5, <1>6, <1>7, <1>8, <1>9, <1>10, <1>11, <1>12, <1>13 DEF
     IInv

(* A turn of the walk over the sleepers makes the task w ready. *)
WakesUp(w) == left[w] = 0 /\ status[w] = "SUSPENDED"

(* What a turn of the walk over the sleepers does to the queues. *)
LEMMA ScanSleeperProperties ==
  ASSUME IInv, NEW w \in Tasks, ScanSleeper(w)
  PROVE  /\ ready' \in Seq(Tasks) /\ IsInjective(ready')
         /\ suspended' \in QueueOf(Tasks) /\ IsInjective(suspended'.items)
         /\ sleepers' \in QueueOf(Tasks) /\ IsInjective(sleepers'.items)
         /\ ToSet(suspended'.items) = ToSet(suspended.items)
         /\ w # Disk
         /\ WakesUp(w) => /\ pc[w] = "sleep_ret" /\ cont[w] = "sleep_ret" /\ ~ Active(w)
                          /\ status' = [status EXCEPT ![w] = "READY"]
                          /\ sleeping' = [sleeping EXCEPT ![w] = FALSE]
                          /\ ToSet(ready') = ToSet(ready) \cup {w}
                          /\ ToSet(sleepers'.items) = ToSet(sleepers.items) \ {w}
         /\ ~ WakesUp(w) => /\ UNCHANGED <<status, sleeping, ready>>
                            /\ sleepers'.items = sleepers.items
<1>0. /\ ready \in Seq(Tasks) /\ IsInjective(ready)
      /\ suspended \in QueueOf(Tasks) /\ IsInjective(suspended.items)
      /\ sleepers \in QueueOf(Tasks) /\ IsInjective(sleepers.items)
  BY DEF IInv, ReadyInv, SuspendedInv, SleepersInv
<1>1. w \in ToSet(sleepers.items)
  BY <1>0, QItemProperties DEF ScanSleeper
<1>2. /\ w # Disk /\ current # w
      /\ w \notin ToSet(suspended.items)
      /\ cont[w] = "sleep_ret"
  BY <1>1 DEF IInv, CpuInv, DiskInv, SuspendedInv, SleepersInv, ScanSleeper
<1>3. CASE left[w] # 0
  <2>1. /\ sleepers' = QNext(sleepers)
        /\ UNCHANGED <<status, sleeping, ready, suspended>>
    BY <1>3 DEF ScanSleeper
  <2> QED
    BY <1>0, <1>2, <1>3, <2>1, QWalkProperties DEF WakesUp
<1>4. CASE left[w] = 0
  <2>1. /\ sleepers' = QNext(AwakeSleepers(w))
        /\ suspended' = AwakeSuspended(w)
        /\ AwakeTask(w)
    BY <1>4 DEF ScanSleeper
  <2>2. /\ ready' \in Seq(Tasks) /\ IsInjective(ready')
        /\ AwakeSuspended(w) \in QueueOf(Tasks)
        /\ AwakeSleepers(w) \in QueueOf(Tasks)
        /\ IsInjective(AwakeSuspended(w).items)
        /\ IsInjective(AwakeSleepers(w).items)
    BY <1>2, <2>1, AwakeProperties
  <2>3. /\ sleepers' \in QueueOf(Tasks)
        /\ sleepers'.items = AwakeSleepers(w).items
    BY <2>1, <2>2, QWalkProperties
  <2>4. CASE status[w] = "SUSPENDED"
    <3>1. /\ pc[w] \in {"wait_ret", "sleep_ret"}
          /\ ~ Active(w)
          /\ ToSet(ready') = ToSet(ready) \cup {w}
          /\ ToSet(AwakeSuspended(w).items) = ToSet(suspended.items) \ {w}
          /\ ToSet(AwakeSleepers(w).items) = ToSet(sleepers.items) \ {w}
      BY <1>2, <2>1, <2>4, AwakeProperties
    <3>2. /\ status' = [status EXCEPT ![w] = "READY"]
          /\ sleeping' = [sleeping EXCEPT ![w] = FALSE]
      BY <2>1, <2>4 DEF AwakeTask
    <3>3. pc[w] = "sleep_ret"
      BY <1>2, <3>1 DEF IInv, CallInv
    <3> QED
      BY <1>2, <1>4, <2>1, <2>2, <2>3, <2>4, <3>1, <3>2, <3>3 DEF WakesUp
  <2>5. CASE status[w] # "SUSPENDED"
    <3>1. /\ UNCHANGED <<status, sleeping, ready>>
          /\ AwakeSuspended(w) = suspended
          /\ AwakeSleepers(w) = sleepers
      BY <2>1, <2>5 DEF AwakeTask, AwakeSuspended, AwakeSleepers
    <3> QED
      BY <1>0, <1>2, <2>1, <2>3, <2>5, <3>1 DEF WakesUp
  <2> QED
    BY <2>4, <2>5
<1> QED
  BY <1>3, <1>4

(* A turn of the dispatcher's walk over the sleepers. *)
LEMMA ScanSleeperInv ==
  ASSUME IInv, NEW w \in Tasks, ScanSleeper(w), UNCHANGED waitVars
  PROVE  IInv'
<1>1. /\ ready' \in Seq(Tasks) /\ IsInjective(ready')
      /\ suspended' \in QueueOf(Tasks) /\ IsInjective(suspended'.items)
      /\ sleepers' \in QueueOf(Tasks) /\ IsInjective(sleepers'.items)
      /\ ToSet(suspended'.items) = ToSet(suspended.items)
      /\ w # Disk
      /\ WakesUp(w) => /\ pc[w] = "sleep_ret" /\ cont[w] = "sleep_ret" /\ ~ Active(w)
                       /\ status' = [status EXCEPT ![w] = "READY"]
                       /\ sleeping' = [sleeping EXCEPT ![w] = FALSE]
                       /\ ToSet(ready') = ToSet(ready) \cup {w}
                       /\ ToSet(sleepers'.items) = ToSet(sleepers.items) \ {w}
      /\ ~ WakesUp(w) => /\ UNCHANGED <<status, sleeping, ready>>
                         /\ sleepers'.items = sleepers.items
  BY ScanSleeperProperties
<1>2. /\ kpc = "scan"
      /\ WakesUp(w) => left[w] = 0
      /\ UNCHANGED <<left, current, remaining, pc, cont, kpc, nextTask, target,
                     targetCode, exitCode, aux>>
  BY DEF ScanSleeper, WakesUp
<1>3. TypeOK'
  <2>1. TcbTypeOK' /\ QueuesTypeOK'
    <3>1. CASE WakesUp(w)
      BY <1>1, <1>2, <3>1, ZenonT(60) DEF IInv
    <3>2. CASE ~ WakesUp(w)
      BY <1>1, <1>2, <3>2 DEF IInv
    <3> QED
      BY <3>1, <3>2
  <2>2. CpuTypeOK' /\ PcTypeOK(DispatcherPC, DispatcherCont)'
    BY <1>1, <1>2 DEF IInv
  <2>3. WaitTypeOK'
    BY <1>1, <1>2 DEF IInv
  <2> QED
    BY <2>1, <2>2, <2>3
<1>4. CpuInv'
  BY <1>1, <1>2 DEF IInv, CpuInv
<1>5. DiskInv'
  BY <1>1, <1>2 DEF IInv, DiskInv
<1>6. ReadyInv'
  BY <1>1, <1>2 DEF IInv, ReadyInv
<1>7. CallInv'
  BY <1>1, <1>2 DEF IInv, CallInv
<1>8. SuspendedInv'
  BY <1>1, <1>2 DEF IInv, SuspendedInv
<1>9. SleepersInv'
  BY <1>1, <1>2 DEF IInv, SleepersInv
<1>10. StatusInv'
  <2> SUFFICES ASSUME NEW x \in Tasks
               PROVE  StatusOf(x)'
    BY DEF StatusInv
  <2>1. CASE ~ WakesUp(w)
    BY <1>1, <1>2, <2>1 DEF IInv, StatusInv, StatusOf
  <2>2. CASE WakesUp(w) /\ x = w
    BY <1>1, <1>2, <2>2 DEF IInv, StatusInv, StatusOf
  <2>3. CASE WakesUp(w) /\ x # w
    BY <1>1, <1>2, <2>3, SMTT(60) DEF IInv, StatusInv, StatusOf
  <2> QED
    BY <2>1, <2>2, <2>3
<1>11. WaitInv'
  BY <1>1, <1>2, SMTT(60) DEF IInv, WaitInv
<1>12. AuxInv'
  BY <1>1, <1>2, SMTT(60) DEF IInv, AuxInv
<1>13. SleepInv'
  BY <1>1, <1>2 DEF IInv, SleepInv
<1> QED
  BY <1>3, <1>4, <1>5, <1>6, <1>7, <1>8, <1>9, <1>10, <1>11, <1>12, <1>13 DEF
     IInv

(* The dispatcher looks at the status of the task that came back. *)
LEMMA AfterRunInv ==
  ASSUME IInv, AfterRun, UNCHANGED waitVars
  PROVE  IInv'
<1>1. /\ sleepers' \in QueueOf(Tasks) /\ sleepers'.items = sleepers.items
  BY QWalkProperties DEF IInv, AfterRun
<1>2. TypeOK'
  <2>1. TcbTypeOK' /\ QueuesTypeOK'
    BY <1>1 DEF IInv, AfterRun
  <2>2. CpuTypeOK' /\ PcTypeOK(DispatcherPC, DispatcherCont)'
    BY <1>1 DEF IInv, AfterRun
  <2>3. WaitTypeOK'
    BY <1>1 DEF IInv, AfterRun
  <2> QED
    BY <2>1, <2>2, <2>3
<1>3. CpuInv'
  BY <1>1 DEF IInv, CpuInv, AfterRun
<1>4. DiskInv'
  BY <1>1 DEF IInv, DiskInv, AfterRun
<1>5. ReadyInv'
  BY <1>1 DEF IInv, ReadyInv, AfterRun
<1>6. CallInv'
  BY <1>1 DEF IInv, CallInv, AfterRun
<1>7. SuspendedInv'
  BY <1>1 DEF IInv, SuspendedInv, AfterRun
<1>8. SleepersInv'
  BY <1>1 DEF IInv, SleepersInv, AfterRun
<1>9. StatusInv'
  BY <1>1 DEF IInv, StatusInv, StatusOf, AfterRun
<1>10. WaitInv'
  BY <1>1 DEF IInv, WaitInv, AfterRun
<1>11. AuxInv'
  BY <1>1 DEF IInv, AuxInv, AfterRun
<1>12. SleepInv'
  BY <1>1 DEF IInv, SleepInv, AfterRun
<1> QED
  BY <1>2, <1>3, <1>4, <1>5, <1>6, <1>7, <1>8, <1>9, <1>10, <1>11, <1>12 DEF
     IInv

(* A turn with nobody to run goes to the sleepers. *)
LEMMA EmptyTurnInv ==
  ASSUME IInv, EmptyTurn(0), UNCHANGED waitVars
  PROVE  IInv'
<1>1. /\ sleepers' \in QueueOf(Tasks) /\ sleepers'.items = sleepers.items
  BY QWalkProperties DEF IInv, EmptyTurn
<1>2. TypeOK'
  <2>1. TcbTypeOK' /\ QueuesTypeOK'
    BY <1>1 DEF IInv, EmptyTurn
  <2>2. CpuTypeOK' /\ PcTypeOK(DispatcherPC, DispatcherCont)'
    BY <1>1 DEF IInv, EmptyTurn
  <2>3. WaitTypeOK'
    BY <1>1 DEF IInv, EmptyTurn
  <2> QED
    BY <2>1, <2>2, <2>3
<1>3. CpuInv'
  BY <1>1 DEF IInv, CpuInv, EmptyTurn
<1>4. DiskInv'
  BY <1>1 DEF IInv, DiskInv, EmptyTurn
<1>5. ReadyInv'
  BY <1>1 DEF IInv, ReadyInv, EmptyTurn
<1>6. CallInv'
  BY <1>1 DEF IInv, CallInv, EmptyTurn
<1>7. SuspendedInv'
  BY <1>1 DEF IInv, SuspendedInv, EmptyTurn
<1>8. SleepersInv'
  BY <1>1 DEF IInv, SleepersInv, EmptyTurn
<1>9. StatusInv'
  BY <1>1 DEF IInv, StatusInv, StatusOf, EmptyTurn
<1>10. WaitInv'
  BY <1>1 DEF IInv, WaitInv, EmptyTurn
<1>11. AuxInv'
  BY <1>1 DEF IInv, AuxInv, EmptyTurn
<1>12. SleepInv'
  BY <1>1 DEF IInv, SleepInv, EmptyTurn
<1> QED
  BY <1>2, <1>3, <1>4, <1>5, <1>6, <1>7, <1>8, <1>9, <1>10, <1>11, <1>12 DEF
     IInv

(* The walk over the sleepers is over. *)
LEMMA ScanEndInv ==
  ASSUME IInv, ScanEnd, UNCHANGED waitVars
  PROVE  IInv'
<1>2. TypeOK'
  <2>1. TcbTypeOK' /\ QueuesTypeOK'
    BY DEF IInv, ScanEnd
  <2>2. CpuTypeOK' /\ PcTypeOK(DispatcherPC, DispatcherCont)'
    BY DEF IInv, ScanEnd
  <2>3. WaitTypeOK'
    BY DEF IInv, ScanEnd
  <2> QED
    BY <2>1, <2>2, <2>3
<1>3. CpuInv'
  BY DEF IInv, CpuInv, ScanEnd
<1>4. DiskInv'
  BY DEF IInv, DiskInv, ScanEnd
<1>5. ReadyInv'
  BY DEF IInv, ReadyInv, ScanEnd
<1>6. CallInv'
  BY DEF IInv, CallInv, ScanEnd
<1>7. SuspendedInv'
  BY DEF IInv, SuspendedInv, ScanEnd
<1>8. SleepersInv'
  BY DEF IInv, SleepersInv, ScanEnd
<1>9. StatusInv'
  BY DEF IInv, StatusInv, StatusOf, ScanEnd
<1>10. WaitInv'
  BY DEF IInv, WaitInv, ScanEnd
<1>11. AuxInv'
  BY DEF IInv, AuxInv, ScanEnd
<1>12. SleepInv'
  BY DEF IInv, SleepInv, ScanEnd
<1> QED
  BY <1>2, <1>3, <1>4, <1>5, <1>6, <1>7, <1>8, <1>9, <1>10, <1>11, <1>12 DEF
     IInv

(* The loop ends. *)
LEMMA StopInv ==
  ASSUME IInv, Stop(0), UNCHANGED waitVars
  PROVE  IInv'
<1>2. TypeOK'
  <2>1. TcbTypeOK' /\ QueuesTypeOK'
    BY DEF IInv, Stop
  <2>2. CpuTypeOK' /\ PcTypeOK(DispatcherPC, DispatcherCont)'
    BY DEF IInv, Stop
  <2>3. WaitTypeOK'
    BY DEF IInv, Stop
  <2> QED
    BY <2>1, <2>2, <2>3
<1>3. CpuInv'
  BY DEF IInv, CpuInv, Stop
<1>4. DiskInv'
  BY DEF IInv, DiskInv, Stop
<1>5. ReadyInv'
  BY DEF IInv, ReadyInv, Stop
<1>6. CallInv'
  BY DEF IInv, CallInv, Stop
<1>7. SuspendedInv'
  BY DEF IInv, SuspendedInv, Stop
<1>8. SleepersInv'
  BY DEF IInv, SleepersInv, Stop
<1>9. StatusInv'
  BY DEF IInv, StatusInv, StatusOf, Stop
<1>10. WaitInv'
  BY DEF IInv, WaitInv, Stop
<1>11. AuxInv'
  BY DEF IInv, AuxInv, Stop
<1>12. SleepInv'
  BY DEF IInv, SleepInv, Stop
<1> QED
  BY <1>2, <1>3, <1>4, <1>5, <1>6, <1>7, <1>8, <1>9, <1>10, <1>11, <1>12 DEF
     IInv

(* A tick in the kernel only advances the clock. *)
LEMMA TickInKernelInv ==
  ASSUME IInv, TickInKernel, LeftStep, UNCHANGED waitVars
  PROVE  IInv'
<1>2. TypeOK'
  <2>1. TcbTypeOK' /\ QueuesTypeOK'
    BY DEF IInv, TickInKernel, LeftStep
  <2>2. CpuTypeOK' /\ PcTypeOK(DispatcherPC, DispatcherCont)'
    BY DEF IInv, TickInKernel
  <2>3. WaitTypeOK'
    BY DEF IInv, TickInKernel
  <2> QED
    BY <2>1, <2>2, <2>3
<1>3. CpuInv'
  BY DEF IInv, CpuInv, TickInKernel
<1>4. DiskInv'
  BY DEF IInv, DiskInv, TickInKernel
<1>5. ReadyInv'
  BY DEF IInv, ReadyInv, TickInKernel
<1>6. CallInv'
  BY DEF IInv, CallInv, TickInKernel
<1>7. SuspendedInv'
  BY DEF IInv, SuspendedInv, TickInKernel
<1>8. SleepersInv'
  BY DEF IInv, SleepersInv, TickInKernel
<1>9. StatusInv'
  BY DEF IInv, StatusInv, StatusOf, TickInKernel
<1>10. WaitInv'
  BY DEF IInv, WaitInv, TickInKernel
<1>11. AuxInv'
  BY DEF IInv, AuxInv, TickInKernel
<1>12. SleepInv'
  BY DEF IInv, SleepInv, TickInKernel, LeftStep
<1> QED
  BY <1>2, <1>3, <1>4, <1>5, <1>6, <1>7, <1>8, <1>9, <1>10, <1>11, <1>12 DEF
     IInv

(* A tick in a task that still has quantum left. *)
LEMMA TickInTaskInv ==
  ASSUME IInv, NEW t \in Tasks, TickInTask(t), LeftStep, UNCHANGED waitVars
  PROVE  IInv'
<1>2. TypeOK'
  <2>1. TcbTypeOK' /\ QueuesTypeOK'
    BY DEF IInv, TickInTask, LeftStep
  <2>2. CpuTypeOK' /\ PcTypeOK(DispatcherPC, DispatcherCont)'
    BY SMTT(60) DEF IInv, TickInTask
  <2>3. WaitTypeOK'
    BY DEF IInv, TickInTask
  <2> QED
    BY <2>1, <2>2, <2>3
<1>3. CpuInv'
  BY DEF IInv, CpuInv, TickInTask
<1>4. DiskInv'
  BY DEF IInv, DiskInv, TickInTask
<1>5. ReadyInv'
  BY DEF IInv, ReadyInv, TickInTask
<1>6. CallInv'
  BY DEF IInv, CallInv, TickInTask
<1>7. SuspendedInv'
  BY DEF IInv, SuspendedInv, TickInTask
<1>8. SleepersInv'
  BY DEF IInv, SleepersInv, TickInTask
<1>9. StatusInv'
  BY DEF IInv, StatusInv, StatusOf, TickInTask
<1>10. WaitInv'
  BY DEF IInv, WaitInv, TickInTask
<1>11. AuxInv'
  BY DEF IInv, AuxInv, TickInTask
<1>12. SleepInv'
  BY DEF IInv, SleepInv, TickInTask, LeftStep
<1> QED
  BY <1>2, <1>3, <1>4, <1>5, <1>6, <1>7, <1>8, <1>9, <1>10, <1>11, <1>12 DEF
     IInv

(***************************************************************************)
(* The theorems.                                                           *)
(***************************************************************************)

(* The state ppos_start leaves satisfies the invariant. *)
LEMMA InitInv ==
  ASSUME Init
  PROVE  IInv
<1>1. /\ suspended \in QueueOf(Tasks)
      /\ ToSet(suspended.items) = {Disk}
      /\ IsInjective(suspended.items)
  <2>1. /\ EmptyQueue \in QueueOf(Tasks)
        /\ ToSet(EmptyQueue.items) = {}
        /\ IsInjective(EmptyQueue.items)
    BY EmptyQueueProperties
  <2>2. suspended = QAdd(EmptyQueue, Disk) /\ Disk \in Tasks
    BY DEF Init, KernelInit, TcbInit, QueuesInit, ProcessorInit
  <2> HIDE DEF EmptyQueue
  <2>3. /\ QAdd(EmptyQueue, Disk) \in QueueOf(Tasks)
        /\ ToSet(QAdd(EmptyQueue, Disk).items) = ToSet(EmptyQueue.items) \cup {Disk}
    BY <2>1, <2>2, QAddProperties, ZenonT(60)
  <2>4. IsInjective(QAdd(EmptyQueue, Disk).items)
    BY <2>1, <2>2, QAddProperties
  <2> QED
    BY <2>1, <2>2, <2>3, <2>4
<1>2. /\ sleepers \in QueueOf(Tasks)
      /\ ToSet(sleepers.items) = {}
      /\ IsInjective(sleepers.items)
  BY EmptyQueueProperties DEF Init, KernelInit, TcbInit, QueuesInit, ProcessorInit
<1>3. /\ ready \in Seq(Tasks)
      /\ ToSet(ready) = {Disk, User}
      /\ IsInjective(ready)
  <2>1. ready = <<Disk, User>>
    BY DEF Init, KernelInit, TcbInit, QueuesInit, ProcessorInit
  <2>2. DOMAIN ready = {1, 2} /\ ready[1] = Disk /\ ready[2] = User /\ ready \in Seq(Tasks)
    BY <2>1
  <2> QED
    BY <2>2 DEF ToSet, IsInjective
<1>4. TypeOK
  <2>1. TcbTypeOK /\ QueuesTypeOK
    BY <1>1, <1>2, <1>3 DEF Init, KernelInit, TcbInit, QueuesInit, ProcessorInit
  <2>2. CpuTypeOK /\ PcTypeOK(DispatcherPC, DispatcherCont)
    BY DEF Init, KernelInit, TcbInit, QueuesInit, ProcessorInit
  <2>3. WaitTypeOK
    BY DEF Init
  <2> QED
    BY <2>1, <2>2, <2>3
<1>5. CpuInv /\ DiskInv /\ ReadyInv
  BY <1>1, <1>3 DEF Init, KernelInit, TcbInit, QueuesInit, ProcessorInit, CpuInv, DiskInv, ReadyInv
<1>6. CallInv /\ SuspendedInv /\ SleepersInv
  BY <1>1, <1>2 DEF Init, KernelInit, TcbInit, QueuesInit, ProcessorInit, CallInv, SuspendedInv, SleepersInv
<1>7. StatusInv
  BY <1>1, <1>2 DEF Init, KernelInit, TcbInit, QueuesInit, ProcessorInit, StatusInv, StatusOf
<1>8. WaitInv /\ AuxInv /\ SleepInv
  BY DEF Init, KernelInit, TcbInit, QueuesInit, ProcessorInit, WaitInv, AuxInv, SleepInv
<1> QED
  BY <1>4, <1>5, <1>6, <1>7, <1>8 DEF IInv

(* A tick never gives a sleeper time back. *)
LEMMA CountDownLeft ==
  ASSUME IInv, CountDown
  PROVE  LeftStep
<1>1. left \in [Tasks -> 0..MaxSleep] /\ MaxSleep \in Nat
  BY DEF IInv
<1>2. left' = [t \in Tasks |-> IF left[t] > 0 THEN left[t] - 1 ELSE 0]
  BY DEF CountDown
<1>3. \A n \in 0..MaxSleep : (IF n > 0 THEN n - 1 ELSE 0) \in 0..MaxSleep
  BY <1>1
<1>4. left' \in [Tasks -> 0..MaxSleep]
  BY <1>1, <1>2, <1>3
<1> QED
  BY <1>1, <1>2, <1>4 DEF LeftStep

(* The invariant is about the variables only. *)
LEMMA StutterInv ==
  ASSUME IInv, UNCHANGED vars
  PROVE  IInv'
BY DEF IInv, vars, kernelVars, CpuInv, DiskInv, ReadyInv, CallInv, SuspendedInv,
   SleepersInv, StatusInv, StatusOf, WaitInv, AuxInv, SleepInv

(* Every step of the dispatcher, of a task and of the timer keeps the      *)
(* invariant.                                                              *)
LEMMA NextInv ==
  ASSUME IInv, [Next]_vars
  PROVE  IInv'
<1>1. CASE Loop
  <2>1. KernelStep(0) /\ UNCHANGED waitVars
    BY <1>1 DEF Loop
  <2> QED
    BY <2>1, AfterRunInv, EmptyTurnInv, ScanSleeperInv, ScanEndInv, StopInv DEF KernelStep
<1>2. CASE Timer
  <2>1. Tick /\ UNCHANGED waitVars
    BY <1>2 DEF Timer
  <2>2. CASE TickInKernel
    BY <2>1, <2>2, CountDownLeft, TickInKernelInv DEF TickInKernel
  <2>3. CASE \E t \in Tasks : TickInTask(t)
    BY <2>1, <2>3, CountDownLeft, TickInTaskInv DEF TickInTask
  <2>4. CASE \E t \in Tasks : TickPreempts(t)
    BY <2>1, <2>4, CountDownLeft, YieldInv DEF TickPreempts, MayPreempt
  <2> QED
    BY <2>1, <2>2, <2>3, <2>4 DEF Tick
<1>3. ASSUME NEW t \in Tasks, Run(t)
      PROVE  IInv'
  BY <1>3, RunInv
<1>4. ASSUME NEW t \in Tasks, UserStep(t)
      PROVE  IInv'
  <2>1. CASE Yield(t) /\ UNCHANGED waitVars
    <3>1. current = t /\ TaskYield(t) /\ left' = left
      BY <2>1 DEF Yield
    <3>2. LeftStep
      BY <3>1 DEF IInv, LeftStep
    <3> QED
      BY <2>1, <3>1, <3>2, YieldInv
  <2>2. ASSUME NEW new \in Tasks, Create(t, new)
        PROVE  IInv'
    BY <2>2, CreateInv
  <2>3. ASSUME NEW u \in Tasks, t # Disk, Wait(t, u)
        PROVE  IInv'
    BY <2>3, WaitCallInv
  <2>4. ASSUME NEW d \in 0..MaxSleep, t # Disk, Sleep(t, d)
        PROVE  IInv'
    BY <2>4, SleepCallInv
  <2>5. ASSUME NEW code \in Codes, t # Disk, Exit(t, code)
        PROVE  IInv'
    BY <2>5, ExitInv
  <2> QED
    BY <1>4, <2>1, <2>2, <2>3, <2>4, <2>5 DEF UserStep, Caller
<1>5. ASSUME NEW t \in Tasks, CallStep(t)
      PROVE  IInv'
  <2>1. CASE TaskSuspend(t) /\ UNCHANGED waitVars
    BY <2>1, SuspendStatusInv, SuspendEnqueueInv, SuspendSwitchInv DEF TaskSuspend
  <2>2. CASE Return(t)
    BY <2>2, ReturnInv
  <2>3. CASE ExitHead(t)
    BY <2>3, ExitHeadInv
  <2>4. ASSUME NEW w \in Tasks, ExitScan(t, w)
        PROVE  IInv'
    BY <2>4, ExitScanInv
  <2>5. CASE ExitDone(t)
    BY <2>5, ExitDoneInv
  <2> QED
    BY <1>5, <2>1, <2>2, <2>3, <2>4, <2>5 DEF CallStep
<1>6. CASE UNCHANGED vars
  BY <1>6, StutterInv
<1> QED
  BY <1>1, <1>2, <1>3, <1>4, <1>5, <1>6 DEF Next, Off

(* The inductive invariant. *)
LEMMA InvHolds == Spec => []IInv
<1>1. Init => IInv
  BY InitInv
<1>2. IInv /\ [Next]_vars => IInv'
  BY NextInv
<1> QED
  BY <1>1, <1>2, PTL DEF Spec

(* Every variable keeps its type: in particular the iterators stay inside  *)
(* their queues and the queues hold tasks only.                            *)
THEOREM TypeCorrect == Spec => []TypeOK
<1>1. IInv => TypeOK
  BY DEF IInv
<1> QED
  BY <1>1, InvHolds, PTL

(* A waiter returns only when its target has called task_exit and its walk *)
(* over the suspended tasks has begun, and with the code it passed.        *)
THEOREM CodeIsDelivered == Spec => []CodeDelivered
<1>1. IInv => CodeDelivered
  BY DEF IInv, CodeDelivered, WaitInv
<1> QED
  BY <1>1, InvHolds, PTL

(* task_sleep never returns early. *)
THEOREM SleepIsKept == Spec => []NoEarlyWake
<1>1. IInv => NoEarlyWake
  BY DEF IInv, NoEarlyWake, SleepInv
<1> QED
  BY <1>1, InvHolds, PTL

(* The assertions of task_awake hold: a task it finds suspended is in the  *)
(* queue it is taken from.                                                 *)
THEOREM AwakeAssertsHold == Spec => []AwakeAsserts
<1>1. ASSUME IInv PROVE AwakeAsserts
  <2> SUFFICES ASSUME NEW t \in Tasks, status[t] = "SUSPENDED", current # t
               PROVE  IF sleeping[t] THEN Asleep(t) ELSE QHas(suspended, t)
    BY DEF AwakeAsserts
  <2>1. CASE t = Disk
    BY <1>1, <2>1 DEF IInv, DiskInv
  <2>2. CASE t # Disk
    BY <1>1, <2>2 DEF IInv, CallInv, StatusInv, StatusOf
  <2> QED
    BY <2>1, <2>2
<1> QED
  BY <1>1, InvHolds, PTL

(***************************************************************************)
(* Nobody is lost, and the dispatcher stops when there is nothing to do.   *)
(***************************************************************************)

(* The queues hold what their operations say, whoever calls them. *)
LEMMA QueueSteps ==
  ASSUME IInv, NEW t \in Tasks
  PROVE  /\ ready' = Append(ready, t) => ToSet(ready') = ToSet(ready) \cup {t}
         /\ ready' = RemoveFirst(ready, t) => ToSet(ready') = ToSet(ready) \ {t}
         /\ sleepers' = QHead(sleepers) => sleepers'.items = sleepers.items
         /\ suspended' = QHead(suspended) => suspended'.items = suspended.items
         /\ SuspendEnqueue(t) =>
              /\ cont[t] = "sleep_ret" =>
                   ToSet(sleepers'.items) = ToSet(sleepers.items) \cup {t}
              /\ cont[t] # "sleep_ret" =>
                   ToSet(suspended'.items) = ToSet(suspended.items) \cup {t}
<1>1. /\ ready \in Seq(Tasks) /\ IsInjective(ready)
      /\ suspended \in QueueOf(Tasks)
      /\ sleepers \in QueueOf(Tasks)
  BY DEF IInv, ReadyInv
<1>2. ready' = Append(ready, t) => ToSet(ready') = ToSet(ready) \cup {t}
  BY <1>1, AppendSet
<1>3. ready' = RemoveFirst(ready, t) => ToSet(ready') = ToSet(ready) \ {t}
  BY <1>1, RemoveFirstProperties
<1>4. /\ sleepers' = QHead(sleepers) => sleepers'.items = sleepers.items
      /\ suspended' = QHead(suspended) => suspended'.items = suspended.items
  BY <1>1, QWalkProperties
<1>5. ToSet(QAdd(sleepers, t).items) = ToSet(sleepers.items) \cup {t}
  BY <1>1, QAddProperties, ZenonT(60)
<1>6. ToSet(QAdd(suspended, t).items) = ToSet(suspended.items) \cup {t}
  BY <1>1, QAddProperties, ZenonT(60)
<1> QED
  BY <1>2, <1>3, <1>4, <1>5, <1>6 DEF SuspendEnqueue

(* A task that runs or is ready still does, or has put itself in a queue,  *)
(* or has exited; one in a queue stays there or is made ready.             *)
LEMMA PlaceStep ==
  ASSUME IInv, PlaceInv, [Next]_vars
  PROVE  PlaceInv'
<1>1. CASE Loop
  <2>1. UNCHANGED <<current, pc>>
    BY <1>1 DEF Loop, KernelStep, AfterRun, EmptyTurn, ScanSleeper, ScanEnd, Stop
  <2>2. CASE AfterRun \/ EmptyTurn(0) \/ ScanEnd \/ Stop(0)
    <3>1. UNCHANGED <<ready, suspended>> /\ sleepers'.items = sleepers.items
      BY <2>2, QueueSteps DEF AfterRun, EmptyTurn, ScanEnd, Stop
    <3> QED
      BY <2>1, <3>1 DEF PlaceInv
  <2>3. ASSUME NEW w \in Tasks, ScanSleeper(w)
        PROVE  PlaceInv'
    <3>1. /\ ToSet(suspended'.items) = ToSet(suspended.items)
          /\ \/ /\ ToSet(ready') = ToSet(ready) \cup {w}
                /\ ToSet(sleepers'.items) = ToSet(sleepers.items) \ {w}
             \/ ready' = ready /\ sleepers'.items = sleepers.items
      BY <2>3, ScanSleeperProperties
    <3> QED
      BY <2>1, <3>1 DEF PlaceInv
  <2> QED
    BY <1>1, <2>2, <2>3 DEF Loop, KernelStep
<1>2. ASSUME NEW t \in Tasks, current = t, TaskYield(t)
      PROVE  PlaceInv'
  <2>1. ToSet(ready') = ToSet(ready) \cup {t}
    BY <1>2, QueueSteps DEF TaskYield
  <2> QED
    BY <1>2, <2>1 DEF TaskYield, PlaceInv
<1>3. CASE Timer
  <2>1. CASE \E t \in Tasks : TickPreempts(t)
    BY <1>2, <2>1 DEF TickPreempts, MayPreempt
  <2>2. CASE TickInKernel \/ \E t \in Tasks : TickInTask(t)
    BY <2>2 DEF TickInKernel, TickInTask, PlaceInv
  <2> QED
    BY <1>3, <2>1, <2>2 DEF Timer, Tick
<1>4. ASSUME NEW t \in Tasks, Run(t)
      PROVE  PlaceInv'
  <2>1. ToSet(ready') = ToSet(ready) \ {t}
    BY <1>4, QueueSteps DEF Run, Dispatch
  <2>2. current \notin Tasks
    BY <1>4 DEF IInv, CpuInv, Run, Dispatch
  <2> QED
    BY <1>4, <2>1, <2>2 DEF Run, Dispatch, PlaceInv
<1>5. ASSUME NEW t \in Tasks, UserStep(t)
      PROVE  PlaceInv'
  <2>1. CASE Yield(t)
    BY <1>2, <2>1 DEF Yield
  <2>2. ASSUME NEW new \in Tasks, Create(t, new)
        PROVE  PlaceInv'
    <3>1. ToSet(ready') = ToSet(ready) \cup {new}
      BY <2>2, QueueSteps DEF Create, TaskCreate
    <3>2. pc' = [pc EXCEPT ![new] = "user"] /\ pc \in [Tasks -> DispatcherPC]
      BY <2>2 DEF Create, TaskCreate, IInv
    <3> QED
      BY <2>2, <3>1, <3>2 DEF Create, TaskCreate, PlaceInv
  <2>3. CASE \/ \E u \in Tasks : Wait(t, u)
             \/ \E d \in 0..MaxSleep : Sleep(t, d)
             \/ \E code \in Codes : Exit(t, code)
    <3>1. /\ UNCHANGED <<current, ready, suspended, sleepers>> /\ current = t
          /\ \E l \in DispatcherPC : pc' = [pc EXCEPT ![t] = l]
      BY <2>3 DEF Wait, Sleep, Exit
    <3>2. \A x \in Tasks : x # t => pc'[x] = pc[x]
      BY <3>1 DEF IInv
    <3> QED
      BY <3>1, <3>2 DEF PlaceInv
  <2> QED
    BY <1>5, <2>1, <2>2, <2>3 DEF UserStep
<1>6. ASSUME NEW t \in Tasks, CallStep(t)
      PROVE  PlaceInv'
  <2>1. CASE SuspendStatus(t) \/ Return(t) \/ ExitHead(t)
    <3>1. /\ UNCHANGED <<current, ready, sleepers>>
          /\ suspended'.items = suspended.items
          /\ \A x \in Tasks : x # t => pc'[x] = pc[x]
          /\ current = t
      BY <2>1, QueueSteps DEF SuspendStatus, Return, ExitHead, IInv
    <3> QED
      BY <3>1 DEF PlaceInv
  <2>2. CASE SuspendEnqueue(t)
    <3>1. /\ UNCHANGED <<current, ready>>
          /\ \A x \in Tasks : x # t => pc'[x] = pc[x]
          /\ current = t
      BY <2>2 DEF SuspendEnqueue, IInv
    <3>2. /\ ToSet(suspended.items) \subseteq ToSet(suspended'.items)
          /\ ToSet(sleepers.items) \subseteq ToSet(sleepers'.items)
      <4>1. CASE cont[t] = "sleep_ret"
        BY <2>2, <4>1, QueueSteps DEF SuspendEnqueue
      <4>2. CASE cont[t] # "sleep_ret"
        BY <2>2, <4>2, QueueSteps DEF SuspendEnqueue
      <4> QED
        BY <4>1, <4>2
    <3> QED
      BY <3>1, <3>2 DEF PlaceInv
  <2>3. CASE SuspendSwitch(t)
    <3>1. /\ UNCHANGED <<ready, suspended, sleepers>>
          /\ \A x \in Tasks : x # t => pc'[x] = pc[x]
          /\ current = t /\ current' = TaskKernel
      BY <2>3 DEF SuspendSwitch, IInv
    <3>2. t # Disk /\ (Waiting(t) \/ Asleep(t))
      BY <2>3 DEF SuspendSwitch, IInv, DiskInv, CallInv
    <3> QED
      BY <3>1, <3>2 DEF PlaceInv
  <2>4. ASSUME NEW w \in Tasks, ExitScan(t, w)
        PROVE  PlaceInv'
    <3>1. /\ ToSet(sleepers'.items) = ToSet(sleepers.items)
          /\ \/ /\ ToSet(ready') = ToSet(ready) \cup {w}
                /\ ToSet(suspended'.items) = ToSet(suspended.items) \ {w}
             \/ ready' = ready /\ suspended'.items = suspended.items
      BY <2>4, ExitScanProperties
    <3>2. UNCHANGED <<current, pc>>
      BY <2>4 DEF ExitScan
    <3> QED
      BY <3>1, <3>2 DEF PlaceInv
  <2>5. CASE ExitDone(t)
    <3>1. /\ UNCHANGED <<ready, suspended, sleepers>>
          /\ \A x \in Tasks : x # t => pc'[x] = pc[x]
          /\ pc'[t] = "gone"
          /\ current = t /\ current' = TaskKernel
      BY <2>5 DEF ExitDone, IInv
    <3>2. t # Disk
      BY <2>5 DEF ExitDone, IInv, DiskInv
    <3> QED
      BY <3>1, <3>2 DEF PlaceInv
  <2> QED
    BY <1>6, <2>1, <2>2, <2>3, <2>4, <2>5 DEF CallStep, TaskSuspend
<1>7. CASE UNCHANGED vars
  BY <1>7 DEF vars, kernelVars, PlaceInv
<1> QED
  BY <1>1, <1>3, <1>4, <1>5, <1>6, <1>7 DEF Next, Off

(* Once stopped, nothing runs that could change the queues. *)
LEMMA StoppedStep ==
  ASSUME IInv, StoppedInv, [Next]_vars
  PROVE  StoppedInv'
<1>1. CASE kpc = "stopped"
  <2>1. \A t \in Tasks : current # t
    BY <1>1 DEF IInv, CpuInv
  <2>2. UNCHANGED <<ready, sleepers>>
    <3>1. CASE Loop
      BY <1>1, <3>1
         DEF Loop, KernelStep, AfterRun, EmptyTurn, ScanSleeper, ScanEnd, Stop
    <3>2. CASE Timer
      BY <1>1, <2>1, <3>2
         DEF Timer, Tick, TickInKernel, TickInTask, TickPreempts, MayPreempt
    <3>3. ASSUME NEW t \in Tasks, Run(t) \/ UserStep(t) \/ CallStep(t)
          PROVE  UNCHANGED <<ready, sleepers>>
      BY <1>1, <2>1, <3>3
         DEF Run, Dispatch, UserStep, Yield, Create, TaskCreate, Wait, Sleep, Exit,
             CallStep, TaskSuspend, SuspendStatus, SuspendEnqueue, SuspendSwitch,
             Return, ExitHead, ExitScan, ExitDone
    <3>4. CASE UNCHANGED vars
      BY <3>4 DEF vars, kernelVars
    <3> QED
      BY <3>1, <3>2, <3>3, <3>4 DEF Next, Off
  <2> QED
    BY <1>1, <2>2 DEF StoppedInv, MoreWork
<1>2. CASE kpc # "stopped"
  <2>1. kpc' = "stopped" => Stop(0)
    <3>1. CASE Loop
      BY <1>2, <3>1
         DEF Loop, KernelStep, AfterRun, EmptyTurn, ScanSleeper, ScanEnd
    <3>2. CASE Timer
      BY <1>2, <3>2
         DEF Timer, Tick, TickInKernel, TickInTask, TickPreempts, TaskYield
    <3>3. ASSUME NEW t \in Tasks, Run(t) \/ UserStep(t) \/ CallStep(t)
          PROVE  kpc' # "stopped"
      BY <1>2, <3>3
         DEF Run, Dispatch, UserStep, Yield, TaskYield, Create, TaskCreate, Wait, Sleep,
             Exit, CallStep, TaskSuspend, SuspendStatus, SuspendEnqueue, SuspendSwitch,
             Return, ExitHead, ExitScan, ExitDone
    <3>4. CASE UNCHANGED vars
      BY <1>2, <3>4 DEF vars, kernelVars
    <3> QED
      BY <3>1, <3>2, <3>3, <3>4 DEF Next, Off
  <2> QED
    BY <2>1 DEF StoppedInv, Stop, MoreWork
<1> QED
  BY <1>1, <1>2

(* Everybody is somewhere at the start: in the ready queue. *)
LEMMA PlaceInit ==
  ASSUME Init
  PROVE  PlaceInv /\ StoppedInv
<1>1. ready = <<Disk, User>>
  BY DEF Init, KernelInit, QueuesInit
<1>2. Disk \in ToSet(ready) /\ User \in ToSet(ready)
  <2>1. DOMAIN ready = {1, 2} /\ ready[1] = Disk /\ ready[2] = User
    BY <1>1
  <2> QED
    BY <2>1 DEF ToSet
<1> QED
  BY <1>2 DEF Init, KernelInit, TcbInit, ProcessorInit, PlaceInv, StoppedInv

LEMMA PlaceHolds == Spec => [](IInv /\ PlaceInv /\ StoppedInv)
<1>1. Init => IInv /\ PlaceInv /\ StoppedInv
  BY InitInv, PlaceInit
<1>2. IInv /\ PlaceInv /\ StoppedInv /\ [Next]_vars => (IInv /\ PlaceInv /\ StoppedInv)'
  BY NextInv, PlaceStep, StoppedStep
<1> QED
  BY <1>1, <1>2, PTL DEF Spec

(* The sets of places there are. *)
LEMMA PlaceCount ==
  ASSUME NEW P
  PROVE  /\ P = {} => Cardinality(P) = 0
         /\ \A a : P = {a} => Cardinality(P) = 1
         /\ \A a, b : a # b /\ P = {a, b} => Cardinality(P) = 2
<1>1. Cardinality({}) = 0
  BY FS_EmptySet
<1>2. \A a : IsFiniteSet({a}) /\ Cardinality({a}) = 1
  BY FS_Singleton
<1>3. ASSUME NEW a, NEW b, a # b
      PROVE  Cardinality({a, b}) = 2
  <2>1. IsFiniteSet({a}) /\ Cardinality({a}) = 1 /\ b \notin {a}
    BY <1>2, <1>3
  <2>2. Cardinality({a} \cup {b}) = Cardinality({a}) + 1
    BY <2>1, FS_AddElement
  <2>3. {a} \cup {b} = {a, b}
    OBVIOUS
  <2> QED
    BY <2>1, <2>2, <2>3
<1> QED
  BY <1>1, <1>2, <1>3

(* A task that has not finished runs, is ready, waits or sleeps, and no    *)
(* two of these but inside task_suspend; a finished one is in no queue.    *)
THEOREM NobodyIsLost == Spec => []Placement
<1>1. ASSUME IInv, PlaceInv
      PROVE  Placement
  <2>1. IsInjective(ready) /\ IsInjective(suspended.items) /\ IsInjective(sleepers.items)
    BY <1>1 DEF IInv, ReadyInv, SuspendedInv, SleepersInv
  <2> SUFFICES ASSUME NEW t \in Tasks \ {Disk}
               PROVE  LET places == Cardinality({p \in {"run", "ready", "wait", "sleep"} :
                                      \/ p = "run"   /\ current = t
                                      \/ p = "ready" /\ Ready(t)
                                      \/ p = "wait"  /\ Waiting(t)
                                      \/ p = "sleep" /\ Asleep(t)})
                      IN  CASE ~ Created(t) \/ pc[t] = "gone" -> places = 0
                            [] pc[t] = "switch"               -> places = 2
                            [] OTHER                          -> places = 1
    BY <2>1 DEF Placement
  <2> DEFINE P == {p \in {"run", "ready", "wait", "sleep"} :
                     \/ p = "run"   /\ current = t
                     \/ p = "ready" /\ Ready(t)
                     \/ p = "wait"  /\ Waiting(t)
                     \/ p = "sleep" /\ Asleep(t)}
  <2>2. /\ ~ (Ready(t) /\ current = t)
        /\ ~ (Waiting(t) /\ Asleep(t))
        /\ Active(t) => pc[t] \notin {"none", "gone"}
        /\ (Waiting(t) \/ Asleep(t)) /\ Active(t) <=> pc[t] = "switch"
        /\ Waiting(t) \/ Asleep(t) => pc[t] \in {"switch", "wait_ret", "sleep_ret"}
    BY <1>1 DEF IInv, ReadyInv, CallInv, SuspendedInv, SleepersInv
  <2>3. CASE ~ Created(t) \/ pc[t] = "gone"
    <3>1. P = {}
      BY <2>2, <2>3
    <3> QED
      BY <2>3, <3>1, PlaceCount
  <2>4. CASE pc[t] = "switch"
    <3>1. Active(t) /\ (Waiting(t) \/ Asleep(t))
      BY <2>2, <2>4
    <3>2. \/ P = {"run", "wait"} \/ P = {"run", "sleep"}
          \/ P = {"ready", "wait"} \/ P = {"ready", "sleep"}
      BY <2>2, <3>1
    <3>3. /\ "run" # "wait" /\ "run" # "sleep"
          /\ "ready" # "wait" /\ "ready" # "sleep"
      OBVIOUS
    <3>4. Cardinality(P) = 2
      BY <3>2, <3>3, PlaceCount
    <3> QED
      BY <2>4, <3>4
  <2>5. CASE Created(t) /\ pc[t] \notin {"gone", "switch"}
    <3>1. \E a : P = {a}
      BY <1>1, <2>2, <2>5 DEF PlaceInv
    <3> QED
      BY <2>5, <3>1, PlaceCount
  <2> QED
    BY <2>3, <2>4, <2>5
<1> QED
  BY <1>1, PlaceHolds, PTL

(* The machine is powered off only when everybody has finished or waits.   *)
THEOREM StopsQuietly == Spec => []StopIsQuiet
<1>1. ASSUME IInv, PlaceInv, StoppedInv
      PROVE  StopIsQuiet
  <2> SUFFICES ASSUME kpc = "stopped", NEW t \in Tasks \ {Disk}, Created(t), pc[t] # "gone"
               PROVE  Waiting(t)
    BY DEF StopIsQuiet
  <2>1. /\ ready \in Seq(Tasks) /\ DOMAIN ready = 1..Len(ready) /\ Len(ready) \in Nat
        /\ sleepers.items \in Seq(Tasks) /\ DOMAIN sleepers.items = 1..Len(sleepers.items)
        /\ Len(sleepers.items) \in Nat
    BY <1>1, QueueType, LenProperties DEF IInv
  <2>2. Len(ready) <= 1 /\ Len(sleepers.items) = 0
    BY <1>1, <2>1 DEF StoppedInv, MoreWork, QSize
  <2>3. current \notin Tasks
    BY <1>1 DEF IInv, CpuInv
  <2>4. ~ Asleep(t)
    BY <2>1, <2>2 DEF ToSet
  <2>5. ~ Ready(t)
    <3>1. Disk \in ToSet(ready)
      BY <1>1, <2>3 DEF PlaceInv
    <3>2. \A i, j \in DOMAIN ready : i = j
      BY <2>1, <2>2
    <3> QED
      BY <3>1, <3>2 DEF ToSet
  <2> QED
    BY <1>1, <2>3, <2>4, <2>5 DEF PlaceInv
<1> QED
  BY <1>1, PlaceHolds, PTL

(* A task that has switched away from task_exit never runs again and is    *)
(* never put into a queue again, nobody changes its status, and its exit   *)
(* code is the one it gave.                                                *)
THEOREM FinishedStays == Spec => FinishedForGood
<1> DEFINE Kept(t) == pc'[t] = "gone" /\ status'[t] = status[t] /\ exitCode'[t] = exitCode[t]
<1>1. ASSUME IInv, [Next]_vars, NEW t \in Tasks, pc[t] = "gone"
      PROVE  Kept(t)
  <2>1. /\ current # t /\ t \notin ToSet(ready)
        /\ status \in [Tasks -> Status] /\ exitCode \in [Tasks -> Int]
        /\ pc \in [Tasks -> DispatcherPC] /\ pc[t] = "gone"
    BY <1>1 DEF IInv, ReadyInv, TypeOK, PcTypeOK
  <2>2. CASE Loop
    <3>1. pc' = pc /\ exitCode' = exitCode
      BY <2>2 DEF Loop, KernelStep, AfterRun, EmptyTurn, ScanSleeper, ScanEnd, Stop
    <3>2. CASE AfterRun \/ EmptyTurn(0) \/ ScanEnd \/ Stop(0)
      BY <2>1, <3>1, <3>2 DEF AfterRun, EmptyTurn, ScanEnd, Stop
    <3>3. ASSUME NEW w \in Tasks, ScanSleeper(w)
          PROVE  status'[t] = status[t]
      BY <1>1, <2>1, <3>3, ScanSleeperProperties
    <3> QED
      BY <2>1, <2>2, <3>1, <3>2, <3>3 DEF Loop, KernelStep
  <2>3. CASE Timer
    BY <2>1, <2>3
       DEF Timer, Tick, TickInKernel, TickInTask, TickPreempts, MayPreempt, TaskYield
  <2>4. ASSUME NEW u \in Tasks, Run(u)
        PROVE  Kept(t)
    BY <2>1, <2>4 DEF Run, Dispatch
  <2>5. ASSUME NEW u \in Tasks, UserStep(u)
        PROVE  Kept(t)
    BY <1>1, <2>1, <2>5
       DEF UserStep, Yield, TaskYield, Create, TaskCreate, Wait, Sleep, Exit
  <2>6. ASSUME NEW u \in Tasks, CallStep(u)
        PROVE  Kept(t)
    <3>1. ASSUME NEW w \in Tasks, ExitScan(u, w)
          PROVE  Kept(t)
      <4>1. status' = status \/ (w # t /\ status' = [status EXCEPT ![w] = "READY"])
        BY <1>1, <3>1, ExitScanProperties
      <4> QED
        BY <2>1, <3>1, <4>1 DEF ExitScan
    <3>2. CASE TaskSuspend(u) /\ UNCHANGED waitVars
      BY <2>1, <3>2 DEF TaskSuspend, SuspendStatus, SuspendEnqueue, SuspendSwitch
    <3>3. CASE Return(u) \/ ExitHead(u) \/ ExitDone(u)
      BY <2>1, <3>3 DEF Return, ExitHead, ExitDone
    <3> QED
      BY <2>6, <3>1, <3>2, <3>3 DEF CallStep
  <2>7. CASE UNCHANGED vars
    BY <2>1, <2>7 DEF vars, kernelVars
  <2> QED
    BY <1>1, <2>2, <2>3, <2>4, <2>5, <2>6, <2>7 DEF Next, Off
<1>2. ASSUME IInv', NEW t \in Tasks, pc'[t] = "gone"
      PROVE  current' # t /\ ~ Ready(t)' /\ ~ Waiting(t)' /\ ~ Asleep(t)'
  <2>1. current' # t /\ ~ Ready(t)'
    BY <1>2 DEF IInv, ReadyInv, Active
  <2>2. ~ Waiting(t)' /\ ~ Asleep(t)'
    BY <1>2 DEF IInv, SuspendedInv, SleepersInv
  <2> QED
    BY <2>1, <2>2
<1>3. IInv /\ [Next]_vars =>
        [\A t \in Tasks : pc[t] = "gone" =>
           /\ current' # t
           /\ ~ Ready(t)' /\ ~ Waiting(t)' /\ ~ Asleep(t)'
           /\ status'[t] = status[t] /\ exitCode'[t] = exitCode[t]]_vars
  BY <1>1, <1>2, NextInv
<1> QED
  BY <1>3, InvHolds, PTL DEF Spec, FinishedForGood

(***************************************************************************)
(* What holds where no quantum ends inside a kernel call.                  *)
(***************************************************************************)

(* A task that yields is in its own code: the calls it could be found in   *)
(* are not interrupted.                                                    *)
LEMMA YieldAtomic ==
  ASSUME IInv, AtomicInv, NEW t \in Tasks, current = t, pc[t] = "user", TaskYield(t)
  PROVE  AtomicInv'
<1>1. /\ current' = TaskKernel /\ UNCHANGED <<pc, cont, suspended, kpc, nextTask>>
      /\ status' = [status EXCEPT ![t] = "READY"]
      /\ status \in [Tasks -> Status]
      /\ kpc = "run" /\ nextTask = t
  BY DEF TaskYield, IInv, CpuInv
<1>2. ~ Waiting(t)
  BY DEF IInv, SuspendedInv
<1> QED
  BY <1>1, <1>2 DEF AtomicInv

(* Every step leaves the tasks that are inside a call, in the suspended    *)
(* queue or finished with the status the call gave them.                   *)
LEMMA AtomicStep ==
  ASSUME ~ KernelPreemption, IInv, AtomicInv, [Next]_vars
  PROVE  AtomicInv'
<1>0. /\ status \in [Tasks -> Status] /\ pc \in [Tasks -> DispatcherPC]
      /\ TaskKernel \notin Tasks
  BY DEF IInv
<1>1. CASE Loop
  <2>1. UNCHANGED <<current, pc>>
    BY <1>1 DEF Loop, KernelStep, AfterRun, EmptyTurn, ScanSleeper, ScanEnd, Stop
  <2>2. CASE AfterRun \/ EmptyTurn(0) \/ ScanEnd \/ Stop(0)
    <3>1. UNCHANGED <<status, suspended>>
      BY <2>2 DEF AfterRun, EmptyTurn, ScanEnd, Stop
    <3>2. kpc' \notin {"run", "aborted"}
      BY <2>2 DEF AfterRun, EmptyTurn, ScanEnd, Stop, AtomicInv
    <3> QED
      BY <2>1, <3>1, <3>2 DEF AtomicInv
  <2>3. ASSUME NEW w \in Tasks, ScanSleeper(w)
        PROVE  AtomicInv'
    <3>1. /\ ToSet(suspended'.items) = ToSet(suspended.items)
          /\ \/ status' = status
             \/ /\ status' = [status EXCEPT ![w] = "READY"]
                /\ pc[w] = "sleep_ret" /\ cont[w] = "sleep_ret"
      BY <2>3, ScanSleeperProperties
    <3>2. pc[w] = "sleep_ret" /\ cont[w] = "sleep_ret" => ~ Waiting(w)
      BY DEF IInv, SuspendedInv
    <3>3. kpc = "scan" /\ kpc' = "scan"
      BY <2>3 DEF ScanSleeper
    <3> QED
      BY <1>0, <2>1, <3>1, <3>2, <3>3 DEF AtomicInv
  <2> QED
    BY <1>1, <2>2, <2>3 DEF Loop, KernelStep
<1>2. CASE Timer
  <2>1. ASSUME NEW t \in Tasks, TickPreempts(t)
        PROVE  AtomicInv'
    BY <2>1, YieldAtomic DEF TickPreempts, MayPreempt
  <2>2. CASE TickInKernel \/ \E t \in Tasks : TickInTask(t)
    BY <2>2 DEF TickInKernel, TickInTask, AtomicInv
  <2> QED
    BY <1>2, <2>1, <2>2 DEF Timer, Tick
<1>3. ASSUME NEW t \in Tasks, Run(t)
      PROVE  AtomicInv'
  <2>1. /\ UNCHANGED <<pc, suspended>> /\ current' = t /\ kpc' = "run"
        /\ status' = [status EXCEPT ![t] = "RUNNING"]
        /\ kpc = "loop" /\ Ready(t)
    BY <1>3 DEF Run, Dispatch
  <2>2. current \notin Tasks
    BY <2>1 DEF IInv, CpuInv
  <2>3. \A x \in Tasks : pc[x] \notin SuspendPC \cup ExitPC
    BY <2>2 DEF AtomicInv
  <2>4. pc[t] # "gone" /\ ~ Waiting(t)
    BY <2>1, <2>3 DEF IInv, ReadyInv, SuspendedInv
  <2> QED
    BY <1>0, <2>1, <2>3, <2>4 DEF AtomicInv
<1>4. ASSUME NEW t \in Tasks, UserStep(t)
      PROVE  AtomicInv'
  <2>0. current = t /\ pc[t] = "user"
    BY <1>4 DEF UserStep, Yield, Create, TaskCreate, Wait, Sleep, Exit
  <2>1. ~ Waiting(t)
    BY <2>0 DEF IInv, SuspendedInv
  <2>2. CASE Yield(t)
    BY <2>0, <2>2, YieldAtomic DEF Yield
  <2>3. ASSUME NEW new \in Tasks, Create(t, new)
        PROVE  AtomicInv'
    <3>1. ~ Waiting(new)
      BY <2>3 DEF Create, TaskCreate, IInv, SuspendedInv
    <3> QED
      BY <1>0, <2>0, <2>3, <3>1 DEF Create, TaskCreate, AtomicInv
  <2>4. CASE (\E u \in Tasks : Wait(t, u)) \/ (\E d \in 0..MaxSleep : Sleep(t, d))
    <3>1. /\ pc' = [pc EXCEPT ![t] = "suspend"]
          /\ UNCHANGED <<status, suspended, current, kpc, nextTask>>
      BY <2>4 DEF Wait, Sleep
    <3> QED
      BY <1>0, <2>0, <2>1, <3>1 DEF AtomicInv
  <2>5. ASSUME NEW code \in Codes, Exit(t, code)
        PROVE  AtomicInv'
    BY <1>0, <2>0, <2>1, <2>5 DEF Exit, AtomicInv
  <2> QED
    BY <1>4, <2>2, <2>3, <2>4, <2>5 DEF UserStep
<1>5. ASSUME NEW t \in Tasks, CallStep(t)
      PROVE  AtomicInv'
  <2>0. current = t /\ kpc = "run" /\ nextTask = t
    BY <1>5 DEF CallStep, TaskSuspend, SuspendStatus, SuspendEnqueue, SuspendSwitch,
                Return, ExitHead, ExitScan, ExitDone, IInv, CpuInv
  <2>1. CASE SuspendStatus(t)
    BY <1>0, <2>0, <2>1 DEF SuspendStatus, AtomicInv
  <2>2. CASE SuspendEnqueue(t)
    <3>1. \/ suspended' = suspended
          \/ ToSet(suspended'.items) = ToSet(suspended.items) \cup {t}
      BY <2>2, QueueSteps DEF SuspendEnqueue
    <3> QED
      BY <1>0, <2>0, <2>2, <3>1 DEF SuspendEnqueue, AtomicInv
  <2>3. CASE SuspendSwitch(t)
    <3>1. cont[t] \in {"wait_ret", "sleep_ret"}
      BY <2>3 DEF SuspendSwitch, IInv, CallInv
    <3> QED
      BY <1>0, <2>0, <2>3, <3>1 DEF SuspendSwitch, AtomicInv
  <2>4. CASE Return(t)
    <3>1. ~ Waiting(t)
      BY <2>4 DEF Return, IInv, SuspendedInv
    <3> QED
      BY <1>0, <2>0, <2>4, <3>1 DEF Return, AtomicInv
  <2>5. CASE ExitHead(t)
    <3>1. suspended'.items = suspended.items
      BY <2>5, QueueSteps DEF ExitHead
    <3> QED
      BY <1>0, <2>0, <2>5, <3>1 DEF ExitHead, AtomicInv
  <2>6. ASSUME NEW w \in Tasks, ExitScan(t, w)
        PROVE  AtomicInv'
    <3>1. \/ /\ pc[w] = "wait_ret" /\ w # t
             /\ status' = [status EXCEPT ![w] = "READY"]
             /\ ToSet(suspended'.items) = ToSet(suspended.items) \ {w}
          \/ status' = status /\ suspended'.items = suspended.items
      BY <2>6, ExitScanProperties DEF LetGo
    <3>2. UNCHANGED <<pc, current, kpc, nextTask>>
      BY <2>6 DEF ExitScan
    <3> QED
      BY <1>0, <2>0, <3>1, <3>2 DEF AtomicInv
  <2>7. CASE ExitDone(t)
    <3>1. ~ Waiting(t)
      BY <2>7 DEF ExitDone, IInv, SuspendedInv
    <3> QED
      BY <1>0, <2>0, <2>7, <3>1 DEF ExitDone, AtomicInv
  <2> QED
    BY <1>5, <2>1, <2>2, <2>3, <2>4, <2>5, <2>6, <2>7 DEF CallStep, TaskSuspend
<1>6. CASE UNCHANGED vars
  BY <1>6 DEF vars, kernelVars, AtomicInv
<1> QED
  BY <1>1, <1>2, <1>3, <1>4, <1>5, <1>6 DEF Next, Off

(* At the start nobody is inside a call. *)
LEMMA AtomicInit ==
  ASSUME Init
  PROVE  AtomicInv
<1>1. IInv
  BY InitInv
<1>2. \A t \in Tasks : pc[t] \in {"none", "user"} /\ ~ Waiting(t)
  <2>1. \A t \in Tasks : pc[t] \in {"none", "user"}
    BY DEF Init, KernelInit, TcbInit
  <2> QED
    BY <1>1, <2>1 DEF IInv, SuspendedInv
<1> QED
  BY <1>2 DEF Init, KernelInit, ProcessorInit, AtomicInv

LEMMA AtomicHolds ==
  ASSUME ~ KernelPreemption
  PROVE  Spec => [](IInv /\ PlaceInv /\ AtomicInv)
<1>1. Init => IInv /\ PlaceInv /\ AtomicInv
  BY InitInv, PlaceInit, AtomicInit
<1>2. IInv /\ PlaceInv /\ AtomicInv /\ [Next]_vars => (IInv /\ PlaceInv /\ AtomicInv)'
  BY NextInv, PlaceStep, AtomicStep
<1> QED
  BY <1>1, <1>2, PTL DEF Spec

(* The dispatcher's assertion never fails where no quantum ends inside a   *)
(* kernel call (run dispatcher_abort shows that it does where one may).    *)
THEOREM AssertionHolds ==
  ASSUME ~ KernelPreemption
  PROVE  Spec => []NeverAborts
<1>1. AtomicInv => NeverAborts
  BY DEF AtomicInv, NeverAborts
<1> QED
  BY <1>1, AtomicHolds, PTL

(* Where no quantum ends inside a kernel call, task_wait returns only      *)
(* after its target has finished for good, with its exit code (run         *)
(* dispatcher_early_return shows that it returns earlier where one may).   *)
THEOREM WaitIsGuaranteed ==
  ASSUME ~ KernelPreemption
  PROVE  Spec => []WaitGuarantee
<1>1. ASSUME IInv, AtomicInv, NEW t \in Tasks, At(t, "wait_ret")
      PROVE  pc[target[t]] = "gone" /\ targetCode[t] = exitCode[target[t]]
  <2>1. Active(t) /\ cont[t] = "wait_ret"
    BY <1>1 DEF IInv, CallInv, At, Active
  <2>2. Delivered(t) /\ target[t] \in Tasks
    BY <1>1, <2>1 DEF IInv, WaitInv, At, InWait
  <2>3. pc[target[t]] # "exit_scan"
    BY <1>1, <2>2 DEF AtomicInv, ExitPC, At
  <2> QED
    BY <2>2, <2>3 DEF Delivered, Exited
<1>2. IInv /\ AtomicInv => WaitGuarantee
  BY <1>1 DEF WaitGuarantee
<1> QED
  BY <1>2, AtomicHolds, PTL

(* At most one task waits for each task. *)
OneWaiterEach == \A p, q \in MayWait : p[2] = q[2] => p = q

(* A step outside the walk of task_exit that holds nobody anew. *)
LEMMA HeldKept ==
  ASSUME IInv, HeldInv, target' = target,
         \A u \in Tasks : pc'[u] # "exit_scan",
         \A u \in Tasks : pc[u] \notin {"none", "gone"} => pc'[u] \notin {"none", "gone"},
         \A x \in Tasks : Held(x)' => Held(x)
  PROVE  HeldInv'
<1>1. \A x \in Tasks : Held(x) => target[x] \in Tasks
  BY DEF IInv, WaitInv, Held
<1> QED
  BY <1>1 DEF HeldInv

(* A task that is held while another one exits is in the suspended queue. *)
LEMMA HeldIsQueued ==
  ASSUME ~ KernelPreemption, IInv, PlaceInv, AtomicInv, NEW x \in Tasks, Held(x),
         current # x
  PROVE  Waiting(x)
<1>1. cont[x] = "wait_ret" /\ pc[x] = "wait_ret" /\ ~ Active(x)
  BY DEF Held, AtomicInv
<1>2. ~ Asleep(x)
  BY <1>1 DEF IInv, SleepersInv
<1> QED
  BY <1>1, <1>2 DEF PlaceInv

(* And one in the suspended queue is held. *)
LEMMA QueuedIsHeld ==
  ASSUME IInv, NEW x \in Tasks, Waiting(x)
  PROVE  Held(x)
BY DEF IInv, SuspendedInv, Held

(* The walk goes on past the node it is at. *)
LEMMA WalkGoesOn ==
  ASSUME NEW q \in QueueOf(Tasks), q.it > 0, NEW i \in q.it..QSize(q),
         QItem(q) # q.items[i]
  PROVE  /\ QNext(q).it > 0
         /\ i \in QNext(q).it..QSize(QNext(q))
         /\ QNext(q).items[i] = q.items[i]
<1>1. /\ Len(q.items) \in Nat /\ q.it \in 0..Len(q.items)
      /\ q = [items |-> q.items, it |-> q.it]
  BY QueueType
<1>2. i # q.it /\ i \in q.it..Len(q.items)
  BY DEF QItem, QSize
<1>3. q.it \notin {0, Len(q.items)}
  BY <1>1, <1>2
<1>4. QNext(q) = [items |-> q.items, it |-> q.it + 1]
  BY <1>1, <1>3 DEF QNext, QSize
<1> QED
  BY <1>1, <1>2, <1>4 DEF QSize

(* task_exit takes the walk up at the first suspended task. *)
LEMMA ExitHeadHeld ==
  ASSUME ~ KernelPreemption, IInv, PlaceInv, AtomicInv, HeldInv,
         NEW t \in Tasks, ExitHead(t)
  PROVE  HeldInv'
<1>1. /\ current = t /\ current' = t /\ pc[t] = "exit_head"
      /\ pc' = [pc EXCEPT ![t] = "exit_scan"] /\ pc \in [Tasks -> DispatcherPC]
      /\ aux' = [aux EXCEPT ![t] = QItem(suspended')]
      /\ aux \in [Tasks -> Tasks \cup {NULL}]
      /\ suspended' = QHead(suspended)
      /\ UNCHANGED <<target, cont, ready>>
  BY DEF ExitHead, IInv
<1>2. /\ suspended.items \in Seq(Tasks)
      /\ Len(suspended.items) \in Nat
      /\ DOMAIN suspended.items = 1..Len(suspended.items)
      /\ suspended = [items |-> suspended.items, it |-> suspended.it]
  BY QueueType DEF IInv
<1>3. \A u \in Tasks : pc'[u] = "exit_scan" <=> u = t
  BY <1>1 DEF AtomicInv
<1>4. ASSUME NEW x \in Tasks, Held(x)'
      PROVE  Held(x) /\ x # t
  BY <1>1, <1>4 DEF Held
<1>5. ASSUME NEW x \in Tasks, Held(x), x # t
      PROVE  Ahead(x)'
  <2>1. Waiting(x)
    BY <1>1, <1>5, HeldIsQueued
  <2>2. PICK i \in 1..Len(suspended.items) : suspended.items[i] = x
    BY <1>2, <2>1 DEF ToSet
  <2>3. suspended.items # << >>
    BY <1>2, <2>2, EmptySeq
  <2>4. suspended' = [items |-> suspended.items, it |-> 1]
    BY <1>1, <1>2, <2>3 DEF QHead
  <2> QED
    BY <2>2, <2>4 DEF Ahead, QSize
<1>6. \A x \in Tasks : Held(x) => target[x] \in Tasks
  BY DEF IInv, WaitInv, Held
<1> QED
  BY <1>1, <1>3, <1>4, <1>5, <1>6 DEF HeldInv

(* A turn of the walk lets the one waiter go, or goes on towards it. *)
LEMMA ExitScanHeld ==
  ASSUME ~ KernelPreemption, OneWaiterEach, IInv, PlaceInv, AtomicInv, HeldInv,
         NEW t \in Tasks, NEW w \in Tasks, ExitScan(t, w)
  PROVE  HeldInv'
<1>1. /\ current = t /\ current' = t /\ pc[t] = "exit_scan" /\ aux[t] = w
      /\ aux' = [aux EXCEPT ![t] = QItem(suspended')]
      /\ aux \in [Tasks -> Tasks \cup {NULL}]
      /\ suspended \in QueueOf(Tasks)
      /\ UNCHANGED <<target, cont, pc>>
  BY DEF ExitScan, IInv
<1>2. w = QItem(suspended) /\ w \in ToSet(suspended.items)
  <2>1. w = QItem(suspended)
    BY <1>1 DEF HeldInv
  <2> QED
    BY <1>1, <2>1, QItemProperties
<1>3. \A u \in Tasks : pc[u] = "exit_scan" <=> u = t
  BY <1>1 DEF AtomicInv
<1>4. ToSet(ready) \subseteq ToSet(ready')
  BY ExitScanProperties
<1>5. \A x \in Tasks : Held(x)' => Held(x)
  BY <1>1, <1>4 DEF Held
<1>6. ASSUME NEW x \in Tasks, Held(x)', target[x] = t
      PROVE  Ahead(x)'
  <2>1. Held(x) /\ Ahead(x) /\ <<x, t>> \in MayWait
    BY <1>1, <1>5, <1>6 DEF HeldInv
  <2>2. target[w] # t
    <3> SUFFICES ASSUME target[w] = t
                 PROVE  FALSE
      OBVIOUS
    <3>1. w # Disk /\ w # t
      BY ExitScanProperties
    <3>2. Waiting(w) /\ Held(w) /\ status[w] = "SUSPENDED"
      BY <1>2, <3>1, QueuedIsHeld DEF AtomicInv
    <3>3. <<w, t>> \in MayWait
      BY <3>2 DEF HeldInv
    <3>4. w = x
      <4>1. <<w, t>>[2] = <<x, t>>[2] => <<w, t>> = <<x, t>>
        BY <2>1, <3>3 DEF OneWaiterEach
      <4> QED
        BY <4>1
    <3>5. pc[w] = "wait_ret" /\ w \in ToSet(ready')
      BY <3>2, ExitScanProperties DEF LetGo
    <3> QED
      BY <1>1, <1>6, <3>4, <3>5 DEF Held
  <2>3. suspended' = QNext(suspended)
    BY <2>2 DEF ExitScan
  <2>4. x # w
    BY <1>6, <2>2
  <2>5. PICK i \in suspended.it..QSize(suspended) :
               suspended.it > 0 /\ suspended.items[i] = x
    BY <2>1 DEF Ahead
  <2>6. /\ QNext(suspended).it > 0
        /\ i \in QNext(suspended).it..QSize(QNext(suspended))
        /\ QNext(suspended).items[i] = x
    BY <1>1, <1>2, <2>4, <2>5, WalkGoesOn
  <2> QED
    BY <2>3, <2>6 DEF Ahead
<1> QED
  BY <1>1, <1>3, <1>5, <1>6 DEF HeldInv

(* The walk ends with nobody held by the task that exits. *)
LEMMA ExitDoneHeld ==
  ASSUME ~ KernelPreemption, IInv, AtomicInv, HeldInv, NEW t \in Tasks, ExitDone(t)
  PROVE  HeldInv'
<1>1. /\ current = t /\ current' = TaskKernel /\ pc[t] = "exit_scan" /\ aux[t] = NULL
      /\ pc' = [pc EXCEPT ![t] = "gone"] /\ pc \in [Tasks -> DispatcherPC]
      /\ suspended \in QueueOf(Tasks)
      /\ UNCHANGED <<target, cont, ready>>
  BY DEF ExitDone, IInv
<1>2. \A u \in Tasks : pc'[u] # "exit_scan"
  BY <1>1 DEF AtomicInv
<1>3. suspended.it = 0
  <2>1. QItem(suspended) = NULL
    BY <1>1 DEF HeldInv
  <2>2. /\ DOMAIN suspended.items = 1..Len(suspended.items)
        /\ suspended.it \in 0..Len(suspended.items) /\ Len(suspended.items) \in Nat
        /\ ToSet(suspended.items) \subseteq Tasks
    BY <1>1, QueueType
  <2>3. suspended.it # 0 => suspended.items[suspended.it] \in ToSet(suspended.items)
    BY <2>2 DEF ToSet
  <2> QED
    BY <2>1, <2>2, <2>3 DEF QItem
<1>4. \A x \in Tasks : Held(x)' => Held(x) /\ x # t
  BY <1>1 DEF Held
<1>5. \A x \in Tasks : Held(x) => target[x] # t /\ target[x] \in Tasks
  <2>1. \A x \in Tasks : ~ Ahead(x)
    BY <1>3 DEF Ahead
  <2>2. \A x \in Tasks : Held(x) => target[x] \in Tasks
    BY DEF IInv, WaitInv, Held
  <2> QED
    BY <1>1, <2>1, <2>2 DEF HeldInv
<1> QED
  BY <1>1, <1>2, <1>4, <1>5 DEF HeldInv

(* task_wait finds its target before its exit. *)
LEMMA WaitHeld ==
  ASSUME ~ KernelPreemption, IInv, AtomicInv, HeldInv,
         NEW t \in Tasks, NEW u \in Tasks, Wait(t, u)
  PROVE  HeldInv'
<1>1. /\ current = t /\ pc[t] = "user" /\ <<t, u>> \in MayWait
      /\ pc[u] # "none" /\ status[u] # "FINISHED"
      /\ target' = [target EXCEPT ![t] = u] /\ target \in [Tasks -> Tasks \cup {TaskKernel}]
      /\ cont' = [cont EXCEPT ![t] = "wait_ret"] /\ cont \in [Tasks -> DispatcherCont]
      /\ pc' = [pc EXCEPT ![t] = "suspend"] /\ pc \in [Tasks -> DispatcherPC]
      /\ UNCHANGED <<suspended, current, ready, aux>>
  BY DEF Wait, IInv
<1>2. \A x \in Tasks : pc'[x] # "exit_scan"
  BY <1>1 DEF AtomicInv
<1>3. pc[u] \notin {"none", "gone"}
  BY <1>1 DEF AtomicInv
<1>4. \A x \in Tasks : x # t /\ Held(x)' => Held(x) /\ target'[x] = target[x]
  BY <1>1 DEF Held
<1>5. \A x \in Tasks : Held(x) => target[x] \in Tasks
  BY DEF IInv, WaitInv, Held
<1>6. target'[t] = u
  BY <1>1
<1> QED
  BY <1>1, <1>2, <1>3, <1>4, <1>5, <1>6 DEF HeldInv

(* Every other step leaves the waiters and their targets as they are. *)
LEMMA HeldStep ==
  ASSUME ~ KernelPreemption, OneWaiterEach, IInv, PlaceInv, AtomicInv, HeldInv,
         [Next]_vars
  PROVE  HeldInv'
<1>0. pc \in [Tasks -> DispatcherPC] /\ TaskKernel \notin Tasks
  BY DEF IInv
<1>1. CASE Loop
  <2>1. UNCHANGED <<current, pc, cont, target>> /\ current \notin Tasks
    BY <1>1 DEF Loop, KernelStep, AfterRun, EmptyTurn, ScanSleeper, ScanEnd, Stop,
                IInv, CpuInv
  <2>2. \A u \in Tasks : pc[u] # "exit_scan"
    BY <2>1 DEF AtomicInv
  <2>3. CASE AfterRun \/ EmptyTurn(0) \/ ScanEnd \/ Stop(0)
    <3>1. ready' = ready
      BY <2>3 DEF AfterRun, EmptyTurn, ScanEnd, Stop
    <3> QED
      BY <2>1, <2>2, <3>1, HeldKept DEF Held
  <2>4. ASSUME NEW w \in Tasks, ScanSleeper(w)
        PROVE  HeldInv'
    <3>1. ToSet(ready) \subseteq ToSet(ready')
      BY <2>4, ScanSleeperProperties
    <3> QED
      BY <2>1, <2>2, <3>1, HeldKept DEF Held
  <2> QED
    BY <1>1, <2>3, <2>4 DEF Loop, KernelStep
<1>2. ASSUME NEW t \in Tasks, current = t, pc[t] = "user", TaskYield(t), target' = target
      PROVE  HeldInv'
  <2>1. \A u \in Tasks : pc[u] # "exit_scan"
    BY <1>2 DEF AtomicInv
  <2>2. ToSet(ready') = ToSet(ready) \cup {t}
    BY <1>2, QueueSteps DEF TaskYield
  <2> QED
    BY <1>2, <2>1, <2>2, HeldKept DEF TaskYield, Held
<1>3. CASE Timer
  <2>1. ASSUME NEW t \in Tasks, TickPreempts(t)
        PROVE  HeldInv'
    BY <1>2, <1>3, <2>1 DEF Timer, TickPreempts, MayPreempt
  <2>2. CASE TickInKernel \/ \E t \in Tasks : TickInTask(t)
    <3>1. UNCHANGED <<current, pc, cont, target, ready>>
      BY <1>3, <2>2 DEF Timer, TickInKernel, TickInTask
    <3>2. \A u \in Tasks : pc[u] # "exit_scan"
      BY <1>0, <2>2 DEF TickInKernel, TickInTask, MayPreempt, AtomicInv
    <3> QED
      BY <3>1, <3>2, HeldKept DEF Held
  <2> QED
    BY <1>3, <2>1, <2>2 DEF Timer, Tick
<1>4. ASSUME NEW t \in Tasks, Run(t)
      PROVE  HeldInv'
  <2>1. /\ UNCHANGED <<pc, cont, target>> /\ current' = t /\ current \notin Tasks
        /\ ToSet(ready') = ToSet(ready) \ {t}
    BY <1>4, QueueSteps DEF Run, Dispatch, IInv, CpuInv
  <2>2. \A u \in Tasks : pc[u] # "exit_scan"
    BY <2>1 DEF AtomicInv
  <2> QED
    BY <2>1, <2>2, HeldKept DEF Held
<1>5. ASSUME NEW t \in Tasks, UserStep(t)
      PROVE  HeldInv'
  <2>0. current = t /\ pc[t] = "user"
    BY <1>5 DEF UserStep, Yield, Create, TaskCreate, Wait, Sleep, Exit
  <2>1. \A u \in Tasks : pc[u] # "exit_scan"
    BY <2>0 DEF AtomicInv
  <2>2. CASE Yield(t) /\ UNCHANGED waitVars
    BY <1>2, <2>0, <2>2 DEF Yield
  <2>3. ASSUME NEW new \in Tasks, Create(t, new)
        PROVE  HeldInv'
    <3>1. /\ pc' = [pc EXCEPT ![new] = "user"] /\ pc[new] = "none"
          /\ UNCHANGED <<current, cont, target>>
          /\ ToSet(ready') = ToSet(ready) \cup {new}
      BY <2>3, QueueSteps DEF Create, TaskCreate
    <3> QED
      BY <1>0, <2>1, <3>1, HeldKept DEF Held
  <2>4. ASSUME NEW u \in Tasks, Wait(t, u)
        PROVE  HeldInv'
    BY <2>4, WaitHeld
  <2>5. ASSUME NEW d \in 0..MaxSleep, Sleep(t, d)
        PROVE  HeldInv'
    <3>1. /\ pc' = [pc EXCEPT ![t] = "suspend"] /\ cont' = [cont EXCEPT ![t] = "sleep_ret"]
          /\ UNCHANGED <<current, ready, target>> /\ cont \in [Tasks -> DispatcherCont]
      BY <2>5 DEF Sleep, IInv
    <3> QED
      BY <1>0, <2>1, <3>1, HeldKept DEF Held
  <2>6. ASSUME NEW code \in Codes, Exit(t, code)
        PROVE  HeldInv'
    <3>1. /\ pc' = [pc EXCEPT ![t] = "exit_head"]
          /\ UNCHANGED <<current, ready, cont, target>>
      BY <2>6 DEF Exit
    <3> QED
      BY <1>0, <2>1, <3>1, HeldKept DEF Held
  <2> QED
    BY <1>5, <2>2, <2>3, <2>4, <2>5, <2>6 DEF UserStep
<1>6. ASSUME NEW t \in Tasks, CallStep(t)
      PROVE  HeldInv'
  <2>1. CASE TaskSuspend(t) /\ UNCHANGED waitVars
    <3>1. current = t /\ pc[t] \in SuspendPC
      BY <2>1 DEF TaskSuspend, SuspendStatus, SuspendEnqueue, SuspendSwitch
    <3>2. /\ pc' = [pc EXCEPT ![t] = pc'[t]]
          /\ pc'[t] \in {"enqueue", "switch", "wait_ret", "sleep_ret"}
          /\ UNCHANGED <<cont, target, ready>>
      BY <1>0, <2>1
         DEF TaskSuspend, SuspendStatus, SuspendEnqueue, SuspendSwitch, IInv, CallInv
    <3>3. \A u \in Tasks : pc[u] # "exit_scan"
      BY <3>1 DEF AtomicInv
    <3>4. \A x \in Tasks : Held(x)' => Held(x)
      BY <1>0, <3>1, <3>2 DEF Held, AtomicInv, IInv, CallInv
    <3> QED
      BY <1>0, <3>2, <3>3, <3>4, HeldKept
  <2>2. CASE Return(t)
    <3>1. /\ pc' = [pc EXCEPT ![t] = "user"] /\ current = t
          /\ UNCHANGED <<current, ready, cont, target>>
          /\ pc[t] \in {"wait_ret", "sleep_ret"}
      BY <2>2 DEF Return
    <3>2. \A u \in Tasks : pc[u] # "exit_scan"
      BY <3>1 DEF AtomicInv
    <3> QED
      BY <1>0, <3>1, <3>2, HeldKept DEF Held
  <2>3. CASE ExitHead(t)
    BY <2>3, ExitHeadHeld
  <2>4. ASSUME NEW w \in Tasks, ExitScan(t, w)
        PROVE  HeldInv'
    BY <2>4, ExitScanHeld
  <2>5. CASE ExitDone(t)
    BY <2>5, ExitDoneHeld
  <2> QED
    BY <1>6, <2>1, <2>2, <2>3, <2>4, <2>5 DEF CallStep
<1>7. CASE UNCHANGED vars
  BY <1>7 DEF vars, kernelVars, HeldInv, Held, Ahead
<1> QED
  BY <1>1, <1>3, <1>4, <1>5, <1>6, <1>7 DEF Next, Off

(* Where no quantum ends inside a kernel call and nobody else waits for    *)
(* the same task, no task is left waiting for one that has finished.       *)
THEOREM NobodyIsStranded ==
  ASSUME ~ KernelPreemption, OneWaiterEach
  PROVE  Spec => []NoStrandedWaiter
<1>1. Init => HeldInv
  BY DEF Init, KernelInit, TcbInit, HeldInv, Held
<1>2. IInv /\ PlaceInv /\ AtomicInv /\ HeldInv /\ [Next]_vars => HeldInv'
  BY HeldStep
<1>3. IInv /\ HeldInv => NoStrandedWaiter
  <2> SUFFICES ASSUME IInv, HeldInv, NEW t \in Tasks, InWait(t), Waiting(t)
               PROVE  target[t] \in Tasks /\ pc[target[t]] # "gone"
    BY DEF NoStrandedWaiter
  <2>1. Held(t)
    BY QueuedIsHeld
  <2> QED
    BY <2>1 DEF HeldInv, IInv, WaitInv, Held
<1> QED
  BY <1>1, <1>2, <1>3, AtomicHolds, PTL DEF Spec
=============================================================================
