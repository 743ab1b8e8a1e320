------------------------- MODULE BlockDriverProofs -------------------------
(***************************************************************************)
(* Why the iterator of the request queue, which nobody resets, is on the   *)
(* oldest request whenever the manager looks: requests are only added at   *)
(* the end, and the manager only deletes the one it found first, which     *)
(* leaves the iterator on the next.  The second part is an invariant of    *)
(* the manager's local pointer across its suspension.                      *)
(***************************************************************************)
EXTENDS BlockDriver, QueueProofs

(* The labels of DriverPC, in one set. *)
LEMMA Labels ==
  /\ DriverPC = {"none", "user", "wait_ret", "sleep_ret", "gone", "suspend", "enqueue",
                 "switch", "exit_head", "exit_scan", "answer", "dequeue", "block_ret"}
  /\ DriverCont = {"user", "wait_ret", "sleep_ret", "answer", "block_ret"}
  /\ SuspendPC = {"suspend", "enqueue", "switch"}
BY DEF DriverPC, DispatcherPC, SuspendPC, ExitPC, ManagerPC, DriverCont, DispatcherCont

LEMMA RequestsInit ==
  ASSUME DriverInit
  PROVE  RequestsInv
<1>1. requests = EmptyQueue /\ requests \in QueueOf(Tasks)
  BY EmptyQueueProperties DEF DriverInit
<1>2. OldestFirst
  BY <1>1 DEF OldestFirst, EmptyQueue
<1>3. PcTypeOK(DriverPC, DriverCont) /\ ~ HasRequest
  BY Labels, KernelAssumption
     DEF DriverInit, Init, KernelInit, TcbInit, PcTypeOK, HasRequest
<1> QED
  BY <1>1, <1>2, <1>3 DEF RequestsInv

(* Steps that touch neither the queue nor the manager's pointer: the       *)
(* manager does not come to have a request by them.                        *)
LEMMA RequestsKept ==
  ASSUME RequestsInv, UNCHANGED <<requests, request>>, PcTypeOK(DriverPC, DriverCont)',
         HasRequest' => HasRequest
  PROVE  RequestsInv'
BY DEF RequestsInv, OldestFirst

(* The dispatcher, the timer and the disk leave the tasks where they are. *)
LEMMA ProcessorSteps ==
  ASSUME RequestsInv,
         DriverLoop \/ DriverTimer \/ Interrupt \/ (\E t \in Tasks : DriverRun(t))
           \/ UNCHANGED driverVars
  PROVE  RequestsInv'
<1>1. UNCHANGED <<pc, cont, requests, request>>
  <2>1. CASE DriverLoop
    BY <2>1 DEF DriverLoop, KernelStep, AfterRun, EmptyTurn, ScanSleeper, ScanEnd, Stop,
                diskVars
  <2>2. CASE DriverTimer
    BY <2>2 DEF DriverTimer, Timer, Tick, TickInKernel, TickInTask, TickPreempts,
                TaskYield, diskVars
  <2>3. CASE Interrupt
    BY <2>3 DEF Interrupt
  <2>4. CASE \E t \in Tasks : DriverRun(t)
    BY <2>4 DEF DriverRun, Dispatch, diskVars
  <2>5. CASE UNCHANGED driverVars
    BY <2>5 DEF driverVars, vars, kernelVars, diskVars
  <2> QED
    BY <2>1, <2>2, <2>3, <2>4, <2>5
<1> QED
  BY <1>1, RequestsKept DEF RequestsInv, PcTypeOK, HasRequest

(* A step in a call: the task goes on, as it said it would. *)
LEMMA CallSteps ==
  ASSUME RequestsInv, NEW t \in Tasks, DriverCallStep(t)
  PROVE  RequestsInv'
<1>1. UNCHANGED <<cont, requests, request>>
  BY DEF DriverCallStep, CallStep, TaskSuspend, SuspendStatus, SuspendEnqueue,
         SuspendSwitch, Return, ExitHead, ExitScan, ExitDone, BlockReturn, diskVars
<1>2. PICK l \in DriverPC :
        /\ pc' = [pc EXCEPT ![t] = l]
        /\ \/ l \in {"user", "exit_scan", "gone"}
           \/ l = pc[t]
           \/ pc[t] \in SuspendPC /\ l \in {"enqueue", "switch", cont[t]}
  <2>1. pc \in [Tasks -> DriverPC] /\ cont \in [Tasks -> DriverCont]
    BY DEF RequestsInv, PcTypeOK
  <2>2. CASE TaskSuspend(t)
    BY <2>1, <2>2, Labels
       DEF TaskSuspend, SuspendStatus, SuspendEnqueue, SuspendSwitch, At, Goto
  <2>3. CASE Return(t) \/ ExitHead(t) \/ ExitDone(t) \/ BlockReturn(t)
    BY <2>1, <2>3, Labels DEF Return, ExitHead, ExitDone, BlockReturn, Goto
  <2>4. CASE \E w \in Tasks : ExitScan(t, w)
    BY <2>1, <2>4 DEF ExitScan
  <2> QED
    BY <2>2, <2>3, <2>4 DEF DriverCallStep, CallStep
<1>3. PcTypeOK(DriverPC, DriverCont)'
  BY <1>1, <1>2 DEF RequestsInv, PcTypeOK
<1>4. HasRequest' => HasRequest
  <2>1. pc \in [Tasks -> DriverPC] /\ cont \in [Tasks -> DriverCont] /\ Disk \in Tasks
    BY KernelAssumption DEF RequestsInv, PcTypeOK
  <2>2. CASE t # Disk
    BY <1>1, <1>2, <2>1, <2>2 DEF HasRequest
  <2>3. CASE t = Disk
    BY <1>1, <1>2, <2>1, <2>3, Labels DEF HasRequest
  <2> QED
    BY <2>2, <2>3
<1> QED
  BY <1>1, <1>3, <1>4, RequestsKept

(* A task that is not the manager begins a call. *)
LEMMA UserSteps ==
  ASSUME RequestsInv, NEW t \in Tasks, DriverUserStep(t)
  PROVE  RequestsInv'
<1>0. /\ pc \in [Tasks -> DriverPC] /\ cont \in [Tasks -> DriverCont]
      /\ Disk \in Tasks /\ t # Disk
  BY KernelAssumption DEF RequestsInv, PcTypeOK, DriverUserStep, Caller
<1>1. CASE UserStep(t) /\ UNCHANGED diskVars
  <2>1. /\ PcTypeOK(DriverPC, DriverCont)'
        /\ cont'[Disk] = cont[Disk]
        /\ pc'[Disk] \in {pc[Disk], "user"}
    <3>1. CASE Yield(t)
      BY <1>0, <3>1 DEF Yield, TaskYield, PcTypeOK
    <3>2. CASE \E new \in Tasks : Create(t, new)
      BY <1>0, <3>2, Labels DEF Create, TaskCreate, Goto, PcTypeOK
    <3>3. CASE \E u \in Tasks : Wait(t, u)
      BY <1>0, <3>3, Labels DEF Wait, Goto, PcTypeOK
    <3>4. CASE \E d \in 0..MaxSleep : Sleep(t, d)
      BY <1>0, <3>4, Labels DEF Sleep, Goto, PcTypeOK
    <3>5. CASE \E code \in Codes : Exit(t, code)
      BY <1>0, <3>5, Labels DEF Exit, Goto, PcTypeOK
    <3> QED
      BY <1>1, <3>1, <3>2, <3>3, <3>4, <3>5 DEF UserStep
  <2>2. HasRequest' => HasRequest
    BY <2>1, Labels DEF HasRequest
  <2> QED
    BY <1>1, <2>1, <2>2, RequestsKept DEF diskVars
<1>2. CASE BlockCall(t)
  <2>1. /\ requests' = QAdd(requests, t) /\ request' = request
        /\ requests \in QueueOf(Tasks) /\ requests' \in QueueOf(Tasks)
    BY <1>2, QAddProperties DEF BlockCall, RequestsInv
  <2>2. PcTypeOK(DriverPC, DriverCont)' /\ (HasRequest' => HasRequest)
    BY <1>0, <1>2, Labels DEF BlockCall, Goto, PcTypeOK, HasRequest
  <2>3. /\ requests'.items = Append(requests.items, t)
        /\ requests'.items # << >>
        /\ requests.items # << >> => requests'.items[1] = requests.items[1]
    <3>1. requests.items \in Seq(Tasks) /\ requests'.items = Append(requests.items, t)
      BY <2>1, QueueType DEF QAdd
    <3>2. requests.items # << >> => Len(requests.items) \in Nat \ {0}
      BY <3>1, EmptySeq
    <3> QED
      BY <3>1, <3>2, AppendProperties
  <2>4. OldestFirst'
    BY <2>1, <2>3 DEF RequestsInv, OldestFirst, QAdd
  <2> QED
    BY <2>1, <2>2, <2>3, <2>4 DEF RequestsInv
<1> QED
  BY <1>1, <1>2 DEF DriverUserStep

(* The manager takes the oldest request, and deletes it when it is done. *)
LEMMA ManagerSteps ==
  ASSUME RequestsInv, ManagerStep
  PROVE  RequestsInv'
<1>0. /\ pc \in [Tasks -> DriverPC] /\ cont \in [Tasks -> DriverCont] /\ Disk \in Tasks
      /\ requests \in QueueOf(Tasks)
  BY KernelAssumption DEF RequestsInv, PcTypeOK
<1>1. CASE ManagerTurn
  <2>1. CASE AwaitDisk
    <3>1. PcTypeOK(DriverPC, DriverCont)' /\ ~ HasRequest'
      BY <1>0, <2>1, Labels DEF AwaitDisk, Goto, PcTypeOK, HasRequest
    <3> QED
      BY <1>1, <2>1, <3>1 DEF ManagerTurn, AwaitDisk, RequestsInv, OldestFirst
  <2>2. CASE TaskYield(Disk) /\ UNCHANGED <<disk, request, reply>>
    BY <1>1, <2>2, RequestsKept
       DEF ManagerTurn, TaskYield, RequestsInv, PcTypeOK, HasRequest
  <2>3. CASE QItem(requests) # NULL /\ Command(QItem(requests))
    <3>1. /\ requests.items # << >>
          /\ QItem(requests) = requests.items[1]
      BY <2>3 DEF RequestsInv, OldestFirst, QItem
    <3>2. PcTypeOK(DriverPC, DriverCont)'
      BY <1>0, <2>3, Labels DEF Command, Goto, PcTypeOK
    <3> QED
      BY <1>1, <2>3, <3>1, <3>2 DEF ManagerTurn, Command, RequestsInv, OldestFirst
  <2> QED
    BY <1>1, <2>1, <2>2, <2>3 DEF ManagerTurn
<1>2. CASE Answer
  <2>1. pc[Disk] = "answer" /\ cont' = cont /\ pc' = [pc EXCEPT ![Disk] = "dequeue"]
    BY <1>2 DEF Answer, At, Goto
  <2>2. UNCHANGED <<requests, request>>
    BY <1>2 DEF Answer, diskVars
  <2>3. PcTypeOK(DriverPC, DriverCont)'
    BY <1>0, <2>1, Labels DEF PcTypeOK
  <2> QED
    BY <2>1, <2>2, <2>3, RequestsKept DEF HasRequest
<1>3. CASE Dequeue
  <2>1. /\ requests.items # << >> /\ requests.it = 1
        /\ requests' = QDel(requests, requests.items[1])
    BY <1>3 DEF Dequeue, At, RequestsInv, HasRequest, OldestFirst
  <2>2. requests' \in QueueOf(Tasks) /\ OldestFirst'
    BY <1>0, <2>1, QDelHead DEF OldestFirst
  <2>3. PcTypeOK(DriverPC, DriverCont)' /\ ~ HasRequest'
    BY <1>0, <1>3, Labels DEF Dequeue, Goto, PcTypeOK, HasRequest
  <2> QED
    BY <2>2, <2>3 DEF RequestsInv
<1> QED
  BY <1>1, <1>2, <1>3 DEF ManagerStep

(* The manager takes the requests in order of arrival, for any number of   *)
(* tasks, with preemption at any step and blocks that do not exist.        *)
THEOREM OldestIsFirst == DriverSpec => []OldestFirst
<1>1. DriverInit => RequestsInv
  BY RequestsInit
<1>2. RequestsInv /\ [DriverNext]_driverVars => RequestsInv'
  BY ProcessorSteps, CallSteps, UserSteps, ManagerSteps DEF DriverNext
<1>3. RequestsInv => OldestFirst
  BY DEF RequestsInv
<1> QED
  BY <1>1, <1>2, <1>3, PTL DEF DriverSpec

(***************************************************************************)
(* Types, with preemption at any step.                                     *)
(***************************************************************************)

(* What the queue operations of the kernel return. *)
LEMMA QueueSteps ==
  ASSUME QueuesTypeOK, NEW t \in Tasks
  PROVE  /\ Append(ready, t) \in Seq(Tasks)
         /\ RemoveFirst(ready, t) \in Seq(Tasks)
         /\ QAdd(suspended, t) \in QueueOf(Tasks)
         /\ QAdd(sleepers, t) \in QueueOf(Tasks)
         /\ AwakeSuspended(t) \in QueueOf(Tasks)
         /\ AwakeSleepers(t) \in QueueOf(Tasks)
<1>1. ready \in Seq(Tasks) /\ suspended \in QueueOf(Tasks) /\ sleepers \in QueueOf(Tasks)
  BY DEF QueuesTypeOK
<1>2. Append(ready, t) \in Seq(Tasks) /\ RemoveFirst(ready, t) \in Seq(Tasks)
  BY <1>1, AppendSet, RemoveFirstType
<1>3. QAdd(suspended, t) \in QueueOf(Tasks) /\ QAdd(sleepers, t) \in QueueOf(Tasks)
  BY <1>1, QAddProperties
<1>4. QDel(suspended, t) \in QueueOf(Tasks) /\ QDel(sleepers, t) \in QueueOf(Tasks)
  BY <1>1, QDelType
<1> QED
  BY <1>1, <1>2, <1>3, <1>4 DEF AwakeSuspended, AwakeSleepers

LEMMA QueueWalks ==
  ASSUME NEW q \in QueueOf(Tasks)
  PROVE  /\ QHead(q) \in QueueOf(Tasks)
         /\ QNext(q) \in QueueOf(Tasks)
         /\ QItem(q) \in Tasks \cup {NULL}
<1>1. QItem(q) = NULL \/ QItem(q) \in ToSet(q.items)
  BY QItemProperties
<1> QED
  BY <1>1, QWalkProperties, QueueType

(* task_awake keeps the types of what it writes. *)
LEMMA AwakeType ==
  ASSUME TcbTypeOK, QueuesTypeOK, NEW t \in Tasks, AwakeTask(t)
  PROVE  /\ status' \in [Tasks -> Status]
         /\ sleeping' \in [Tasks -> BOOLEAN]
         /\ ready' \in Seq(Tasks)
<1>1. Append(ready, t) \in Seq(Tasks)
  BY QueueSteps
<1> QED
  BY <1>1 DEF AwakeTask, TcbTypeOK, QueuesTypeOK, Status

LEMMA YieldType ==
  ASSUME TcbTypeOK, QueuesTypeOK, CpuTypeOK, NEW t \in Tasks, TaskYield(t),
         left' \in [Tasks -> 0..MaxSleep]
  PROVE  TcbTypeOK' /\ QueuesTypeOK' /\ CpuTypeOK'
<1>1. Append(ready, t) \in Seq(Tasks)
  BY QueueSteps
<1>2. TcbTypeOK'
  BY DEF TaskYield, TcbTypeOK, Status
<1>3. QueuesTypeOK'
  BY <1>1 DEF TaskYield, QueuesTypeOK
<1>4. CpuTypeOK'
  BY KernelAssumption DEF TaskYield, SwitchToKernel, loopVars, CpuTypeOK
<1> QED
  BY <1>2, <1>3, <1>4

LEMMA CountDownType ==
  ASSUME TcbTypeOK, CountDown
  PROVE  left' \in [Tasks -> 0..MaxSleep]
<1>1. \A n \in 0..MaxSleep : (IF n > 0 THEN n - 1 ELSE 0) \in 0..MaxSleep
  BY KernelAssumption
<1> QED
  BY <1>1 DEF TcbTypeOK, CountDown

(* The kernel's variables keep their types. *)
LEMMA KernelTypes ==
  ASSUME DriverTypeOK, RequestsInv, [DriverNext]_driverVars
  PROVE  TcbTypeOK' /\ QueuesTypeOK' /\ CpuTypeOK'
<1>0. /\ TcbTypeOK /\ QueuesTypeOK /\ CpuTypeOK
      /\ ready \in Seq(Tasks) /\ suspended \in QueueOf(Tasks) /\ sleepers \in QueueOf(Tasks)
  BY DEF DriverTypeOK, QueuesTypeOK
<1> USE DEF TcbTypeOK, QueuesTypeOK, CpuTypeOK, Status, KernelPC, loopVars, queueVars,
            SwitchToKernel
<1>1. CASE DriverLoop
  <2>1. CASE AfterRun
    BY <1>0, <2>1, QueueWalks, KernelAssumption DEF AfterRun
  <2>2. CASE EmptyTurn(Pending)
    BY <1>0, <2>2, QueueWalks, KernelAssumption DEF EmptyTurn
  <2>3. ASSUME NEW w \in Tasks, ScanSleeper(w)
        PROVE  TcbTypeOK' /\ QueuesTypeOK' /\ CpuTypeOK'
    <3>1. CASE left[w] = 0
      <4>1. /\ AwakeTask(w) /\ suspended' = AwakeSuspended(w)
            /\ sleepers' = QNext(AwakeSleepers(w))
        BY <2>3, <3>1 DEF ScanSleeper
      <4>2. suspended' \in QueueOf(Tasks) /\ sleepers' \in QueueOf(Tasks)
        BY <1>0, <4>1, QueueSteps, QueueWalks
      <4> QED
        BY <1>0, <2>3, <4>1, <4>2, AwakeType DEF ScanSleeper
    <3>2. CASE left[w] # 0
      BY <1>0, <2>3, <3>2, QueueWalks DEF ScanSleeper
    <3> QED
      BY <3>1, <3>2
  <2>4. CASE ScanEnd \/ Stop(Pending)
    BY <1>0, <2>4 DEF ScanEnd, Stop
  <2> QED
    BY <1>1, <2>1, <2>2, <2>3, <2>4 DEF DriverLoop, KernelStep
<1>2. CASE DriverTimer
  <2>1. left' \in [Tasks -> 0..MaxSleep]
    BY <1>0, <1>2, CountDownType
       DEF DriverTimer, Timer, Tick, TickInKernel, TickInTask, TickPreempts
  <2>2. CASE TickInKernel \/ \E t \in Tasks : TickInTask(t)
    BY <1>0, <2>1, <2>2, KernelAssumption DEF TickInKernel, TickInTask
  <2>3. CASE \E t \in Tasks : TickPreempts(t)
    BY <1>0, <2>1, <2>3, YieldType DEF TickPreempts
  <2> QED
    BY <1>2, <2>2, <2>3 DEF DriverTimer, Timer, Tick
<1>3. CASE Interrupt
  <2>1. AwakeTask(Disk) /\ suspended' = AwakeSuspended(Disk) /\ sleepers' = AwakeSleepers(Disk)
    BY <1>3 DEF Interrupt, AwakeManager
  <2>2. suspended' \in QueueOf(Tasks) /\ sleepers' \in QueueOf(Tasks)
    BY <1>0, <2>1, QueueSteps, KernelAssumption
  <2> QED
    BY <1>0, <1>3, <2>1, <2>2, AwakeType, KernelAssumption DEF Interrupt
<1>4. CASE ManagerTurn
  <2>1. CASE TaskYield(Disk)
    BY <1>0, <1>4, <2>1, YieldType, KernelAssumption DEF ManagerTurn
  <2>2. CASE AwaitDisk \/ Command(QItem(requests))
    BY <1>0, <1>4, <2>2 DEF ManagerTurn, AwaitDisk, Command
  <2> QED
    BY <1>4, <2>1, <2>2 DEF ManagerTurn
<1>5. CASE Answer
  <2>1. request \in Tasks
    <3>1. requests.items # << >> /\ request = requests.items[1] /\ requests.items \in Seq(Tasks)
      BY <1>5, QueueType DEF Answer, At, RequestsInv, HasRequest
    <3>2. Len(requests.items) \in Nat \ {0}
      BY <3>1, EmptySeq
    <3> QED
      BY <3>1, <3>2, ElementOfSeq
  <2>2. /\ AwakeTask(request) /\ suspended' = AwakeSuspended(request)
        /\ sleepers' = AwakeSleepers(request)
    BY <1>5 DEF Answer
  <2>3. suspended' \in QueueOf(Tasks) /\ sleepers' \in QueueOf(Tasks)
    BY <1>0, <2>1, <2>2, QueueSteps
  <2> QED
    BY <1>0, <1>5, <2>1, <2>2, <2>3, AwakeType DEF Answer
<1>6. CASE Dequeue
  BY <1>0, <1>6 DEF Dequeue
<1>7. ASSUME NEW t \in Tasks, DriverRun(t)
      PROVE  TcbTypeOK' /\ QueuesTypeOK' /\ CpuTypeOK'
  <2>1. RemoveFirst(ready, t) \in Seq(Tasks)
    BY <1>0, QueueSteps
  <2> QED
    BY <1>0, <1>7, <2>1, KernelAssumption DEF DriverRun, Dispatch
<1>8. ASSUME NEW t \in Tasks, DriverUserStep(t)
      PROVE  TcbTypeOK' /\ QueuesTypeOK' /\ CpuTypeOK'
  <2>1. CASE Yield(t)
    BY <1>0, <2>1, YieldType DEF Yield
  <2>2. ASSUME NEW new \in Tasks, Create(t, new)
        PROVE  TcbTypeOK' /\ QueuesTypeOK' /\ CpuTypeOK'
    <3>1. Append(ready, new) \in Seq(Tasks)
      BY <1>0, QueueSteps
    <3> QED
      BY <1>0, <2>2, <3>1 DEF Create, TaskCreate
  <2>3. CASE BlockCall(t) \/ \E u \in Tasks : Wait(t, u)
    BY <1>0, <2>3 DEF Wait, BlockCall
  <2>4. CASE \E d \in 0..MaxSleep : Sleep(t, d)
    BY <1>0, <2>4 DEF Sleep
  <2>5. CASE \E code \in Codes : Exit(t, code)
    BY <1>0, <2>5 DEF Exit
  <2> QED
    BY <1>8, <2>1, <2>2, <2>3, <2>4, <2>5 DEF DriverUserStep, UserStep
<1>9. ASSUME NEW t \in Tasks, DriverCallStep(t)
      PROVE  TcbTypeOK' /\ QueuesTypeOK' /\ CpuTypeOK'
  <2>1. CASE SuspendStatus(t)
    BY <1>0, <2>1 DEF SuspendStatus
  <2>2. CASE SuspendEnqueue(t)
    <3>1. QAdd(suspended, t) \in QueueOf(Tasks) /\ QAdd(sleepers, t) \in QueueOf(Tasks)
      BY <1>0, QueueSteps
    <3>2. suspended' \in QueueOf(Tasks) /\ sleepers' \in QueueOf(Tasks)
      BY <1>0, <2>2, <3>1 DEF SuspendEnqueue
    <3> QED
      BY <1>0, <2>2, <3>2 DEF SuspendEnqueue
  <2>3. CASE SuspendSwitch(t)
    BY <1>0, <2>3, KernelAssumption DEF SuspendSwitch
  <2>4. CASE Return(t) \/ BlockReturn(t)
    BY <1>0, <2>4 DEF Return, BlockReturn
  <2>5. CASE ExitHead(t)
    BY <1>0, <2>5, QueueWalks DEF ExitHead
  <2>6. ASSUME NEW w \in Tasks, ExitScan(t, w)
        PROVE  TcbTypeOK' /\ QueuesTypeOK' /\ CpuTypeOK'
    <3>1. CASE target[w] = t
      <4>1. /\ AwakeTask(w) /\ sleepers' = AwakeSleepers(w)
            /\ suspended' = QNext(AwakeSuspended(w))
        BY <2>6, <3>1 DEF ExitScan
      <4>2. suspended' \in QueueOf(Tasks) /\ sleepers' \in QueueOf(Tasks)
        BY <1>0, <4>1, QueueSteps, QueueWalks
      <4> QED
        BY <1>0, <2>6, <4>1, <4>2, AwakeType DEF ExitScan
    <3>2. CASE target[w] # t
      BY <1>0, <2>6, <3>2, QueueWalks DEF ExitScan
    <3> QED
      BY <3>1, <3>2
  <2>7. CASE ExitDone(t)
    BY <1>0, <2>7, KernelAssumption DEF ExitDone
  <2> QED
    BY <1>9, <2>1, <2>2, <2>3, <2>4, <2>5, <2>6, <2>7
       DEF DriverCallStep, CallStep, TaskSuspend
<1>10. CASE UNCHANGED driverVars
  BY <1>0, <1>10 DEF driverVars, vars, kernelVars
<1> QED
  BY <1>1, <1>2, <1>3, <1>4, <1>5, <1>6, <1>7, <1>8, <1>9, <1>10
     DEF DriverNext, ManagerStep

(* So do those of the calls and of the driver. *)
LEMMA CallTypes ==
  ASSUME DriverTypeOK, RequestsInv, QueuesTypeOK', [DriverNext]_driverVars
  PROVE  /\ WaitTypeOK' /\ disk' \in DiskStatus /\ request' \in Tasks \cup {NULL}
         /\ inRange' \in [Tasks -> BOOLEAN]
         /\ reply' \in [Tasks -> {"none", "accepted", "done", "error"}]
<1>0. /\ WaitTypeOK /\ disk \in DiskStatus /\ request \in Tasks \cup {NULL}
      /\ inRange \in [Tasks -> BOOLEAN]
      /\ reply \in [Tasks -> {"none", "accepted", "done", "error"}]
      /\ suspended' \in QueueOf(Tasks)
      /\ requests \in QueueOf(Tasks)
      /\ Codes \subseteq Int
  BY DispatcherAssumption DEF DriverTypeOK, RequestsInv, QueuesTypeOK
<1>1. CASE UNCHANGED <<waitVars, diskVars>>
  BY <1>0, <1>1 DEF waitVars, diskVars, WaitTypeOK
<1>2. CASE Interrupt
  BY <1>0, <1>2 DEF Interrupt, waitVars, WaitTypeOK, DiskStatus
<1>3. CASE ManagerStep
  <2>1. UNCHANGED <<waitVars, inRange>>
    BY <1>3 DEF ManagerStep, ManagerTurn, Answer, Dequeue, diskVars
  <2>2. /\ disk' \in DiskStatus /\ request' \in Tasks \cup {NULL}
        /\ reply' \in [Tasks -> {"none", "accepted", "done", "error"}]
    <3>1. CASE UNCHANGED <<disk, request, reply>>
      BY <1>0, <3>1
    <3>2. CASE Command(QItem(requests))
      BY <1>0, <3>2, QueueWalks DEF Command, DiskStatus
    <3> QED
      BY <1>3, <3>1, <3>2
         DEF ManagerStep, ManagerTurn, AwaitDisk, Answer, Dequeue, diskVars
  <2> QED
    BY <1>0, <2>1, <2>2 DEF waitVars, WaitTypeOK
<1>4. ASSUME NEW t \in Tasks, DriverUserStep(t)
      PROVE  WaitTypeOK' /\ disk' \in DiskStatus /\ request' \in Tasks \cup {NULL}
             /\ inRange' \in [Tasks -> BOOLEAN]
             /\ reply' \in [Tasks -> {"none", "accepted", "done", "error"}]
  <2>1. CASE BlockCall(t)
    BY <1>0, <2>1 DEF BlockCall, waitVars, WaitTypeOK
  <2>2. CASE UserStep(t) /\ UNCHANGED diskVars
    <3>1. WaitTypeOK'
      <4>1. CASE UNCHANGED waitVars
        BY <1>0, <4>1 DEF waitVars, WaitTypeOK
      <4>2. CASE \E u \in Tasks : Wait(t, u)
        BY <1>0, <4>2 DEF Wait, WaitTypeOK
      <4>3. CASE \E d \in 0..MaxSleep : Sleep(t, d)
        BY <1>0, <4>3 DEF Sleep, waitVars, WaitTypeOK
      <4>4. CASE \E code \in Codes : Exit(t, code)
        BY <1>0, <4>4 DEF Exit, WaitTypeOK
      <4> QED
        BY <2>2, <4>1, <4>2, <4>3, <4>4 DEF UserStep, Create
    <3> QED
      BY <1>0, <2>2, <3>1 DEF diskVars
  <2> QED
    BY <1>4, <2>1, <2>2 DEF DriverUserStep
<1>5. ASSUME NEW t \in Tasks, CallStep(t), UNCHANGED diskVars
      PROVE  WaitTypeOK'
  <2>1. CASE UNCHANGED waitVars
    BY <1>0, <2>1 DEF waitVars, WaitTypeOK
  <2>2. CASE ExitHead(t)
    BY <1>0, <2>2, QueueWalks DEF ExitHead, WaitTypeOK
  <2>3. ASSUME NEW w \in Tasks, ExitScan(t, w)
        PROVE  WaitTypeOK'
    BY <1>0, <2>3, QueueWalks DEF ExitScan, WaitTypeOK
  <2> QED
    BY <1>5, <2>1, <2>2, <2>3 DEF CallStep, Return, ExitDone
<1> QED
  BY <1>0, <1>1, <1>2, <1>3, <1>4, <1>5
     DEF DriverNext, DriverLoop, DriverTimer, Timer, DriverRun, DriverCallStep, BlockReturn,
         diskVars, driverVars, vars

LEMMA RequestsStep ==
  ASSUME RequestsInv, [DriverNext]_driverVars
  PROVE  RequestsInv'
BY ProcessorSteps, CallSteps, UserSteps, ManagerSteps DEF DriverNext

LEMMA TypeInit ==
  ASSUME DriverInit
  PROVE  DriverTypeOK
<1>1. RequestsInv
  BY RequestsInit
<1>2. /\ <<Disk, User>> \in Seq(Tasks)
      /\ EmptyQueue \in QueueOf(Tasks) /\ QAdd(EmptyQueue, Disk) \in QueueOf(Tasks)
  BY KernelAssumption, EmptyQueueProperties, QAddProperties
<1>3. TcbTypeOK /\ QueuesTypeOK /\ CpuTypeOK
  BY <1>2, KernelAssumption
     DEF DriverInit, Init, KernelInit, TcbInit, QueuesInit, ProcessorInit, TcbTypeOK,
         QueuesTypeOK, CpuTypeOK, Status, KernelPC
<1>4. WaitTypeOK
  BY DEF DriverInit, Init, WaitTypeOK
<1> QED
  BY <1>1, <1>3, <1>4 DEF DriverTypeOK, RequestsInv, DriverInit, DiskStatus

LEMMA TypesStep ==
  ASSUME DriverTypeOK, RequestsInv, [DriverNext]_driverVars
  PROVE  DriverTypeOK' /\ RequestsInv'
<1>1. RequestsInv'
  BY RequestsStep
<1>2. TcbTypeOK' /\ QueuesTypeOK' /\ CpuTypeOK'
  BY KernelTypes
<1> QED
  BY <1>1, <1>2, CallTypes DEF DriverTypeOK, RequestsInv

(* Every variable keeps its type, wherever the quantum ends and whatever   *)
(* blocks are asked for: the manager's local request is never NULL when it *)
(* is read, because the oldest request stays in the queue until then.      *)
THEOREM DriverTypeCorrect == DriverSpec => []DriverTypeOK
<1>1. DriverInit => DriverTypeOK /\ RequestsInv
  BY RequestsInit, TypeInit
<1>2. DriverTypeOK /\ RequestsInv /\ [DriverNext]_driverVars => (DriverTypeOK /\ RequestsInv)'
  BY TypesStep
<1> QED
  BY <1>1, <1>2, PTL DEF DriverSpec

(***************************************************************************)
(* What holds where no quantum ends inside a kernel call.  The             *)
(* abbreviations are seen through from here on.                            *)
(***************************************************************************)
USE KernelAssumption, DispatcherAssumption
USE DEF TcbTypeOK, QueuesTypeOK, CpuTypeOK, PcTypeOK, WaitTypeOK, Status, KernelPC,
        SuspendPC, ExitPC, DispatcherPC, DispatcherCont, ManagerPC, DriverPC, DriverCont,
        DiskStatus, loopVars, queueVars, waitVars, diskVars, QHas, Active, Ready, Asleep,
        InWait, Held, InBlock, Unanswered, HasRequest, At, Goto, SwitchToKernel

(* The parts of DriverInv that are not about types. *)
CallParts ==
  /\ CpuInv
  /\ CallsAtomic
  /\ ReadyOnce
  /\ AsleepInv
  /\ TargetInv
  /\ ManagerInv
  /\ CallersInv
  /\ DriverStopped

(* The manager's request is in the queue. *)
LEMMA RequestQueued ==
  ASSUME DriverInv, HasRequest
  PROVE  request \in Tasks /\ QHas(requests, request)
<1>1. /\ requests.items # << >> /\ request = requests.items[1]
      /\ requests.items \in Seq(Tasks) /\ DOMAIN requests.items = 1..Len(requests.items)
      /\ Len(requests.items) \in Nat /\ ToSet(requests.items) \subseteq Tasks
  BY QueueType DEF DriverInv, RequestsInv
<1>2. 1 \in DOMAIN requests.items
  BY <1>1, EmptySeq
<1> QED
  BY <1>1, <1>2 DEF ToSet

(* A task that yields is in its own code. *)
LEMMA YieldParts ==
  ASSUME ~ KernelPreemption, DriverInv,
         NEW t \in Tasks, current = t, pc[t] = "user", TaskYield(t),
         UNCHANGED <<waitVars, diskVars>>
  PROVE  CallParts'
<1>1. /\ ready' = Append(ready, t) /\ ToSet(ready') = ToSet(ready) \cup {t}
      /\ IsInjective(ready')
  BY AppendSet DEF TaskYield, DriverInv, DriverTypeOK, ReadyOnce
<1>2. /\ status' = [status EXCEPT ![t] = "READY"] /\ status \in [Tasks -> Status]
      /\ current' = TaskKernel /\ kpc = "run"
      /\ UNCHANGED <<sleeping, suspended, sleepers, pc, cont, kpc, nextTask, target,
                     requests, disk, request, inRange, reply>>
  BY DEF TaskYield, DriverInv, DriverTypeOK, CpuInv
<1>3. CpuInv'
  BY <1>1, <1>2 DEF DriverInv, CpuInv
<1>4. CallsAtomic'
  BY <1>1, <1>2 DEF DriverInv, CallsAtomic
<1>5. ReadyOnce'
  BY <1>1, <1>2 DEF DriverInv, ReadyOnce
<1>6. AsleepInv'
  BY <1>1, <1>2 DEF DriverInv, AsleepInv
<1>7. TargetInv'
  BY <1>1, <1>2 DEF DriverInv, TargetInv
<1>8. ManagerInv'
  BY <1>1, <1>2 DEF DriverInv, ManagerInv
<1>9. CallersInv'
  BY <1>1, <1>2 DEF DriverInv, CallersInv
<1>10. DriverStopped'
  BY <1>1, <1>2 DEF DriverInv, DriverStopped
<1> QED
  BY <1>3, <1>4, <1>5, <1>6,
     <1>7, <1>8, <1>9, <1>10 DEF CallParts

(* task_create. *)
LEMMA CreateParts ==
  ASSUME ~ KernelPreemption, DriverInv,
         NEW t \in Tasks, NEW new \in Tasks, Create(t, new), UNCHANGED diskVars
  PROVE  CallParts'
<1>1. /\ ready' = Append(ready, new) /\ ToSet(ready') = ToSet(ready) \cup {new}
      /\ pc[new] = "none"
      /\ new \notin ToSet(ready) /\ IsInjective(ready')
  BY AppendSet DEF Create, TaskCreate, Created, DriverInv, DriverTypeOK, ReadyOnce
<1>2. /\ status' = [status EXCEPT ![new] = "READY"] /\ status \in [Tasks -> Status]
      /\ pc' = [pc EXCEPT ![new] = "user"] /\ pc \in [Tasks -> DriverPC]
      /\ current = t /\ kpc = "run" /\ pc[t] = "user"
      /\ UNCHANGED <<sleeping, suspended, sleepers, current, cont, kpc, nextTask, target,
                     requests, disk, request, inRange, reply>>
  BY DEF Create, TaskCreate, DriverInv, DriverTypeOK, CpuInv
<1>3. CpuInv'
  BY <1>1, <1>2 DEF DriverInv, CpuInv
<1>4. CallsAtomic'
  BY <1>1, <1>2 DEF DriverInv, CallsAtomic
<1>5. ReadyOnce'
  BY <1>1, <1>2 DEF DriverInv, ReadyOnce
<1>6. AsleepInv'
  BY <1>1, <1>2 DEF DriverInv, AsleepInv
<1>7. TargetInv'
  BY <1>1, <1>2 DEF DriverInv, TargetInv
<1>8. ManagerInv'
  BY <1>1, <1>2 DEF DriverInv, ManagerInv
<1>9. CallersInv'
  BY <1>1, <1>2 DEF DriverInv, CallersInv
<1>10. DriverStopped'
  BY <1>1, <1>2 DEF DriverInv, DriverStopped
<1> QED
  BY <1>3, <1>4, <1>5, <1>6,
     <1>7, <1>8, <1>9, <1>10 DEF CallParts

(* task_wait. *)
LEMMA WaitParts ==
  ASSUME ~ KernelPreemption, DriverInv,
         NEW t \in Tasks, NEW u \in Tasks, t # Disk, Wait(t, u), UNCHANGED diskVars
  PROVE  CallParts'
<1>1. /\ pc' = [pc EXCEPT ![t] = "suspend"] /\ cont' = [cont EXCEPT ![t] = "wait_ret"]
      /\ target' = [target EXCEPT ![t] = u] /\ target \in [Tasks -> Tasks \cup {TaskKernel}]
      /\ pc \in [Tasks -> DriverPC] /\ cont \in [Tasks -> DriverCont]
  BY DEF Wait, DriverInv, DriverTypeOK
<1>2. /\ current = t /\ kpc = "run" /\ pc[t] = "user"
      /\ UNCHANGED <<status, sleeping, ready, suspended, sleepers, current, kpc, nextTask,
                     requests, disk, request, inRange, reply>>
  BY DEF Wait, DriverInv, CpuInv
<1>3. CpuInv'
  BY <1>1, <1>2 DEF DriverInv, CpuInv
<1>4. CallsAtomic'
  BY <1>1, <1>2 DEF DriverInv, CallsAtomic
<1>5. ReadyOnce'
  BY <1>1, <1>2 DEF DriverInv, ReadyOnce
<1>6. AsleepInv'
  BY <1>1, <1>2 DEF DriverInv, AsleepInv
<1>7. TargetInv'
  BY <1>1, <1>2 DEF DriverInv, TargetInv
<1>8. ManagerInv'
  BY <1>1, <1>2 DEF DriverInv, ManagerInv
<1>9. CallersInv'
  BY <1>1, <1>2 DEF DriverInv, CallersInv
<1>10. DriverStopped'
  BY <1>1, <1>2 DEF DriverInv, DriverStopped
<1> QED
  BY <1>3, <1>4, <1>5, <1>6,
     <1>7, <1>8, <1>9, <1>10 DEF CallParts

(* task_sleep. *)
LEMMA SleepParts ==
  ASSUME ~ KernelPreemption, DriverInv,
         NEW t \in Tasks, NEW d \in 0..MaxSleep, t # Disk, Sleep(t, d),
         UNCHANGED diskVars
  PROVE  CallParts'
<1>1. /\ pc' = [pc EXCEPT ![t] = "suspend"] /\ cont' = [cont EXCEPT ![t] = "sleep_ret"]
      /\ sleeping' = [sleeping EXCEPT ![t] = TRUE] /\ sleeping \in [Tasks -> BOOLEAN]
      /\ pc \in [Tasks -> DriverPC] /\ cont \in [Tasks -> DriverCont]
  BY DEF Sleep, DriverInv, DriverTypeOK
<1>2. /\ current = t /\ kpc = "run" /\ pc[t] = "user"
      /\ UNCHANGED <<status, ready, suspended, sleepers, current, kpc, nextTask, target,
                     requests, disk, request, inRange, reply>>
  BY DEF Sleep, DriverInv, CpuInv
<1>3. CpuInv'
  BY <1>1, <1>2 DEF DriverInv, CpuInv
<1>4. CallsAtomic'
  BY <1>1, <1>2 DEF DriverInv, CallsAtomic
<1>5. ReadyOnce'
  BY <1>1, <1>2 DEF DriverInv, ReadyOnce
<1>6. AsleepInv'
  BY <1>1, <1>2 DEF DriverInv, AsleepInv
<1>7. TargetInv'
  BY <1>1, <1>2 DEF DriverInv, TargetInv
<1>8. ManagerInv'
  BY <1>1, <1>2 DEF DriverInv, ManagerInv
<1>9. CallersInv'
  BY <1>1, <1>2 DEF DriverInv, CallersInv
<1>10. DriverStopped'
  BY <1>1, <1>2 DEF DriverInv, DriverStopped
<1> QED
  BY <1>3, <1>4, <1>5, <1>6,
     <1>7, <1>8, <1>9, <1>10 DEF CallParts

(* task_exit begins. *)
LEMMA ExitParts ==
  ASSUME ~ KernelPreemption, DriverInv,
         NEW t \in Tasks, NEW code \in Codes, t # Disk, Exit(t, code),
         UNCHANGED diskVars
  PROVE  CallParts'
<1>1. /\ pc' = [pc EXCEPT ![t] = "exit_head"] /\ pc \in [Tasks -> DriverPC]
      /\ status' = [status EXCEPT ![t] = "FINISHED"] /\ status \in [Tasks -> Status]
  BY DEF Exit, DriverInv, DriverTypeOK
<1>2. /\ current = t /\ kpc = "run" /\ pc[t] = "user"
      /\ UNCHANGED <<sleeping, ready, suspended, sleepers, current, kpc, nextTask, target,
                     cont, requests, disk, request, inRange, reply>>
  BY DEF Exit, DriverInv, CpuInv
<1>3. CpuInv'
  BY <1>1, <1>2 DEF DriverInv, CpuInv
<1>4. CallsAtomic'
  BY <1>1, <1>2 DEF DriverInv, CallsAtomic
<1>5. ReadyOnce'
  BY <1>1, <1>2 DEF DriverInv, ReadyOnce
<1>6. AsleepInv'
  BY <1>1, <1>2 DEF DriverInv, AsleepInv
<1>7. TargetInv'
  BY <1>1, <1>2 DEF DriverInv, TargetInv
<1>8. ManagerInv'
  BY <1>1, <1>2 DEF DriverInv, ManagerInv
<1>9. CallersInv'
  BY <1>1, <1>2 DEF DriverInv, CallersInv
<1>10. DriverStopped'
  BY <1>1, <1>2 DEF DriverInv, DriverStopped
<1> QED
  BY <1>3, <1>4, <1>5, <1>6,
     <1>7, <1>8, <1>9, <1>10 DEF CallParts

(* block_read and block_write queue their request. *)
LEMMA BlockCallParts ==
  ASSUME ~ KernelPreemption, DriverInv,
         NEW t \in Tasks, t # Disk, BlockCall(t)
  PROVE  CallParts'
<1>1. /\ pc' = [pc EXCEPT ![t] = "suspend"] /\ cont' = [cont EXCEPT ![t] = "block_ret"]
      /\ reply' = [reply EXCEPT ![t] = "none"]
      /\ pc \in [Tasks -> DriverPC] /\ cont \in [Tasks -> DriverCont]
      /\ reply \in [Tasks -> {"none", "accepted", "done", "error"}]
  BY DEF BlockCall, DriverInv, DriverTypeOK
<1>2. /\ current = t /\ kpc = "run" /\ pc[t] = "user"
      /\ UNCHANGED <<status, sleeping, ready, suspended, sleepers, current, kpc, nextTask,
                     target, disk, request>>
  BY DEF BlockCall, DriverInv, CpuInv
<1>3. t \notin ToSet(requests.items)
  BY <1>2 DEF DriverInv, CallersInv, CallsAtomic
<1>4. /\ ToSet(requests'.items) = ToSet(requests.items) \cup {t}
      /\ IsInjective(requests'.items)
  <2>1. requests' = QAdd(requests, t) /\ requests \in QueueOf(Tasks) /\ IsInjective(requests.items)
    BY DEF BlockCall, DriverInv, RequestsInv, CallersInv
  <2> QED
    BY <1>3, <2>1, QAddProperties
<1>5. /\ t # request \/ pc[Disk] # "dequeue"
      /\ pc[Disk] \in {"answer", "dequeue"} => t # request
  BY <1>2, <1>3, RequestQueued DEF DriverInv, CallsAtomic
<1>6. CpuInv'
  BY <1>1, <1>2, <1>3, <1>4, <1>5 DEF DriverInv, CpuInv
<1>7. CallsAtomic'
  BY <1>1, <1>2, <1>3, <1>4, <1>5 DEF DriverInv, CallsAtomic
<1>8. ReadyOnce'
  BY <1>1, <1>2, <1>3, <1>4, <1>5 DEF DriverInv, ReadyOnce
<1>9. AsleepInv'
  BY <1>1, <1>2, <1>3, <1>4, <1>5 DEF DriverInv, AsleepInv
<1>10. TargetInv'
  BY <1>1, <1>2, <1>3, <1>4, <1>5 DEF DriverInv, TargetInv
<1>11. ManagerInv'
  BY <1>1, <1>2, <1>3, <1>4, <1>5 DEF DriverInv, ManagerInv
<1>12. CallersInv'
  BY <1>1, <1>2, <1>3, <1>4, <1>5 DEF DriverInv, CallersInv
<1>13. DriverStopped'
  BY <1>1, <1>2, <1>3, <1>4, <1>5 DEF DriverInv, DriverStopped
<1> QED
  BY <1>6, <1>7, <1>8, <1>9,
     <1>10, <1>11, <1>12, <1>13 DEF CallParts

(* A call returns. *)
LEMMA ReturnParts ==
  ASSUME ~ KernelPreemption, DriverInv,
         NEW t \in Tasks, Return(t) \/ BlockReturn(t), UNCHANGED diskVars
  PROVE  CallParts'
<1>1. /\ pc' = [pc EXCEPT ![t] = "user"] /\ pc \in [Tasks -> DriverPC]
      /\ pc[t] \in {"wait_ret", "sleep_ret", "block_ret"} /\ current = t /\ kpc = "run"
  BY DEF Return, BlockReturn, DriverInv, DriverTypeOK, CpuInv
<1>2. UNCHANGED <<status, sleeping, ready, suspended, sleepers, current, cont, kpc, nextTask,
                  target, requests, disk, request, inRange, reply>>
  BY DEF Return, BlockReturn
<1>3. CpuInv'
  BY <1>1, <1>2 DEF DriverInv, CpuInv
<1>4. CallsAtomic'
  BY <1>1, <1>2 DEF DriverInv, CallsAtomic
<1>5. ReadyOnce'
  BY <1>1, <1>2 DEF DriverInv, ReadyOnce
<1>6. AsleepInv'
  BY <1>1, <1>2 DEF DriverInv, AsleepInv
<1>7. TargetInv'
  <2>1. \A v \in Tasks : target[v] # TaskKernel => target[v] \in Tasks
    BY DEF DriverInv, DriverTypeOK
  <2>2. \A v \in Tasks : pc[v] = "exit_scan" => v # t /\ current = v
    BY <1>1 DEF DriverInv, CallsAtomic
  <2>3. ASSUME NEW v \in Tasks, target[v] # TaskKernel, v # t
        PROVE  (Held(v) \/ pc[target[v]] = "gone"
                 \/ (pc[target[v]] = "exit_scan" /\ pc[v] = "wait_ret"))'
    BY <1>1, <1>2, <2>1, <2>2, <2>3 DEF DriverInv, TargetInv
  <2>4. target[t] # TaskKernel => pc'[target[t]] = "gone"
    BY <1>1, <2>1, <2>2 DEF DriverInv, TargetInv
  <2> QED
    BY <1>2, <2>3, <2>4 DEF TargetInv
<1>8. ManagerInv'
  BY <1>1, <1>2 DEF DriverInv, ManagerInv
<1>9. CallersInv'
  BY <1>1, <1>2 DEF DriverInv, CallersInv
<1>10. DriverStopped'
  BY <1>1, <1>2 DEF DriverInv, DriverStopped
<1> QED
  BY <1>3, <1>4, <1>5, <1>6,
     <1>7, <1>8, <1>9, <1>10 DEF CallParts

(* task_suspend. *)
LEMMA SuspendStatusParts ==
  ASSUME ~ KernelPreemption, DriverInv,
         NEW t \in Tasks, SuspendStatus(t), UNCHANGED <<waitVars, diskVars>>
  PROVE  CallParts'
<1>1. /\ pc' = [pc EXCEPT ![t] = "enqueue"] /\ pc \in [Tasks -> DriverPC]
      /\ status' = [status EXCEPT ![t] = "SUSPENDED"] /\ status \in [Tasks -> Status]
      /\ pc[t] = "suspend" /\ current = t /\ kpc = "run"
  BY DEF SuspendStatus, DriverInv, DriverTypeOK, CpuInv
<1>2. UNCHANGED <<sleeping, ready, suspended, sleepers, current, cont, kpc, nextTask,
                  target, requests, disk, request, inRange, reply>>
  BY DEF SuspendStatus
<1>3. CpuInv'
  BY <1>1, <1>2 DEF DriverInv, CpuInv
<1>4. CallsAtomic'
  BY <1>1, <1>2 DEF DriverInv, CallsAtomic
<1>5. ReadyOnce'
  BY <1>1, <1>2 DEF DriverInv, ReadyOnce
<1>6. AsleepInv'
  BY <1>1, <1>2 DEF DriverInv, AsleepInv
<1>7. TargetInv'
  BY <1>1, <1>2 DEF DriverInv, TargetInv
<1>8. ManagerInv'
  BY <1>1, <1>2 DEF DriverInv, ManagerInv
<1>9. CallersInv'
  BY <1>1, <1>2 DEF DriverInv, CallersInv
<1>10. DriverStopped'
  BY <1>1, <1>2 DEF DriverInv, DriverStopped
<1> QED
  BY <1>3, <1>4, <1>5, <1>6,
     <1>7, <1>8, <1>9, <1>10 DEF CallParts
LEMMA SuspendEnqueueParts ==
  ASSUME ~ KernelPreemption, DriverInv,
         NEW t \in Tasks, SuspendEnqueue(t), UNCHANGED <<waitVars, diskVars>>
  PROVE  CallParts'
<1>1. /\ pc' = [pc EXCEPT ![t] = "switch"] /\ pc \in [Tasks -> DriverPC]
      /\ pc[t] = "enqueue" /\ current = t /\ kpc = "run"
  BY DEF SuspendEnqueue, DriverInv, DriverTypeOK, CpuInv
<1>2. UNCHANGED <<status, sleeping, ready, current, cont, kpc, nextTask,
                  target, requests, disk, request, inRange, reply>>
  BY DEF SuspendEnqueue
<1>3. \/ sleepers' = sleepers
      \/ /\ cont[t] = "sleep_ret" /\ t # Disk
         /\ ToSet(sleepers'.items) = ToSet(sleepers.items) \cup {t}
         /\ IsInjective(sleepers'.items)
  <2>1. CASE cont[t] = "sleep_ret"
    <3>1. sleepers' = QAdd(sleepers, t) /\ sleepers \in QueueOf(Tasks)
      BY <2>1 DEF SuspendEnqueue, DriverInv, DriverTypeOK
    <3>2. t \notin ToSet(sleepers.items) /\ IsInjective(sleepers.items) /\ t # Disk
      BY <1>1, <2>1 DEF DriverInv, AsleepInv, ManagerInv
    <3> QED
      BY <2>1, <3>1, <3>2, QAddProperties
  <2>2. CASE cont[t] # "sleep_ret"
    BY <2>2 DEF SuspendEnqueue
  <2> QED
    BY <2>1, <2>2
<1>4. cont[t] = "sleep_ret" => sleeping[t]
  BY <1>1 DEF DriverInv, AsleepInv
<1>5. CpuInv'
  BY <1>1, <1>2, <1>3, <1>4 DEF DriverInv, CpuInv
<1>6. CallsAtomic'
  BY <1>1, <1>2, <1>3, <1>4 DEF DriverInv, CallsAtomic
<1>7. ReadyOnce'
  BY <1>1, <1>2, <1>3, <1>4 DEF DriverInv, ReadyOnce
<1>8. AsleepInv'
  BY <1>1, <1>2, <1>3, <1>4 DEF DriverInv, AsleepInv
<1>9. TargetInv'
  BY <1>1, <1>2, <1>3, <1>4 DEF DriverInv, TargetInv
<1>10. ManagerInv'
  BY <1>1, <1>2, <1>3, <1>4 DEF DriverInv, ManagerInv
<1>11. CallersInv'
  BY <1>1, <1>2, <1>3, <1>4 DEF DriverInv, CallersInv
<1>12. DriverStopped'
  BY <1>1, <1>2, <1>3, <1>4 DEF DriverInv, DriverStopped
<1> QED
  BY <1>5, <1>6, <1>7, <1>8,
     <1>9, <1>10, <1>11, <1>12 DEF CallParts

LEMMA SuspendSwitchParts ==
  ASSUME ~ KernelPreemption, DriverInv,
         NEW t \in Tasks, SuspendSwitch(t), UNCHANGED <<waitVars, diskVars>>
  PROVE  CallParts'
<1>1. /\ pc' = [pc EXCEPT ![t] = cont[t]] /\ pc \in [Tasks -> DriverPC]
      /\ cont[t] \in DriverCont
      /\ pc[t] = "switch" /\ current = t /\ current' = TaskKernel /\ kpc = "run"
      /\ status[t] = "SUSPENDED" /\ t \notin ToSet(ready)
  BY DEF SuspendSwitch, DriverInv, DriverTypeOK, CpuInv, CallsAtomic, ReadyOnce
<1>2. UNCHANGED <<status, sleeping, ready, suspended, sleepers, cont, kpc, nextTask,
                  target, requests, disk, request, inRange, reply>>
  BY DEF SuspendSwitch
<1>3. CpuInv'
  BY <1>1, <1>2 DEF DriverInv, CpuInv
<1>4. CallsAtomic'
  BY <1>1, <1>2 DEF DriverInv, CallsAtomic
<1>5. ReadyOnce'
  BY <1>1, <1>2 DEF DriverInv, ReadyOnce
<1>6. AsleepInv'
  BY <1>1, <1>2 DEF DriverInv, AsleepInv
<1>7. TargetInv'
  BY <1>1, <1>2 DEF DriverInv, TargetInv
<1>8. ManagerInv'
  BY <1>1, <1>2 DEF DriverInv, ManagerInv
<1>9. CallersInv'
  BY <1>1, <1>2 DEF DriverInv, CallersInv
<1>10. DriverStopped'
  BY <1>1, <1>2 DEF DriverInv, DriverStopped
<1> QED
  BY <1>3, <1>4, <1>5, <1>6,
     <1>7, <1>8, <1>9, <1>10 DEF CallParts

(* The walk of task_exit begins, and ends. *)
LEMMA ExitHeadParts ==
  ASSUME ~ KernelPreemption, DriverInv,
         NEW t \in Tasks, ExitHead(t), UNCHANGED diskVars
  PROVE  CallParts'
<1>1. /\ pc' = [pc EXCEPT ![t] = "exit_scan"] /\ pc \in [Tasks -> DriverPC]
      /\ pc[t] = "exit_head" /\ current = t /\ kpc = "run"
  BY DEF ExitHead, DriverInv, DriverTypeOK, CpuInv
<1>2. UNCHANGED <<status, sleeping, ready, sleepers, current, cont, kpc, nextTask,
                  target, requests, disk, request, inRange, reply>>
  BY DEF ExitHead
<1>3. CpuInv'
  BY <1>1, <1>2 DEF DriverInv, CpuInv
<1>4. CallsAtomic'
  BY <1>1, <1>2 DEF DriverInv, CallsAtomic
<1>5. ReadyOnce'
  BY <1>1, <1>2 DEF DriverInv, ReadyOnce
<1>6. AsleepInv'
  BY <1>1, <1>2 DEF DriverInv, AsleepInv
<1>7. TargetInv'
  BY <1>1, <1>2 DEF DriverInv, TargetInv
<1>8. ManagerInv'
  BY <1>1, <1>2 DEF DriverInv, ManagerInv
<1>9. CallersInv'
  BY <1>1, <1>2 DEF DriverInv, CallersInv
<1>10. DriverStopped'
  BY <1>1, <1>2 DEF DriverInv, DriverStopped
<1> QED
  BY <1>3, <1>4, <1>5, <1>6,
     <1>7, <1>8, <1>9, <1>10 DEF CallParts

LEMMA ExitDoneParts ==
  ASSUME ~ KernelPreemption, DriverInv,
         NEW t \in Tasks, ExitDone(t), UNCHANGED diskVars
  PROVE  CallParts'
<1>1. /\ pc' = [pc EXCEPT ![t] = "gone"] /\ pc \in [Tasks -> DriverPC]
      /\ pc[t] = "exit_scan" /\ current = t /\ current' = TaskKernel /\ kpc = "run"
      /\ t \notin ToSet(ready)
  BY DEF ExitDone, DriverInv, DriverTypeOK, CpuInv, ReadyOnce
<1>2. UNCHANGED <<status, sleeping, ready, suspended, sleepers, cont, kpc, nextTask,
                  target, requests, disk, request, inRange, reply>>
  BY DEF ExitDone
<1>3. CpuInv'
  BY <1>1, <1>2 DEF DriverInv, CpuInv
<1>4. CallsAtomic'
  BY <1>1, <1>2 DEF DriverInv, CallsAtomic
<1>5. ReadyOnce'
  BY <1>1, <1>2 DEF DriverInv, ReadyOnce
<1>6. AsleepInv'
  BY <1>1, <1>2 DEF DriverInv, AsleepInv
<1>7. TargetInv'
  BY <1>1, <1>2 DEF DriverInv, TargetInv
<1>8. ManagerInv'
  BY <1>1, <1>2 DEF DriverInv, ManagerInv
<1>9. CallersInv'
  BY <1>1, <1>2 DEF DriverInv, CallersInv
<1>10. DriverStopped'
  BY <1>1, <1>2 DEF DriverInv, DriverStopped
<1> QED
  BY <1>3, <1>4, <1>5, <1>6,
     <1>7, <1>8, <1>9, <1>10 DEF CallParts

(* Nothing moves but the iterator of the sleepers and the dispatcher's loop. *)
LEMMA IdleParts ==
  ASSUME DriverInv, CpuInv', DriverStopped', sleepers'.items = sleepers.items,
         UNCHANGED <<status, sleeping, ready, current, pc, cont, target,
                     requests, disk, request, reply>>
  PROVE  CallParts'
<1>1. CallsAtomic' /\ ReadyOnce' /\ TargetInv' /\ ManagerInv' /\ CallersInv'
  BY DEF DriverInv, CallsAtomic, ReadyOnce, TargetInv, ManagerInv, CallersInv
<1>2. AsleepInv'
  BY DEF DriverInv, AsleepInv
<1> QED
  BY <1>1, <1>2 DEF CallParts

(* task_awake of a suspended task makes it ready and takes it from the sleepers. *)
LEMMA Awoken ==
  ASSUME DriverInv, NEW w \in Tasks, status[w] = "SUSPENDED", ~ Active(w), AwakeTask(w),
         sleepers'.items = AwakeSleepers(w).items
  PROVE  /\ ToSet(ready') = ToSet(ready) \cup {w} /\ IsInjective(ready')
         /\ status' = [status EXCEPT ![w] = "READY"] /\ status \in [Tasks -> Status]
         /\ sleeping' = [sleeping EXCEPT ![w] = FALSE] /\ sleeping \in [Tasks -> BOOLEAN]
         /\ ToSet(sleepers'.items) = ToSet(sleepers.items) \ {w}
         /\ IsInjective(sleepers'.items)
<1>1. /\ ready' = Append(ready, w)
      /\ status' = [status EXCEPT ![w] = "READY"] /\ status \in [Tasks -> Status]
      /\ sleeping' = [sleeping EXCEPT ![w] = FALSE] /\ sleeping \in [Tasks -> BOOLEAN]
  BY DEF AwakeTask, DriverInv, DriverTypeOK
<1>2. ToSet(ready') = ToSet(ready) \cup {w} /\ IsInjective(ready')
  BY <1>1, AppendSet DEF DriverInv, DriverTypeOK, ReadyOnce
<1>3. sleepers \in QueueOf(Tasks) /\ IsInjective(sleepers.items)
  BY DEF DriverInv, DriverTypeOK, AsleepInv
<1>4. CASE sleeping[w]
  <2>1. sleepers'.items = QDel(sleepers, w).items
    BY <1>4 DEF AwakeSleepers
  <2> QED
    BY <1>1, <1>2, <1>3, <2>1, QDelProperties
<1>5. CASE ~ sleeping[w]
  <2>1. sleepers'.items = sleepers.items /\ w \notin ToSet(sleepers.items)
    BY <1>5 DEF AwakeSleepers, DriverInv, AsleepInv
  <2> QED
    BY <1>1, <1>2, <1>3, <2>1
<1> QED
  BY <1>4, <1>5

(* task_awake leaves any other task alone. *)
LEMMA LeftAlone ==
  ASSUME NEW w \in Tasks, status[w] # "SUSPENDED", AwakeTask(w)
  PROVE  UNCHANGED <<status, sleeping, ready>> /\ AwakeSleepers(w) = sleepers
BY DEF AwakeTask, AwakeSleepers

(* The dispatcher runs the kernel's own code. *)
LEMMA KernelRuns ==
  ASSUME DriverInv, kpc # "run"
  PROVE  current = TaskKernel
BY DEF DriverInv, DriverTypeOK, CpuInv

(* The walk over the sleepers comes to w. *)
LEMMA ScanParts ==
  ASSUME ~ KernelPreemption, DriverInv, NEW w \in Tasks, ScanSleeper(w),
         UNCHANGED <<target, requests, disk, request, reply>>
  PROVE  CallParts'
<1>1. /\ kpc = "scan" /\ current = TaskKernel
      /\ UNCHANGED <<current, pc, cont, kpc, nextTask>>
  BY KernelRuns DEF ScanSleeper
<1>2. /\ w # Disk /\ cont[w] = "sleep_ret" /\ pc[w] = "sleep_ret" /\ ~ Active(w)
      /\ sleepers \in QueueOf(Tasks)
  <2>1. sleepers \in QueueOf(Tasks) /\ w = QItem(sleepers)
    BY DEF ScanSleeper, DriverInv, DriverTypeOK
  <2>2. w \in ToSet(sleepers.items)
    BY <2>1, QItemProperties
  <2> QED
    BY <1>1, <2>1, <2>2 DEF DriverInv, AsleepInv, CallsAtomic
<1>3. CASE left[w] = 0 /\ status[w] = "SUSPENDED"
  <2>1. AwakeTask(w) /\ sleepers'.items = AwakeSleepers(w).items
    <3>1. sleepers' = QNext(AwakeSleepers(w)) /\ AwakeTask(w)
      BY <1>3 DEF ScanSleeper
    <3>2. AwakeSleepers(w) \in QueueOf(Tasks)
      BY <1>2, QDelType DEF AwakeSleepers
    <3> QED
      BY <3>1, <3>2, QWalkProperties
  <2>2. /\ ToSet(ready') = ToSet(ready) \cup {w} /\ IsInjective(ready')
        /\ status' = [status EXCEPT ![w] = "READY"] /\ status \in [Tasks -> Status]
        /\ sleeping' = [sleeping EXCEPT ![w] = FALSE] /\ sleeping \in [Tasks -> BOOLEAN]
        /\ ToSet(sleepers'.items) = ToSet(sleepers.items) \ {w}
        /\ IsInjective(sleepers'.items)
    BY <1>2, <1>3, <2>1, Awoken
  <2>3. CpuInv'
    BY <1>1, <1>2, <2>2 DEF DriverInv, CpuInv
  <2>4. CallsAtomic'
    BY <1>1, <1>2, <2>2 DEF DriverInv, CallsAtomic
  <2>5. ReadyOnce'
    BY <1>1, <1>2, <2>2 DEF DriverInv, ReadyOnce
  <2>6. AsleepInv'
    BY <1>1, <1>2, <2>2 DEF DriverInv, AsleepInv
  <2>7. TargetInv'
    BY <1>1, <1>2, <2>2 DEF DriverInv, TargetInv
  <2>8. ManagerInv'
    BY <1>1, <1>2, <2>2 DEF DriverInv, ManagerInv
  <2>9. CallersInv'
    BY <1>1, <1>2, <2>2 DEF DriverInv, CallersInv
  <2>10. DriverStopped'
    BY <1>1, <1>2, <2>2 DEF DriverInv, DriverStopped
  <2> QED
    BY <2>3, <2>4, <2>5, <2>6,
       <2>7, <2>8, <2>9, <2>10 DEF CallParts
<1>4. CASE left[w] # 0 \/ status[w] # "SUSPENDED"
  <2>1. UNCHANGED <<status, sleeping, ready>> /\ sleepers' = QNext(sleepers)
    BY <1>4, LeftAlone DEF ScanSleeper
  <2>2. sleepers'.items = sleepers.items
    BY <1>2, <2>1, QWalkProperties
  <2>3. CpuInv' /\ DriverStopped'
    BY <1>1 DEF CpuInv, DriverStopped
  <2> QED
    BY <1>1, <2>1, <2>2, <2>3, IdleParts
<1> QED
  BY <1>3, <1>4

(* A turn of the dispatcher's loop that runs nobody. *)
LEMMA LoopParts ==
  ASSUME ~ KernelPreemption, DriverInv, DriverLoop
  PROVE  CallParts'
<1>0. UNCHANGED <<target, requests, disk, request, reply>>
  BY DEF DriverLoop
<1>1. CASE AfterRun \/ EmptyTurn(Pending)
  <2>1. /\ sleepers' = sleepers \/ sleepers' = QHead(sleepers)
        /\ UNCHANGED <<status, sleeping, ready, current, pc, cont>>
        /\ kpc' \notin {"run", "stopped"}
        /\ current = TaskKernel
    BY <1>1, KernelRuns DEF AfterRun, EmptyTurn
  <2>2. sleepers'.items = sleepers.items
    BY <2>1, QWalkProperties DEF DriverInv, DriverTypeOK
  <2>3. CpuInv' /\ DriverStopped'
    BY <2>1 DEF CpuInv, DriverStopped
  <2> QED
    BY <1>0, <2>1, <2>2, <2>3, IdleParts
<1>2. CASE ScanEnd \/ Stop(Pending)
  <2>1. /\ UNCHANGED <<status, sleeping, ready, sleepers, current, pc, cont>>
        /\ kpc' # "run" /\ current = TaskKernel
        /\ kpc' = "stopped" => ~ MoreWork(Pending)
    BY <1>2, KernelRuns DEF ScanEnd, Stop
  <2>2. CpuInv' /\ DriverStopped'
    BY <1>0, <2>1 DEF CpuInv, DriverStopped, MoreWork, Pending
  <2> QED
    BY <1>0, <2>1, <2>2, IdleParts
<1>3. ASSUME NEW w \in Tasks, ScanSleeper(w)
      PROVE  CallParts'
  BY <1>0, <1>3, ScanParts
<1> QED
  BY <1>1, <1>2, <1>3 DEF DriverLoop, KernelStep

(* The timer. *)
LEMMA TimerParts ==
  ASSUME ~ KernelPreemption, DriverInv, DriverTimer
  PROVE  CallParts'
<1>0. UNCHANGED <<target, requests, disk, request, reply>>
  BY DEF DriverTimer, Timer
<1>1. CASE TickInKernel \/ \E t \in Tasks : TickInTask(t)
  <2>1. UNCHANGED <<status, sleeping, ready, sleepers, current, pc, cont, kpc, nextTask>>
    BY <1>1 DEF TickInKernel, TickInTask
  <2>2. CpuInv' /\ DriverStopped'
    BY <1>0, <2>1 DEF DriverInv, CpuInv, DriverStopped, MoreWork, Pending
  <2> QED
    BY <1>0, <2>1, <2>2, IdleParts
<1>2. ASSUME NEW t \in Tasks, TickPreempts(t)
      PROVE  CallParts'
  <2>1. current = t /\ pc[t] = "user" /\ TaskYield(t)
    BY <1>2 DEF TickPreempts, MayPreempt
  <2> QED
    BY <2>1, YieldParts DEF DriverTimer, Timer
<1> QED
  BY <1>1, <1>2 DEF DriverTimer, Timer, Tick

(* The interrupt of the disk finds the manager suspended. *)
LEMMA InterruptParts ==
  ASSUME ~ KernelPreemption, DriverInv, Interrupt
  PROVE  CallParts'
<1>1. /\ kpc \notin {"stopped", "aborted"} /\ disk' = "idle"
      /\ reply' = [reply EXCEPT ![request] = "done"]
      /\ reply \in [Tasks -> {"none", "accepted", "done", "error"}]
      /\ UNCHANGED <<current, pc, cont, kpc, nextTask, target, requests, request>>
  BY DEF Interrupt, Halted, DriverInv, DriverTypeOK
<1>2. pc[Disk] = "answer" /\ ~ Active(Disk) /\ status[Disk] = "SUSPENDED"
  BY DEF Interrupt, MayInterrupt, DriverInv, ManagerInv, CallsAtomic
<1>3. request \in Tasks
  BY <1>2, RequestQueued
<1>4. /\ ToSet(ready') = ToSet(ready) \cup {Disk} /\ IsInjective(ready')
      /\ status' = [status EXCEPT ![Disk] = "READY"] /\ status \in [Tasks -> Status]
      /\ sleeping' = [sleeping EXCEPT ![Disk] = FALSE] /\ sleeping \in [Tasks -> BOOLEAN]
      /\ ToSet(sleepers'.items) = ToSet(sleepers.items) \ {Disk}
      /\ IsInjective(sleepers'.items)
  BY <1>2, Awoken DEF Interrupt, AwakeManager
<1>5. CpuInv'
  BY <1>1, <1>2, <1>3, <1>4 DEF DriverInv, CpuInv
<1>6. CallsAtomic'
  BY <1>1, <1>2, <1>3, <1>4 DEF DriverInv, CallsAtomic
<1>7. ReadyOnce'
  BY <1>1, <1>2, <1>3, <1>4 DEF DriverInv, ReadyOnce
<1>8. AsleepInv'
  BY <1>1, <1>2, <1>3, <1>4 DEF DriverInv, AsleepInv
<1>9. TargetInv'
  BY <1>1, <1>2, <1>3, <1>4 DEF DriverInv, TargetInv
<1>10. ManagerInv'
  BY <1>1, <1>2, <1>3, <1>4 DEF DriverInv, ManagerInv
<1>11. CallersInv'
  BY <1>1, <1>2, <1>3, <1>4 DEF DriverInv, CallersInv
<1>12. DriverStopped'
  BY <1>1, <1>2, <1>3, <1>4 DEF DriverInv, DriverStopped
<1> QED
  BY <1>5, <1>6, <1>7, <1>8,
     <1>9, <1>10, <1>11, <1>12 DEF CallParts

(* The manager gives the oldest request to the disk. *)
LEMMA CommandParts ==
  ASSUME ~ KernelPreemption, DriverInv, ManagerTurn,
         disk # "busy", QItem(requests) # NULL
  PROVE  CallParts'
<1> DEFINE r == QItem(requests)
<1>1. /\ pc' = [pc EXCEPT ![Disk] = "suspend"] /\ cont' = [cont EXCEPT ![Disk] = "answer"]
      /\ pc \in [Tasks -> DriverPC] /\ cont \in [Tasks -> DriverCont]
      /\ request' = r
      /\ \/ reply' = [reply EXCEPT ![r] = "accepted"]
         \/ reply' = [reply EXCEPT ![r] = "error"]
      /\ reply \in [Tasks -> {"none", "accepted", "done", "error"}]
  BY DEF ManagerTurn, Command, DriverInv, DriverTypeOK
<1>2. /\ current = Disk /\ kpc = "run" /\ pc[Disk] = "user"
      /\ UNCHANGED <<status, sleeping, ready, suspended, sleepers, current, kpc, nextTask,
                     target, requests>>
  BY DEF ManagerTurn, Command, DriverInv, CpuInv
<1>3. r \in ToSet(requests.items)
  BY QItemProperties DEF ManagerTurn, DriverInv, RequestsInv
<1>4. r \in Tasks /\ Unanswered(r)
  BY <1>2, <1>3, QueueType DEF DriverInv, RequestsInv, CallersInv
<1> HIDE DEF r
<1>5. CpuInv'
  BY <1>1, <1>2, <1>3, <1>4 DEF DriverInv, CpuInv
<1>6. CallsAtomic'
  BY <1>1, <1>2, <1>3, <1>4 DEF DriverInv, CallsAtomic
<1>7. ReadyOnce'
  BY <1>1, <1>2, <1>3, <1>4 DEF DriverInv, ReadyOnce
<1>8. AsleepInv'
  BY <1>1, <1>2, <1>3, <1>4 DEF DriverInv, AsleepInv
<1>9. TargetInv'
  BY <1>1, <1>2, <1>3, <1>4 DEF DriverInv, TargetInv
<1>10. ManagerInv'
  BY <1>1, <1>2, <1>3, <1>4 DEF DriverInv, ManagerInv
<1>11. CallersInv'
  BY <1>1, <1>2, <1>3, <1>4 DEF DriverInv, CallersInv
<1>12. DriverStopped'
  BY <1>1, <1>2, <1>3, <1>4 DEF DriverInv, DriverStopped
<1> QED
  BY <1>5, <1>6, <1>7, <1>8,
     <1>9, <1>10, <1>11, <1>12 DEF CallParts

(* Awoken, it answers the caller. *)
LEMMA AnswerParts ==
  ASSUME ~ KernelPreemption, DriverInv, Answer
  PROVE  CallParts'
<1>1. /\ pc' = [pc EXCEPT ![Disk] = "dequeue"] /\ pc \in [Tasks -> DriverPC]
      /\ pc[Disk] = "answer" /\ current = Disk /\ kpc = "run"
      /\ UNCHANGED <<current, cont, kpc, nextTask, target, requests, disk, request, reply>>
  BY DEF Answer, DriverInv, DriverTypeOK, CpuInv
<1>2. request \in Tasks /\ QHas(requests, request) /\ reply[request] = "done"
  BY <1>1, RequestQueued DEF DriverInv, ManagerInv
<1>3. Unanswered(request) /\ request # Disk
  BY <1>1, <1>2 DEF DriverInv, CallersInv, ManagerInv
<1>4. pc[request] = "block_ret" /\ ~ Active(request) /\ status[request] = "SUSPENDED"
  BY <1>1, <1>2, <1>3 DEF DriverInv, CallsAtomic
<1>5. /\ ToSet(ready') = ToSet(ready) \cup {request} /\ IsInjective(ready')
      /\ status' = [status EXCEPT ![request] = "READY"] /\ status \in [Tasks -> Status]
      /\ sleeping' = [sleeping EXCEPT ![request] = FALSE] /\ sleeping \in [Tasks -> BOOLEAN]
      /\ ToSet(sleepers'.items) = ToSet(sleepers.items) \ {request}
      /\ IsInjective(sleepers'.items)
  BY <1>2, <1>4, Awoken DEF Answer
<1>6. CpuInv'
  BY <1>1, <1>2, <1>3, <1>4, <1>5 DEF DriverInv, CpuInv
<1>7. CallsAtomic'
  BY <1>1, <1>2, <1>3, <1>4, <1>5 DEF DriverInv, CallsAtomic
<1>8. ReadyOnce'
  BY <1>1, <1>2, <1>3, <1>4, <1>5 DEF DriverInv, ReadyOnce
<1>9. AsleepInv'
  BY <1>1, <1>2, <1>3, <1>4, <1>5 DEF DriverInv, AsleepInv
<1>10. TargetInv'
  BY <1>1, <1>2, <1>3, <1>4, <1>5 DEF DriverInv, TargetInv
<1>11. ManagerInv'
  BY <1>1, <1>2, <1>3, <1>4, <1>5 DEF DriverInv, ManagerInv
<1>12. CallersInv'
  BY <1>1, <1>2, <1>3, <1>4, <1>5 DEF DriverInv, CallersInv
<1>13. DriverStopped'
  BY <1>1, <1>2, <1>3, <1>4, <1>5 DEF DriverInv, DriverStopped
<1> QED
  BY <1>6, <1>7, <1>8, <1>9,
     <1>10, <1>11, <1>12, <1>13 DEF CallParts

(* The request leaves the queue. *)
LEMMA DequeueParts ==
  ASSUME ~ KernelPreemption, DriverInv, Dequeue
  PROVE  CallParts'
<1>1. /\ pc' = [pc EXCEPT ![Disk] = "user"] /\ pc \in [Tasks -> DriverPC]
      /\ pc[Disk] = "dequeue" /\ current = Disk /\ kpc = "run"
      /\ UNCHANGED <<status, sleeping, ready, suspended, sleepers, current, cont, kpc,
                     nextTask, target, disk, request, reply>>
  BY DEF Dequeue, DriverInv, DriverTypeOK, CpuInv
<1>2. /\ ToSet(requests'.items) = ToSet(requests.items) \ {request}
      /\ IsInjective(requests'.items)
  BY QDelProperties DEF Dequeue, DriverInv, RequestsInv, CallersInv
<1>3. CpuInv'
  BY <1>1, <1>2 DEF DriverInv, CpuInv
<1>4. CallsAtomic'
  BY <1>1, <1>2 DEF DriverInv, CallsAtomic
<1>5. ReadyOnce'
  BY <1>1, <1>2 DEF DriverInv, ReadyOnce
<1>6. AsleepInv'
  BY <1>1, <1>2 DEF DriverInv, AsleepInv
<1>7. TargetInv'
  BY <1>1, <1>2 DEF DriverInv, TargetInv
<1>8. ManagerInv'
  BY <1>1, <1>2 DEF DriverInv, ManagerInv
<1>9. CallersInv'
  BY <1>1, <1>2 DEF DriverInv, CallersInv
<1>10. DriverStopped'
  BY <1>1, <1>2 DEF DriverInv, DriverStopped
<1> QED
  BY <1>3, <1>4, <1>5, <1>6,
     <1>7, <1>8, <1>9, <1>10 DEF CallParts

(* The dispatcher runs a ready task. *)
LEMMA RunParts ==
  ASSUME ~ KernelPreemption, DriverInv, NEW t \in Tasks, DriverRun(t)
  PROVE  CallParts'
<1>1. /\ current = TaskKernel /\ current' = t /\ kpc' = "run" /\ nextTask' = t
      /\ status' = [status EXCEPT ![t] = "RUNNING"] /\ status \in [Tasks -> Status]
      /\ t \in ToSet(ready)
      /\ UNCHANGED <<sleeping, sleepers, pc, cont, target, requests, disk, request, reply>>
  BY KernelRuns DEF DriverRun, Dispatch, DriverInv, DriverTypeOK
<1>2. ToSet(ready') = ToSet(ready) \ {t} /\ IsInjective(ready')
  BY RemoveFirstProperties DEF DriverRun, Dispatch, DriverInv, DriverTypeOK, ReadyOnce
<1>3. CpuInv'
  BY <1>1, <1>2 DEF DriverInv, CpuInv
<1>4. CallsAtomic'
  BY <1>1, <1>2 DEF DriverInv, CallsAtomic
<1>5. ReadyOnce'
  BY <1>1, <1>2 DEF DriverInv, ReadyOnce
<1>6. AsleepInv'
  BY <1>1, <1>2 DEF DriverInv, AsleepInv
<1>7. TargetInv'
  BY <1>1, <1>2 DEF DriverInv, TargetInv
<1>8. ManagerInv'
  BY <1>1, <1>2 DEF DriverInv, ManagerInv
<1>9. CallersInv'
  BY <1>1, <1>2 DEF DriverInv, CallersInv
<1>10. DriverStopped'
  BY <1>1, <1>2 DEF DriverInv, DriverStopped
<1> QED
  BY <1>3, <1>4, <1>5, <1>6,
     <1>7, <1>8, <1>9, <1>10 DEF CallParts

(* A turn of the walk of task_exit: whom it awakes waits for t. *)
LEMMA ExitScanParts ==
  ASSUME ~ KernelPreemption, DriverInv,
         NEW t \in Tasks, NEW w \in Tasks, ExitScan(t, w),
         UNCHANGED diskVars
  PROVE  CallParts'
<1>1. /\ pc[t] = "exit_scan" /\ current = t /\ kpc = "run"
      /\ UNCHANGED <<current, pc, cont, kpc, nextTask, target, requests, disk, request, reply>>
  BY DEF ExitScan, DriverInv, CpuInv
<1>2. CASE target[w] = t /\ status[w] = "SUSPENDED"
  <2>1. pc[w] = "wait_ret" /\ w # Disk /\ ~ Active(w)
    BY <1>1, <1>2 DEF DriverInv, TargetInv, ManagerInv, CallsAtomic, ReadyOnce
  <2>2. /\ ToSet(ready') = ToSet(ready) \cup {w} /\ IsInjective(ready')
        /\ status' = [status EXCEPT ![w] = "READY"] /\ status \in [Tasks -> Status]
        /\ sleeping' = [sleeping EXCEPT ![w] = FALSE] /\ sleeping \in [Tasks -> BOOLEAN]
        /\ ToSet(sleepers'.items) = ToSet(sleepers.items) \ {w}
        /\ IsInjective(sleepers'.items)
    BY <1>2, <2>1, Awoken DEF ExitScan
  <2>3. CpuInv'
    BY <1>1, <1>2, <2>1, <2>2 DEF DriverInv, CpuInv
  <2>4. CallsAtomic'
    BY <1>1, <1>2, <2>1, <2>2 DEF DriverInv, CallsAtomic
  <2>5. ReadyOnce'
    BY <1>1, <1>2, <2>1, <2>2 DEF DriverInv, ReadyOnce
  <2>6. AsleepInv'
    BY <1>1, <1>2, <2>1, <2>2 DEF DriverInv, AsleepInv
  <2>7. TargetInv'
    BY <1>1, <1>2, <2>1, <2>2 DEF DriverInv, TargetInv
  <2>8. ManagerInv'
    BY <1>1, <1>2, <2>1, <2>2 DEF DriverInv, ManagerInv
  <2>9. CallersInv'
    BY <1>1, <1>2, <2>1, <2>2 DEF DriverInv, CallersInv
  <2>10. DriverStopped'
    BY <1>1, <1>2, <2>1, <2>2 DEF DriverInv, DriverStopped
  <2> QED
    BY <2>3, <2>4, <2>5, <2>6,
       <2>7, <2>8, <2>9, <2>10 DEF CallParts
<1>3. CASE target[w] # t \/ status[w] # "SUSPENDED"
  <2>1. UNCHANGED <<status, sleeping, ready, sleepers>>
    BY <1>3, LeftAlone DEF ExitScan
  <2>2. CpuInv' /\ DriverStopped'
    BY <1>1 DEF DriverInv, CpuInv, DriverStopped
  <2> QED
    BY <1>1, <2>1, <2>2, IdleParts
<1> QED
  BY <1>2, <1>3

LEMMA PartsInit ==
  ASSUME DriverInit
  PROVE  CallParts
<1>1. /\ ready = <<Disk, User>> /\ suspended = QAdd(EmptyQueue, Disk) /\ sleepers = EmptyQueue
      /\ requests = EmptyQueue /\ current = TaskKernel /\ kpc = "loop"
      /\ disk = "idle"
      /\ status = [t \in Tasks |-> IF t = Disk THEN "SUSPENDED" ELSE "READY"]
      /\ sleeping = [t \in Tasks |-> FALSE]
      /\ pc = [t \in Tasks |-> IF t \in {Disk, User} THEN "user" ELSE "none"]
      /\ cont = [t \in Tasks |-> "user"]
      /\ target = [t \in Tasks |-> TaskKernel]
  BY DEF DriverInit, Init, KernelInit, TcbInit, QueuesInit, ProcessorInit
<1>2. ToSet(ready) = {Disk, User} /\ IsInjective(ready)
  BY <1>1, SMT DEF ToSet, IsInjective
<1>3. ToSet(sleepers.items) = {} /\ IsInjective(sleepers.items)
  BY <1>1, EmptyQueueProperties
<1>4. CpuInv /\ CallsAtomic
  BY <1>1, <1>2 DEF CpuInv, CallsAtomic
<1>5. ReadyOnce
  BY <1>1, <1>2 DEF ReadyOnce
<1>6. AsleepInv
  BY <1>1, <1>3 DEF AsleepInv
<1>7. TargetInv /\ ManagerInv
  BY <1>1, <1>2 DEF TargetInv, ManagerInv
<1>8. CallersInv /\ DriverStopped
  BY <1>1, <1>3 DEF CallersInv, DriverStopped
<1> QED
  BY <1>4, <1>5, <1>6, <1>7, <1>8 DEF CallParts

(* A turn of the disk manager. *)
LEMMA ManagerParts ==
  ASSUME ~ KernelPreemption, DriverInv, ManagerStep
  PROVE  CallParts'
<1>1. CASE ManagerTurn
  <2>1. current = Disk /\ pc[Disk] = "user" /\ disk # "busy"
    BY <1>1 DEF ManagerTurn, DriverInv, ManagerInv
  <2>2. CASE QItem(requests) = NULL
    BY <1>1, <2>1, <2>2, KernelAssumption, YieldParts DEF ManagerTurn
  <2>3. CASE QItem(requests) # NULL
    BY <1>1, <2>1, <2>3, CommandParts
  <2> QED
    BY <2>2, <2>3
<1> QED
  BY <1>1, AnswerParts, DequeueParts DEF ManagerStep

(* A call of a task, and its further steps; the manager makes none. *)
LEMMA CallerParts ==
  ASSUME ~ KernelPreemption, DriverInv, NEW t \in Tasks, DriverUserStep(t)
  PROVE  CallParts'
<1>1. t # Disk
  BY DEF DriverUserStep, Caller
<1>2. CASE BlockCall(t)
  BY <1>1, <1>2, BlockCallParts
<1>3. CASE UserStep(t) /\ UNCHANGED diskVars
  <2>1. CASE Yield(t) /\ UNCHANGED waitVars
    BY <1>3, <2>1, YieldParts DEF Yield
  <2>2. ASSUME NEW u \in Tasks, Create(t, u) \/ Wait(t, u)
        PROVE  CallParts'
    BY <1>1, <1>3, <2>2, CreateParts, WaitParts
  <2>3. CASE \E d \in 0..MaxSleep : Sleep(t, d)
    BY <1>1, <1>3, <2>3, SleepParts
  <2>4. CASE \E code \in Codes : Exit(t, code)
    BY <1>1, <1>3, <2>4, ExitParts
  <2> QED
    BY <1>3, <2>1, <2>2, <2>3, <2>4 DEF UserStep
<1> QED
  BY <1>2, <1>3 DEF DriverUserStep

LEMMA CallStepParts ==
  ASSUME ~ KernelPreemption, DriverInv, NEW t \in Tasks, DriverCallStep(t)
  PROVE  CallParts'
<1>1. CASE BlockReturn(t)
  BY <1>1, ReturnParts DEF BlockReturn
<1>2. CASE CallStep(t) /\ UNCHANGED diskVars
  <2>1. CASE TaskSuspend(t) /\ UNCHANGED waitVars
    BY <1>2, <2>1, SuspendStatusParts, SuspendEnqueueParts, SuspendSwitchParts
       DEF TaskSuspend
  <2>2. CASE Return(t) \/ ExitHead(t) \/ ExitDone(t)
    BY <1>2, <2>2, ReturnParts, ExitHeadParts, ExitDoneParts
  <2>3. CASE \E w \in Tasks : ExitScan(t, w)
    BY <1>2, <2>3, ExitScanParts
  <2> QED
    BY <1>2, <2>1, <2>2, <2>3 DEF CallStep
<1> QED
  BY <1>1, <1>2 DEF DriverCallStep

LEMMA PartsStep ==
  ASSUME ~ KernelPreemption, DriverInv, [DriverNext]_driverVars
  PROVE  CallParts'
<1>1. CASE UNCHANGED driverVars
  <2>1. CpuInv' /\ DriverStopped' /\ sleepers' = sleepers
    BY <1>1
       DEF driverVars, vars, kernelVars, DriverInv, CpuInv, DriverStopped, MoreWork, Pending
  <2> QED
    BY <1>1, <2>1, IdleParts DEF driverVars, vars, kernelVars
<1>2. CASE DriverLoop \/ DriverTimer \/ Interrupt \/ ManagerStep
  BY <1>2, LoopParts, TimerParts, InterruptParts, ManagerParts
<1>3. ASSUME NEW t \in Tasks, DriverRun(t) \/ DriverUserStep(t) \/ DriverCallStep(t)
      PROVE  CallParts'
  BY <1>3, RunParts, CallerParts, CallStepParts
<1> QED
  BY <1>1, <1>2, <1>3 DEF DriverNext

LEMMA DriverInvStep ==
  ASSUME ~ KernelPreemption, DriverInv, [DriverNext]_driverVars
  PROVE  DriverInv'
<1>1. DriverTypeOK /\ RequestsInv
  BY DEF DriverInv
<1>2. DriverTypeOK' /\ RequestsInv'
  BY <1>1, TypesStep
<1> QED
  BY <1>2, PartsStep DEF CallParts, DriverInv

LEMMA DriverInvHolds ==
  ASSUME ~ KernelPreemption
  PROVE  DriverSpec => []DriverInv
<1>1. DriverInit => DriverInv
  BY RequestsInit, TypeInit, PartsInit DEF CallParts, DriverInv
<1>2. DriverInv /\ [DriverNext]_driverVars => DriverInv'
  BY DriverInvStep
<1> QED
  BY <1>1, <1>2, PTL DEF DriverSpec

(* The transfer under way belongs to the request of a task that is still   *)
(* inside block_read or block_write, with its request queued, and neither  *)
(* call returns before its transfer is over or was refused.  No quantum    *)
(* ends inside a kernel call here; any blocks and any calls are allowed.   *)
THEOREM BuffersHeld ==
  ASSUME ~ KernelPreemption
  PROVE  DriverSpec => []BufferHeld
<1>1. DriverInv => BufferHeld
  <2> SUFFICES ASSUME DriverInv
               PROVE  BufferHeld
    OBVIOUS
  <2>1. ASSUME disk = "busy"
        PROVE  InBlock(request) /\ QHas(requests, request)
    <3>1. HasRequest /\ pc[Disk] # "dequeue"
      BY <2>1 DEF DriverInv, ManagerInv
    <3>2. request \in Tasks /\ QHas(requests, request)
      BY <3>1, RequestQueued
    <3> QED
      BY <3>1, <3>2 DEF DriverInv, CallersInv
  <2>2. \A t \in Tasks : At(t, "block_ret") => reply[t] \in {"done", "error"}
    BY DEF DriverInv, CallersInv
  <2> QED
    BY <2>1, <2>2 DEF BufferHeld
<1> QED
  BY <1>1, DriverInvHolds, PTL

(* The dispatcher's loop ends, and the machine is powered off, only when   *)
(* the disk is idle and no task is inside block_read or block_write.  The  *)
(* manager and a second task cannot both be the one that is still ready.   *)
THEOREM PowerOffIsLate ==
  ASSUME ~ KernelPreemption
  PROVE  DriverSpec => []PowerOffAfterTransfers
<1>1. DriverInv => PowerOffAfterTransfers
  <2> SUFFICES ASSUME DriverInv, kpc = "stopped"
               PROVE  disk = "idle" /\ \A t \in Tasks : ~ InBlock(t)
    BY DEF PowerOffAfterTransfers
  <2>1. /\ ready \in Seq(Tasks) /\ Len(ready) \in Nat /\ DOMAIN ready = 1..Len(ready)
        /\ requests.items \in Seq(Tasks) /\ Len(requests.items) \in Nat
        /\ ~ (Len(ready) > 1) /\ ~ (Len(requests.items) > 0)
    BY QueueType, LenProperties
       DEF DriverInv, DriverTypeOK, DriverStopped, MoreWork, Pending, QSize
  <2>2. requests.items = << >> /\ ToSet(requests.items) = {}
    <3>1. requests.items = << >>
      BY <2>1, EmptySeq
    <3> QED
      BY <3>1, EmptyQueueProperties DEF EmptyQueue
  <2>3. current = TaskKernel
    BY KernelRuns
  <2>4. ~ HasRequest
    BY <2>2 DEF DriverInv, RequestsInv
  <2>5. disk = "idle"
    BY <2>4 DEF DriverInv, DriverTypeOK, ManagerInv
  <2>6. Ready(Disk)
    BY <2>3, <2>4, KernelAssumption DEF DriverInv, ManagerInv
  <2>7. ASSUME NEW t \in Tasks, InBlock(t)
        PROVE  FALSE
    <3>1. ~ Unanswered(t)
      BY <2>2 DEF DriverInv, CallersInv
    <3>2. Ready(t) /\ t # Disk
      BY <2>3, <2>7, <3>1 DEF DriverInv, ManagerInv
    <3>3. PICK i \in 1..Len(ready), j \in 1..Len(ready) : ready[i] = t /\ ready[j] = Disk
      BY <2>1, <2>6, <3>2 DEF ToSet
    <3> QED
      BY <2>1, <3>2, <3>3
  <2> QED
    BY <2>5, <2>7
<1> QED
  BY <1>1, DriverInvHolds, PTL
=============================================================================
