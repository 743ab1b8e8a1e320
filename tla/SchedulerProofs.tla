-------------------------- MODULE SchedulerProofs --------------------------
(***************************************************************************)
(* Aging prevents starvation: for any number of tasks and any range of     *)
(* priorities a ready task waits for a bounded number of selections. And   *)
(* the loop that ages while it compares selects the first of the best.     *)
(***************************************************************************)
EXTENDS Scheduler, QueueProofs, FiniteSetTheorems

USE SchedulerAssumption
USE DEF TypeOK, Existing

(* The number of tasks. *)
N == Cardinality(Tasks)

(* The number of tasks is a number. *)
LEMMA TasksFinite == N \in Nat
BY FS_CardinalityType DEF N

(* Only tasks are ready or blocked. *)
LEMMA ReadyTasks ==
  ASSUME IInv
  PROVE  /\ ToSet(ready) \subseteq Tasks
         /\ NoTask \notin ToSet(ready) \cup blocked
<1>1. ready \in Seq(Tasks) /\ blocked \subseteq Tasks
  BY DEF IInv
<1>2. ToSet(ready) \subseteq Tasks
  BY <1>1 DEF ToSet
<1> QED
  BY <1>1, <1>2

(* Putting a task that is not ready at the end of the queue. *)
LEMMA AppendReady ==
  ASSUME IInv, NEW t \in Tasks, t \notin ToSet(ready), ready' = Append(ready, t)
  PROVE  /\ ready' \in Seq(Tasks)
         /\ IsInjective(ready')
         /\ ToSet(ready') = ToSet(ready) \cup {t}
BY AppendSet DEF IInv, PlaceInv

(* Where the priorities do not change, nobody joins the low ones. *)
LEMMA CrowdUnchanged ==
  ASSUME IInv, UNCHANGED dynamic
  PROVE  CrowdInv'
BY DEF IInv, CrowdInv, Low

(* Creating, awaking or yielding: a task with its own priority queues up. *)
LEMMA QueueUpInv ==
  ASSUME IInv, NEW t \in Tasks, t \notin ToSet(ready),
         ready' = Append(ready, t),
         \/ running' = running /\ t # running
         \/ running' = NoTask,
         blocked' = blocked \ {t},
         UNCHANGED <<static, dynamic, waited>>
  PROVE  IInv'
<1>1. /\ ready' \in Seq(Tasks)
      /\ IsInjective(ready')
      /\ ToSet(ready') = ToSet(ready) \cup {t}
  BY AppendReady
<1>2. TypeOK'
  BY <1>1 DEF IInv
<1>3. PlaceInv'
  <2>1. running' \notin ToSet(ready')
    BY <1>1, ReadyTasks DEF IInv, PlaceInv
  <2>2. running' \notin blocked'
    BY ReadyTasks DEF IInv, PlaceInv
  <2> QED
    BY <1>1, <2>1, <2>2 DEF IInv, PlaceInv
<1>4. PriorityInv'
  BY <1>1 DEF IInv, PriorityInv
<1> QED
  BY <1>2, <1>3, <1>4, CrowdUnchanged DEF IInv

(* A suspended task is blocked. *)
LEMMA SuspendInv ==
  ASSUME IInv, Suspend
  PROVE  IInv'
<1>1. TypeOK'
  BY DEF IInv, Suspend
<1>2. PlaceInv'
  BY ReadyTasks DEF IInv, PlaceInv, Suspend
<1>3. PriorityInv'
  BY DEF IInv, PriorityInv, Suspend
<1> QED
  BY <1>1, <1>2, <1>3, CrowdUnchanged DEF IInv, Suspend

(* sched_setprio takes its task out of the low priorities. *)
LEMMA SetPrioInv ==
  ASSUME IInv, NEW t \in Tasks, NEW prio, SetPrio(t, prio)
  PROVE  IInv'
<1>0. prio \in MinPrio..MaxPrio /\ prio \in Int
  BY DEF SetPrio
<1>1. TypeOK'
  BY <1>0 DEF IInv, SetPrio
<1>2. PlaceInv'
  BY DEF IInv, PlaceInv, SetPrio
<1>3. PriorityInv'
  BY <1>0 DEF IInv, PriorityInv, SetPrio
<1>4. CrowdInv'
  <2> SUFFICES ASSUME NEW k \in 1..N
               PROVE  Cardinality(Low(k)') <= N - k
    BY DEF CrowdInv, N
  <2>1. Low(k)' \subseteq Low(k)
    BY <1>0 DEF IInv, Low, SetPrio
  <2>2. IsFiniteSet(Low(k)) /\ Low(k) \subseteq Tasks
    BY FS_Subset DEF Low
  <2>3. /\ Cardinality(Low(k)') <= Cardinality(Low(k))
        /\ IsFiniteSet(Low(k)')
    BY <2>1, <2>2, FS_Subset
  <2>4. /\ Cardinality(Low(k)) \in Nat
        /\ Cardinality(Low(k)') \in Nat
    BY <2>2, <2>3, FS_CardinalityType
  <2>5. Cardinality(Low(k)) <= N - k
    BY DEF IInv, CrowdInv, N
  <2> QED
    BY <2>3, <2>4, <2>5, TasksFinite
<1> QED
  BY <1>1, <1>2, <1>3, <1>4 DEF IInv

(* A selection takes the best task away and lowers the ready ones by one:  *)
(* whoever is k low after it was k - 1 low before it, and so was the task  *)
(* that was selected.                                                      *)
LEMMA ScheduleCrowd ==
  ASSUME IInv, NEW i \in DOMAIN ready, IsSelected(ready, dynamic, i),
         dynamic' = Aging(i), NEW k \in 1..N
  PROVE  Cardinality(Low(k)') <= N - k
<1> DEFINE s == ready[i]
<1>1. s \in ToSet(ready) /\ s \in Tasks
  BY DEF IInv, ToSet
<1>2. ASSUME NEW t \in Low(k)'
      PROVE  t \in ToSet(ready) /\ t # s /\ dynamic[t] <= MinPrio - (k - 1)
  <2>1. t \in Tasks /\ dynamic'[t] <= MinPrio - k
    BY <1>2 DEF Low
  <2>2. static[t] >= MinPrio /\ static[t] \in Int /\ dynamic[t] \in Int
    BY <2>1 DEF IInv
  <2>3. t # s
    BY <1>1, <2>1, <2>2 DEF Aging
  <2>4. t \in ToSet(ready)
    BY <2>1, <2>2, <2>3 DEF Aging, IInv, PriorityInv
  <2> QED
    BY <2>1, <2>2, <2>3, <2>4 DEF Aging
<1>3. IsFiniteSet(Low(k)') /\ Low(k)' \subseteq Tasks
  BY FS_Subset DEF Low
<1>4. Cardinality(Low(k)') \in Nat
  BY <1>3, FS_CardinalityType
<1>5. CASE Low(k)' = {}
  BY <1>5, FS_EmptySet, TasksFinite
<1>6. CASE k = 1
  <2>1. Low(k)' \subseteq Tasks \ {s}
    BY <1>2, <1>3
  <2>2. IsFiniteSet(Tasks \ {s}) /\ Cardinality(Tasks \ {s}) = N - 1
    BY <1>1, FS_RemoveElement DEF N
  <2>3. Cardinality(Low(k)') <= N - 1
    BY <2>1, <2>2, FS_Subset
  <2> QED
    BY <1>6, <2>3
<1>7. CASE k # 1 /\ Low(k)' # {}
  <2>1. k - 1 \in 1..N /\ k \in Int
    BY <1>7, TasksFinite
  <2>2. PICK t \in Low(k)' : TRUE
    BY <1>7
  <2>3. dynamic[s] <= dynamic[t]
    <3>1. t \in ToSet(ready)
      BY <1>2, <2>2
    <3>2. PICK j \in DOMAIN ready : t = ready[j]
      BY <3>1 DEF ToSet
    <3> QED
      BY <3>2 DEF IsSelected
  <2>4. s \in Low(k - 1)
    <3>1. dynamic[t] <= MinPrio - (k - 1) /\ dynamic[t] \in Int /\ dynamic[s] \in Int
      BY <1>1, <1>2, <1>3, <2>2 DEF IInv
    <3> QED
      BY <1>1, <2>1, <2>3, <3>1 DEF Low
  <2>5. Low(k)' \subseteq Low(k - 1) \ {s}
    BY <1>2, <1>3 DEF Low
  <2>6. IsFiniteSet(Low(k - 1)) /\ Low(k - 1) \subseteq Tasks
    BY FS_Subset DEF Low
  <2>7. /\ IsFiniteSet(Low(k - 1) \ {s})
        /\ Cardinality(Low(k - 1) \ {s}) = Cardinality(Low(k - 1)) - 1
    BY <2>4, <2>6, FS_RemoveElement
  <2>8. Cardinality(Low(k)') <= Cardinality(Low(k - 1)) - 1
    BY <2>5, <2>7, FS_Subset
  <2>9. Cardinality(Low(k - 1)) <= N - (k - 1) /\ Cardinality(Low(k - 1)) \in Nat
    BY <2>1, <2>6, FS_CardinalityType DEF IInv, CrowdInv, N
  <2> QED
    BY <1>4, <2>1, <2>8, <2>9, TasksFinite
<1> QED
  BY <1>5, <1>6, <1>7

(* The selected task runs with its own priority, the others aged by one. *)
LEMMA ScheduleInv ==
  ASSUME IInv, Schedule
  PROVE  IInv'
<1>1. PICK i \in DOMAIN ready :
        /\ IsSelected(ready, dynamic, i)
        /\ running' = ready[i]
        /\ ready' = RemoveFirst(ready, ready[i])
        /\ dynamic' = Aging(i)
        /\ waited' = [t \in Tasks |->
                        IF t \in ToSet(ready) /\ t # ready[i] THEN waited[t] + 1 ELSE 0]
        /\ UNCHANGED <<blocked, static>>
  BY DEF Schedule
<1>2. ready[i] \in ToSet(ready) /\ ready[i] \in Tasks
  BY DEF IInv, ToSet
<1>3. /\ ready' \in Seq(Tasks)
      /\ IsInjective(ready')
      /\ ToSet(ready') = ToSet(ready) \ {ready[i]}
  BY <1>1, RemoveFirstProperties DEF IInv, PlaceInv
<1>4. TypeOK'
  <2>1. dynamic' \in [Tasks -> Int]
    BY <1>1 DEF IInv, Aging
  <2>2. waited' \in [Tasks -> Nat]
    <3>1. waited' = [t \in Tasks |->
                      IF t \in ToSet(ready) /\ t # ready[i] THEN waited[t] + 1 ELSE 0]
      BY <1>1
    <3>2. \A t \in Tasks : waited[t] \in Nat
      BY DEF IInv
    <3>3. \A t \in Tasks :
            (IF t \in ToSet(ready) /\ t # ready[i] THEN waited[t] + 1 ELSE 0) \in Nat
      BY <3>2
    <3> QED
      BY <3>1, <3>3
  <2> QED
    BY <1>1, <1>2, <1>3, <2>1, <2>2 DEF IInv
<1>5. PlaceInv'
  BY <1>1, <1>2, <1>3 DEF IInv, PlaceInv
<1>6. PriorityInv'
  <2> SUFFICES ASSUME NEW t \in Tasks
               PROVE  /\ t \in ToSet(ready') => dynamic'[t] = static'[t] - waited'[t]
                      /\ t \notin ToSet(ready') => dynamic'[t] = static'[t] /\ waited'[t] = 0
    BY DEF PriorityInv
  <2>1. static'[t] = static[t] /\ static[t] \in Int /\ dynamic[t] \in Int /\ waited[t] \in Int
    BY <1>1 DEF IInv
  <2>2. /\ t \in ToSet(ready) => dynamic[t] = static[t] - waited[t]
        /\ t \notin ToSet(ready) => dynamic[t] = static[t] /\ waited[t] = 0
    BY DEF IInv, PriorityInv
  <2>3. CASE t = ready[i]
    BY <1>1, <1>3, <2>1, <2>3 DEF Aging
  <2>4. CASE t # ready[i] /\ t \in ToSet(ready)
    <3>1. dynamic'[t] = dynamic[t] - 1
      BY <1>1, <2>4 DEF Aging
    <3>2. waited'[t] = waited[t] + 1
      BY <1>1, <2>4
    <3>3. dynamic[t] = static[t] - waited[t] /\ t \in ToSet(ready')
      BY <1>3, <2>2, <2>4
    <3>4. dynamic'[t] = static'[t] - waited'[t]
      BY <2>1, <3>1, <3>2, <3>3
    <3> QED
      BY <3>3, <3>4
  <2>5. CASE t # ready[i] /\ t \notin ToSet(ready)
    BY <1>1, <1>3, <2>1, <2>2, <2>5 DEF Aging
  <2> QED
    BY <2>3, <2>4, <2>5
<1>7. CrowdInv'
  BY <1>1, ScheduleCrowd DEF CrowdInv, N
<1> QED
  BY <1>4, <1>5, <1>6, <1>7 DEF IInv

(* Nobody has aged at the start. *)
LEMMA InitInv ==
  ASSUME Init
  PROVE  IInv
<1>0. /\ << >> \in Seq(Tasks)
      /\ IsInjective(<< >>)
      /\ ToSet(<< >>) = {}
  BY DEF IsInjective, ToSet
<1>1. TypeOK
  BY <1>0 DEF Init
<1>2. PlaceInv
  BY <1>0 DEF Init, PlaceInv
<1>3. PriorityInv
  BY <1>0 DEF Init, PriorityInv
<1>4. CrowdInv
  <2> SUFFICES ASSUME NEW k \in 1..N
               PROVE  Cardinality(Low(k)) <= N - k
    BY DEF CrowdInv, N
  <2>1. Low(k) = {}
    BY DEF Init, Low
  <2> QED
    BY <2>1, FS_EmptySet, TasksFinite
<1> QED
  BY <1>1, <1>2, <1>3, <1>4 DEF IInv

(* Every step keeps the invariant. *)
LEMMA NextInv ==
  ASSUME IInv, [Next]_vars
  PROVE  IInv'
<1>1. CASE Schedule
  BY <1>1, ScheduleInv
<1>2. CASE Yield
  <2>1. running \in Tasks /\ running \notin ToSet(ready) /\ blocked = blocked \ {running}
    BY <1>2 DEF IInv, PlaceInv, Yield
  <2> QED
    BY <1>2, <2>1, QueueUpInv DEF Yield
<1>3. CASE Suspend
  BY <1>3, SuspendInv
<1>4. ASSUME NEW t \in Tasks, Create(t) \/ CreateFirst(t)
      PROVE  IInv'
  <2>1. t \notin ToSet(ready) /\ t # running /\ blocked = blocked \ {t}
    BY <1>4 DEF Create, CreateFirst
  <2> QED
    BY <1>4, <2>1, QueueUpInv DEF Create, CreateFirst
<1>5. ASSUME NEW t \in Tasks, Awake(t)
      PROVE  IInv'
  <2>1. t \notin ToSet(ready) /\ t # running
    BY <1>5 DEF IInv, PlaceInv, Awake
  <2> QED
    BY <1>5, <2>1, QueueUpInv DEF Awake
<1>6. ASSUME NEW t \in Tasks, NEW prio, SetPrio(t, prio)
      PROVE  IInv'
  BY <1>6, SetPrioInv
<1>7. CASE UNCHANGED vars
  BY <1>7 DEF IInv, vars, PlaceInv, PriorityInv, CrowdInv, Low
<1> QED
  BY <1>1, <1>2, <1>3, <1>4, <1>5, <1>6, <1>7 DEF Next

(* The inductive invariant. *)
LEMMA InvHolds == Spec => []IInv
<1>1. Init => IInv
  BY InitInv
<1>2. IInv /\ [Next]_vars => IInv'
  BY NextInv
<1> QED
  BY <1>1, <1>2, PTL DEF Spec

(* Every variable keeps its type, the static priorities their range. *)
THEOREM TypeCorrect == Spec => []TypeOK
<1>1. IInv => TypeOK
  BY DEF IInv
<1> QED
  BY <1>1, InvHolds, PTL

(* No priority falls a task's worth below the lowest static one. *)
LEMMA InvBoundsDynamic ==
  ASSUME IInv, NEW t \in Tasks
  PROVE  /\ dynamic[t] \in (MinPrio - N + 1)..MaxPrio
         /\ waited[t] <= MaxPrio - MinPrio + N - 1
<1>1. /\ dynamic[t] \in Int /\ static[t] \in MinPrio..MaxPrio /\ waited[t] \in Nat
      /\ dynamic[t] = static[t] - waited[t]
  BY DEF IInv, PriorityInv
<1>2. N \in 1..N
  <2>1. N # 0
    BY FS_EmptySet DEF N
  <2> QED
    BY <2>1, TasksFinite
<1>3. t \notin Low(N)
  <2>1. IsFiniteSet(Low(N))
    BY FS_Subset DEF Low
  <2>2. Cardinality(Low(N)) <= N - N /\ Cardinality(Low(N)) \in Nat
    BY <1>2, <2>1, FS_CardinalityType DEF IInv, CrowdInv, N
  <2>3. Cardinality(Low(N)) = 0
    BY <2>2, TasksFinite
  <2> QED
    BY <2>1, <2>3, FS_EmptySet
<1>4. dynamic[t] > MinPrio - N
  BY <1>1, <1>3, TasksFinite DEF Low
<1> QED
  BY <1>1, <1>4, TasksFinite

(* dynamic_priority stays within a range that depends only on the number   *)
(* of tasks, however long the system runs.                                 *)
THEOREM DynamicIsBounded == Spec => []DynamicBounded
<1>1. IInv => DynamicBounded
  BY InvBoundsDynamic DEF DynamicBounded, N
<1> QED
  BY <1>1, InvHolds, PTL

(* A ready task whose priority is left alone is selected after at most     *)
(* MaxPrio - MinPrio + N - 1 selections of other tasks.                    *)
THEOREM WaitIsBounded == Spec => []BoundedWait
<1>1. ASSUME IInv PROVE BoundedWait
  <2>1. ToSet(ready) \subseteq Tasks
    BY <1>1 DEF IInv, ToSet
  <2> QED
    BY <1>1, <2>1, InvBoundsDynamic DEF BoundedWait, N
<1> QED
  BY <1>1, InvHolds, PTL

(* A turn of the loop, with the task t at the iterator. *)
Turn(acc, t) ==
  LET aged == [acc.dyn EXCEPT ![t] = @ - 1]
  IN  [dyn |-> aged, sel |-> IF aged[t] + 1 < aged[acc.sel] + 1 THEN t ELSE acc.sel]

(* The loop, turn by turn. *)
LEMMA LoopUnfolds ==
  ASSUME NEW q \in Seq(Tasks), NEW dyn
  PROVE  \E acc : /\ acc[0] = [dyn |-> dyn, sel |-> q[1]]
                  /\ \A k \in 1..Len(q) : acc[k] = Turn(acc[k - 1], q[k])
                  /\ SelectionLoop(q, dyn) = acc[Len(q)]
<1> DEFINE n == Len(q)
           base == [dyn |-> dyn, sel |-> q[1]]
           folds(f, m) == f = [s \in SUBSET (1..m) |->
                                 IF s = {} THEN base
                                 ELSE Turn(f[s \ {Max(s)}], q[Max(s)])]
           V == {m \in Nat : \E f : folds(f, m)}
<1>1. n \in Nat /\ DOMAIN q = 1..n
  BY LenProperties
<1>2. SelectionLoop(q, dyn) =
        (CHOOSE f : f = [s \in SUBSET DOMAIN q |->
                           IF s = {} THEN base
                           ELSE Turn(f[s \ {Max(s)}], q[Max(s)])])[DOMAIN q]
  BY DEF SelectionLoop, FoldLeft, MapThenFoldSet, Turn
<1>3. SelectionLoop(q, dyn) = (CHOOSE f : folds(f, n))[1..n]
  BY <1>1, <1>2
<1>4. \A m \in Nat : \A s \in SUBSET (1..m) : s # {} =>
         /\ Max(s) \in s
         /\ \A j \in s : j <= Max(s)
  <2> SUFFICES ASSUME NEW m \in Nat, NEW s \in SUBSET (1..m), s # {}
               PROVE  \E x \in s : \A y \in s : x >= y
    BY Zenon DEF Max
  <2> DEFINE T == {m - y : y \in s}
  <2>1. T \subseteq Nat /\ T # {}
    <3>1. \A y \in s : m - y \in Nat
      OBVIOUS
    <3> QED
      BY <3>1
  <2>2. PICK z \in T : \A y \in T : z <= y
    <3> HIDE DEF T
    <3> QED
      BY <2>1, NatMinimum
  <2>3. PICK x \in s : z = m - x
    BY <2>2
  <2>4. \A y \in s : m - x <= m - y
    BY <2>2, <2>3
  <2> QED
    BY <2>4
<1> HIDE DEF base
<1>5. 0 \in V
  <2> DEFINE f == [s \in SUBSET (1..0) |-> base]
  <2>1. \A s \in SUBSET (1..0) : s = {}
    OBVIOUS
  <2>2. folds(f, 0)
    BY <2>1
  <2> QED
    BY <2>2
<1>6. \A m \in Nat : m \in V => m + 1 \in V
  <2> SUFFICES ASSUME NEW m \in Nat, m \in V
               PROVE  m + 1 \in V
    OBVIOUS
  <2> PICK f : folds(f, m)
    OBVIOUS
  <2> HIDE DEF V
  <2> DEFINE step(s) == IF s = {} THEN base ELSE Turn(f[s \ {Max(s)}], q[Max(s)])
             g == [s \in SUBSET (1..(m + 1)) |-> step(s)]
  <2>1. \A s \in SUBSET (1..m) : f[s] = step(s)
    OBVIOUS
  <2>2. ASSUME NEW s \in SUBSET (1..(m + 1)), s # {}
        PROVE  s \ {Max(s)} \in SUBSET (1..m) /\ s \ {Max(s)} \in SUBSET (1..(m + 1))
    <3>1. Max(s) \in s /\ \A j \in s : j <= Max(s)
      <4>1. m + 1 \in Nat
        OBVIOUS
      <4> QED
        BY <1>4, <2>2, <4>1
    <3>2. ASSUME NEW j \in s, j # Max(s)
          PROVE  j \in 1..m
      <4>1. j \in 1..(m + 1) /\ Max(s) \in 1..(m + 1) /\ j <= Max(s) /\ j # Max(s)
        BY <3>1, <3>2
      <4> QED
        BY <4>1
    <3> QED
      BY <3>1, <3>2
  <2> HIDE DEF folds, step
  <2>3. \A s \in SUBSET (1..(m + 1)) : s # {} => g[s \ {Max(s)}] = f[s \ {Max(s)}]
    BY <2>1, <2>2
  <2>4. g = [s \in SUBSET (1..(m + 1)) |->
               IF s = {} THEN base ELSE Turn(g[s \ {Max(s)}], q[Max(s)])]
    BY <2>3 DEF step
  <2> HIDE DEF g
  <2>5. folds(g, m + 1)
    BY <2>4 DEF folds
  <2> QED
    BY <2>5 DEF V
<1> HIDE DEF V
<1>7. n \in V
  BY <1>1, <1>5, <1>6, NatInductive
<1>8. PICK f : folds(f, n) /\ SelectionLoop(q, dyn) = f[1..n]
  <2> HIDE DEF folds
  <2>1. \E f : folds(f, n)
    BY <1>7 DEF V
  <2> QED
    BY <1>3, <2>1
<1> DEFINE acc == [k \in 0..n |-> f[1..k]]
<1>9. acc[0] = base /\ acc[n] = f[1..n]
  <2>1. 1..0 = {} /\ {} \in SUBSET (1..n) /\ 0 \in 0..n /\ n \in 0..n
    BY <1>1
  <2>2. f[{}] = base
    BY <1>8, <2>1
  <2> QED
    BY <2>1, <2>2
<1>10. ASSUME NEW k \in 1..n
       PROVE  acc[k] = Turn(acc[k - 1], q[k])
  <2>1. k \in Nat /\ k - 1 \in 0..n /\ k \in 0..n
    BY <1>1
  <2>2. 1..k \in SUBSET (1..n) /\ 1..k # {} /\ k \in 1..k
    <3>1. k \in 1..k /\ k <= n
      BY <1>1, <2>1
    <3>2. \A j \in 1..k : j \in 1..n
      BY <1>1, <2>1, <3>1
    <3> QED
      BY <3>1, <3>2
  <2>3. Max(1..k) = k
    <3>1. Max(1..k) \in 1..k /\ \A j \in 1..k : j <= Max(1..k)
      BY <1>4, <2>1, <2>2
    <3> QED
      BY <2>1, <2>2, <3>1
  <2>4. (1..k) \ {k} = 1..(k - 1)
    BY <2>1
  <2>5. f[1..k] = Turn(f[(1..k) \ {Max(1..k)}], q[Max(1..k)])
    BY <1>8, <2>2
  <2>6. acc[k] = f[1..k] /\ acc[k - 1] = f[1..(k - 1)]
    BY <2>1
  <2> HIDE DEF acc, folds
  <2> QED
    BY <2>3, <2>4, <2>5, <2>6
<1> HIDE DEF acc
<1>11. acc[0] = [dyn |-> dyn, sel |-> q[1]]
  BY <1>9 DEF base
<1> QED
  BY <1>8, <1>9, <1>10, <1>11

(* After k turns the loop has aged the first k tasks and selected the      *)
(* first of the best among them.                                           *)
LEMMA LoopIsRight ==
  ASSUME NEW q \in Seq(Tasks), IsInjective(q), q # << >>, NEW dyn \in [Tasks -> Int]
  PROVE  LET r == SelectionLoop(q, dyn)
         IN  /\ \E i \in DOMAIN q : IsSelected(q, dyn, i) /\ r.sel = q[i]
             /\ r.dyn = [t \in Tasks |-> IF t \in ToSet(q) THEN dyn[t] - 1 ELSE dyn[t]]
<1> DEFINE n == Len(q)
           first(k) == {q[j] : j \in 1..k}
           best(i, k) == /\ \A j \in 1..k : dyn[q[i]] <= dyn[q[j]]
                         /\ \A j \in 1..(i - 1) : dyn[q[i]] < dyn[q[j]]
<1>1. /\ n \in Nat /\ n >= 1 /\ DOMAIN q = 1..n
      /\ \A j \in 1..n : q[j] \in Tasks
      /\ \A i, j \in 1..n : q[i] = q[j] => i = j
  <2>1. n \in Nat /\ DOMAIN q = 1..n /\ n # 0
    BY LenProperties, EmptySeq
  <2>2. \A j \in 1..n : q[j] \in Tasks
    BY ElementOfSeq
  <2>3. \A i, j \in 1..n : q[i] = q[j] => i = j
    BY <2>1 DEF IsInjective
  <2> QED
    BY <2>1, <2>2, <2>3
<1>2. PICK acc : /\ acc[0] = [dyn |-> dyn, sel |-> q[1]]
                 /\ \A k \in 1..n : acc[k] = Turn(acc[k - 1], q[k])
                 /\ SelectionLoop(q, dyn) = acc[n]
  BY LoopUnfolds
<1> HIDE DEF n
<1> DEFINE right(m) == /\ \E i \in 1..m : acc[m].sel = q[i] /\ best(i, m)
                       /\ acc[m].dyn = [t \in Tasks |->
                            IF t \in first(m) THEN dyn[t] - 1 ELSE dyn[t]]
           V == {k \in Nat : k < n => right(k + 1)}
<1>3. ASSUME NEW k \in Nat, k < n, NEW a, a = acc[k],
             a.dyn = [t \in Tasks |-> IF t \in first(k) THEN dyn[t] - 1 ELSE dyn[t]]
      PROVE  /\ acc[k + 1].dyn = [t \in Tasks |->
                                    IF t \in first(k + 1) THEN dyn[t] - 1 ELSE dyn[t]]
             /\ acc[k + 1].sel = IF acc[k + 1].dyn[q[k + 1]] + 1 < acc[k + 1].dyn[a.sel] + 1
                                   THEN q[k + 1] ELSE a.sel
             /\ q[k + 1] \in Tasks
  <2> DEFINE t == q[k + 1]
             aged == [a.dyn EXCEPT ![t] = @ - 1]
  <2>1. k + 1 \in 1..n /\ (k + 1) - 1 = k
    BY <1>1, <1>3
  <2>2. t \in Tasks /\ t \notin first(k)
    <3>1. \A j \in 1..k : j \in 1..n /\ j # k + 1
      BY <1>1, <1>3
    <3> QED
      BY <1>1, <2>1, <3>1
  <2>3. first(k + 1) = first(k) \cup {t}
    <3>1. 1..(k + 1) = (1..k) \cup {k + 1}
      OBVIOUS
    <3> QED
      BY <3>1
  <2> HIDE DEF t, first
  <2>4. aged = [u \in Tasks |-> IF u \in first(k + 1) THEN dyn[u] - 1 ELSE dyn[u]]
    <3>1. ASSUME NEW u \in Tasks
          PROVE  aged[u] = IF u \in first(k + 1) THEN dyn[u] - 1 ELSE dyn[u]
      BY <1>3, <2>2, <2>3
    <3>2. aged = [u \in Tasks |-> aged[u]]
      BY <1>3
    <3> HIDE DEF aged
    <3> QED
      BY <3>1, <3>2
  <2>5. acc[k + 1] = Turn(a, t)
    BY <1>2, <1>3, <2>1 DEF t
  <2>6. acc[k + 1] = [dyn |-> aged,
                      sel |-> IF aged[t] + 1 < aged[a.sel] + 1 THEN t ELSE a.sel]
    BY <2>5 DEF Turn
  <2> HIDE DEF aged
  <2> QED
    BY <2>2, <2>4, <2>6 DEF t
<1>4. 0 \in V
  <2> SUFFICES ASSUME 0 < n
               PROVE  /\ \E i \in 1..(0 + 1) : acc[0 + 1].sel = q[i] /\ best(i, 0 + 1)
                      /\ acc[0 + 1].dyn = [t \in Tasks |->
                           IF t \in first(0 + 1) THEN dyn[t] - 1 ELSE dyn[t]]
    OBVIOUS
  <2>1. first(0) = {} /\ 1 \in 1..n
    BY <1>1
  <2> HIDE DEF first
  <2>2. acc[0].dyn = [t \in Tasks |-> IF t \in first(0) THEN dyn[t] - 1 ELSE dyn[t]]
    BY <1>2, <2>1
  <2>3. /\ acc[0 + 1].dyn = [t \in Tasks |->
                               IF t \in first(0 + 1) THEN dyn[t] - 1 ELSE dyn[t]]
        /\ acc[0 + 1].sel = IF acc[0 + 1].dyn[q[0 + 1]] + 1 < acc[0 + 1].dyn[acc[0].sel] + 1
                              THEN q[0 + 1] ELSE acc[0].sel
    BY <1>3, <2>2
  <2>4. acc[0].sel = q[1]
    BY <1>2
  <2>5. acc[0 + 1].sel = q[1]
    BY <2>3, <2>4
  <2>6. best(1, 0 + 1)
    <3>1. dyn[q[1]] \in Int
      BY <1>1, <2>1
    <3> QED
      BY <3>1
  <2> QED
    BY <2>3, <2>5, <2>6
<1>5. \A k \in Nat : k \in V => k + 1 \in V
  <2> SUFFICES ASSUME NEW m \in Nat, m >= 1, m < n, right(m)
               PROVE  right(m + 1)
    <3> HIDE DEF right
    <3>1. ASSUME NEW k \in Nat, k \in V, k + 1 < n
          PROVE  right(k + 1 + 1)
      <4>1. k + 1 \in Nat /\ k + 1 >= 1 /\ k < n
        BY <1>1, <3>1
      <4> QED
        BY <3>1, <4>1
    <3> QED
      BY <3>1
  <2>1. m + 1 \in 1..n
    BY <1>1
  <2>2. PICK i \in 1..m : acc[m].sel = q[i] /\ best(i, m)
    OBVIOUS
  <2>3. acc[m].dyn = [t \in Tasks |-> IF t \in first(m) THEN dyn[t] - 1 ELSE dyn[t]]
    OBVIOUS
  <2> HIDE DEF V
  <2>4. /\ acc[m + 1].dyn = [t \in Tasks |->
                               IF t \in first(m + 1) THEN dyn[t] - 1 ELSE dyn[t]]
        /\ acc[m + 1].sel = IF acc[m + 1].dyn[q[m + 1]] + 1 < acc[m + 1].dyn[acc[m].sel] + 1
                              THEN q[m + 1] ELSE acc[m].sel
    BY <1>3, <2>1, <2>3
  <2>5. /\ q[i] \in Tasks /\ q[m + 1] \in Tasks /\ i \in 1..n
        /\ q[i] \in first(m + 1) /\ q[m + 1] \in first(m + 1)
    BY <1>1, <2>1
  <2>6. /\ acc[m + 1].dyn[q[m + 1]] = dyn[q[m + 1]] - 1
        /\ acc[m + 1].dyn[acc[m].sel] = dyn[q[i]] - 1
    BY <2>2, <2>4, <2>5
  <2>7. acc[m + 1].sel = IF dyn[q[m + 1]] < dyn[q[i]] THEN q[m + 1] ELSE q[i]
    <3>1. dyn[q[m + 1]] \in Int /\ dyn[q[i]] \in Int
      BY <2>5
    <3>2. (dyn[q[m + 1]] - 1) + 1 < (dyn[q[i]] - 1) + 1 <=> dyn[q[m + 1]] < dyn[q[i]]
      BY <3>1
    <3> QED
      BY <2>2, <2>4, <2>6, <3>2
  <2>8. \A j \in 1..m : q[j] \in Tasks /\ dyn[q[j]] \in Int
    BY <1>1, <2>1
  <2>9. \A j \in 1..(m + 1) : j \in 1..m \/ j = m + 1
    BY <2>1
  <2>10. \E h \in 1..(m + 1) : acc[m + 1].sel = q[h] /\ best(h, m + 1)
    <3>1. CASE dyn[q[m + 1]] < dyn[q[i]]
      <4>1. \A j \in 1..m : dyn[q[m + 1]] < dyn[q[j]]
        BY <2>2, <2>5, <2>8, <3>1
      <4>2. (m + 1) - 1 = m /\ m + 1 \in 1..(m + 1)
        BY <2>1
      <4>3. dyn[q[m + 1]] <= dyn[q[m + 1]]
        BY <2>5
      <4>4. best(m + 1, m + 1)
        <5>1. ASSUME NEW j \in 1..(m + 1)
              PROVE  dyn[q[m + 1]] <= dyn[q[j]]
          <6>1. CASE j = m + 1
            BY <4>3, <6>1
          <6>2. CASE j \in 1..m
            BY <2>5, <2>8, <4>1, <6>2
          <6> QED
            BY <2>9, <6>1, <6>2
        <5>2. ASSUME NEW j \in 1..((m + 1) - 1)
              PROVE  dyn[q[m + 1]] < dyn[q[j]]
          BY <4>1, <4>2
        <5> QED
          BY <5>1, <5>2
      <4> QED
        BY <2>7, <3>1, <4>2, <4>4
    <3>2. CASE ~ (dyn[q[m + 1]] < dyn[q[i]])
      <4>1. dyn[q[i]] <= dyn[q[m + 1]]
        BY <2>5, <3>2
      <4>2. best(i, m + 1)
        BY <2>2, <2>9, <4>1
      <4>3. i \in 1..(m + 1)
        BY <2>1
      <4> QED
        BY <2>7, <3>2, <4>2, <4>3
    <3> QED
      BY <3>1, <3>2
  <2> QED
    BY <2>4, <2>10
<1> HIDE DEF V
<1>6. n - 1 \in V /\ (n - 1) + 1 = n /\ n - 1 < n
  <2>1. n - 1 \in Nat /\ (n - 1) + 1 = n /\ n - 1 < n
    BY <1>1
  <2>2. Nat \subseteq V
    BY <1>4, <1>5, NatInductive
  <2> QED
    BY <2>1, <2>2
<1>7. /\ \E i \in 1..n : acc[n].sel = q[i] /\ best(i, n)
      /\ acc[n].dyn = [t \in Tasks |-> IF t \in first(n) THEN dyn[t] - 1 ELSE dyn[t]]
  BY <1>6 DEF V
<1>8. ToSet(q) = first(n)
  BY <1>1 DEF ToSet
<1>9. \A i \in 1..n : best(i, n) => IsSelected(q, dyn, i)
  BY <1>1 DEF IsSelected
<1> HIDE DEF first, best
<1> QED
  BY <1>1, <1>2, <1>7, <1>8, <1>9

(* Aging while selecting does not disturb the selection.                   *)
THEOREM LoopIsSelection == Spec => []LoopSelectsFirstBest
<1>1. IInv => LoopSelectsFirstBest
  BY LoopIsRight DEF IInv, PlaceInv, LoopSelectsFirstBest
<1> QED
  BY <1>1, InvHolds, PTL
=============================================================================
