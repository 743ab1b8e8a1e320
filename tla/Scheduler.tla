----------------------------- MODULE Scheduler -----------------------------
(***************************************************************************)
(* The priority scheduler with aging of kernel/scheduler.c, and how tasks  *)
(* come to it: created or awoken tasks and tasks that yield go to the end  *)
(* of the ready queue, task_run takes the selected one off it, and a       *)
(* running task may change the priority of any task that exists.           *)
(*                                                                         *)
(* This is where the fairness assumed of Dispatch in module Dispatcher     *)
(* comes from: BoundedWait.                                                *)
(***************************************************************************)
EXTENDS SequencesExt, Integers

CONSTANTS Tasks,
          NoTask,     \* nobody runs: the dispatcher does
          MinPrio,    \* -20
          MaxPrio     \* 20

ASSUME SchedulerAssumption ==
  /\ IsFiniteSet(Tasks)
  /\ NoTask \notin Tasks
  /\ MinPrio \in Int /\ MaxPrio \in Int
  /\ 0 \in MinPrio..MaxPrio

VARIABLES
  ready,     \* ready_queue
  running,   \* the task that executes
  blocked,   \* tasks suspended or asleep
  static,    \* TCB static_priority
  dynamic,   \* TCB dynamic_priority
  waited     \* history: selections a ready task has been passed over in,
             \* since it became ready or since its priority was last set

vars == <<ready, running, blocked, static, dynamic, waited>>

Existing == ToSet(ready) \cup blocked \cup {running}

TypeOK ==
  /\ ready \in Seq(Tasks)
  /\ running \in Tasks \cup {NoTask}
  /\ blocked \subseteq Tasks
  /\ static \in [Tasks -> MinPrio..MaxPrio]
  /\ dynamic \in [Tasks -> Int]
  /\ waited \in [Tasks -> Nat]

Init ==
  /\ ready = << >>
  /\ running = NoTask
  /\ blocked = {}
  /\ static = [t \in Tasks |-> 0]
  /\ dynamic = [t \in Tasks |-> 0]
  /\ waited = [t \in Tasks |-> 0]

(* The lowest dynamic priority wins, the one queued first among equals. *)
IsSelected(q, dyn, i) ==
  /\ \A j \in DOMAIN q : dyn[q[i]] <= dyn[q[j]]
  /\ \A j \in 1..(i - 1) : dyn[q[i]] < dyn[q[j]]

(* Mutant: nobody ages. *)
NoAging(i) == [t \in Tasks |-> IF t = ready[i] THEN static[t] ELSE dynamic[t]]

(* Mutant: the selected task keeps the priority it has aged to. *)
AgingForGood(i) ==
  [t \in Tasks |-> IF t \in ToSet(ready) THEN dynamic[t] - 1 ELSE dynamic[t]]

(* Every task of the queue ages by one, and the selected one, at position *)
(* i, goes back to its static priority.                                   *)
Aging(i) ==
  [t \in Tasks |-> IF t = ready[i] THEN static[t]
                   ELSE IF t \in ToSet(ready) THEN dynamic[t] - 1 ELSE dynamic[t]]

(* scheduler and the queue_del of task_run: the queue ages and the *)
(* selected task leaves it.                                        *)
Schedule ==
  /\ running = NoTask
  /\ \E i \in DOMAIN ready :
       /\ IsSelected(ready, dynamic, i)
       /\ running' = ready[i]
       /\ ready' = RemoveFirst(ready, ready[i])
       /\ dynamic' = Aging(i)
       /\ waited' = [t \in Tasks |->
                       IF t \in ToSet(ready) /\ t # ready[i] THEN waited[t] + 1 ELSE 0]
  /\ UNCHANGED <<blocked, static>>

(* task_create: both priorities are 0. *)
Create(t) ==
  /\ t \notin Existing
  /\ running # NoTask
  /\ ready' = Append(ready, t)
  /\ UNCHANGED <<running, blocked, static, dynamic, waited>>

(* dispatcher() creates the first task itself. *)
CreateFirst(t) ==
  /\ Existing = {NoTask}
  /\ ready' = Append(ready, t)
  /\ UNCHANGED <<running, blocked, static, dynamic, waited>>

(* task_yield. *)
Yield ==
  /\ running # NoTask
  /\ ready' = Append(ready, running)
  /\ running' = NoTask
  /\ UNCHANGED <<blocked, static, dynamic, waited>>

(* task_suspend; a task that exits is not told from one that never wakes. *)
Suspend ==
  /\ running # NoTask
  /\ blocked' = blocked \cup {running}
  /\ running' = NoTask
  /\ UNCHANGED <<ready, static, dynamic, waited>>

(* task_awake, by a task or by the dispatcher. *)
Awake(t) ==
  /\ t \in blocked
  /\ blocked' = blocked \ {t}
  /\ ready' = Append(ready, t)
  /\ UNCHANGED <<running, static, dynamic, waited>>

(* Mutant: the range of the argument is not checked. *)
SetAnyPrio(t, prio) ==
  /\ running # NoTask
  /\ t \in Existing \ {NoTask}
  /\ static' = [static EXCEPT ![t] = prio]
  /\ dynamic' = [dynamic EXCEPT ![t] = prio]
  /\ waited' = [waited EXCEPT ![t] = 0]
  /\ UNCHANGED <<ready, running, blocked>>

(* sched_setprio by the running task, on itself (NULL) or on another one;  *)
(* a value out of range fails the assertion and ends the program.          *)
SetPrio(t, prio) ==
  /\ running # NoTask
  /\ prio \in MinPrio..MaxPrio
  /\ t \in Existing \ {NoTask}
  /\ static' = [static EXCEPT ![t] = prio]
  /\ dynamic' = [dynamic EXCEPT ![t] = prio]
  /\ waited' = [waited EXCEPT ![t] = 0]
  /\ UNCHANGED <<ready, running, blocked>>

Next ==
  \/ Schedule
  \/ Yield
  \/ Suspend
  \/ \E t \in Tasks :
       \/ Create(t)
       \/ CreateFirst(t)
       \/ Awake(t)
       \/ \E prio \in (MinPrio - 1)..(MaxPrio + 1) : SetPrio(t, prio)

Spec == Init /\ [][Next]_vars

(***************************************************************************)
(* Correctness.                                                            *)
(***************************************************************************)

(* Mutant: an equally good task replaces the selected one. *)
LoopTakesLast(q, dyn) ==
  FoldLeft(LAMBDA acc, t :
             LET aged == [acc.dyn EXCEPT ![t] = @ - 1]
             IN  [dyn |-> aged,
                  sel |-> IF aged[t] + 1 <= aged[acc.sel] + 1 THEN t ELSE acc.sel],
           [dyn |-> dyn, sel |-> q[1]], q)

(* The loop of scheduler(), turn by turn: the task at the iterator ages    *)
(* and replaces the selected one when it was strictly better before aging. *)
SelectionLoop(q, dyn) ==
  FoldLeft(LAMBDA acc, t :
             LET aged == [acc.dyn EXCEPT ![t] = @ - 1]
             IN  [dyn |-> aged,
                  sel |-> IF aged[t] + 1 < aged[acc.sel] + 1 THEN t ELSE acc.sel],
           [dyn |-> dyn, sel |-> q[1]], q)

(* Aging while selecting does not disturb the selection: the loop returns  *)
(* the first task with the lowest priority the queue had before it, and    *)
(* has aged each task exactly once.                                        *)
LoopSelectsFirstBest ==
  ready # << >> =>
    LET r == SelectionLoop(ready, dynamic)
    IN  /\ \E i \in DOMAIN ready : IsSelected(ready, dynamic, i) /\ r.sel = ready[i]
        /\ r.dyn = [t \in Tasks |-> IF t \in ToSet(ready) THEN dynamic[t] - 1
                                                          ELSE dynamic[t]]

(* Aging prevents starvation, whatever the priorities: a ready task whose  *)
(* priority is left alone is passed over at most as often as the range of  *)
(* priorities is wide, and once more for every other task.                 *)
BoundedWait ==
  \A t \in ToSet(ready) : waited[t] <= MaxPrio - MinPrio + Cardinality(Tasks) - 1

(* dynamic_priority is "without restrictions" in the TCB, yet it never     *)
(* falls more than a task's worth below the lowest static priority.        *)
DynamicBounded ==
  \A t \in Tasks : dynamic[t] \in (MinPrio - Cardinality(Tasks) + 1)..MaxPrio

(***************************************************************************)
(* The inductive invariant that BoundedWait and DynamicBounded rest on.    *)
(***************************************************************************)

(* The task runs, is ready, or is blocked. *)
PlaceInv ==
  /\ IsInjective(ready)
  /\ running \notin ToSet(ready) \cup blocked
  /\ blocked \cap ToSet(ready) = {}

(* A ready task has aged once for every selection it was passed over in. *)
PriorityInv ==
  \A t \in Tasks :
    /\ t \in ToSet(ready) => dynamic[t] = static[t] - waited[t]
    /\ t \notin ToSet(ready) => dynamic[t] = static[t] /\ waited[t] = 0

(* At most N - k of the N tasks have aged k below the lowest priority: a   *)
(* selection takes one task out of the lowest and lowers the others.       *)
Low(k) == {t \in Tasks : dynamic[t] <= MinPrio - k}

CrowdInv ==
  \A k \in 1..Cardinality(Tasks) : Cardinality(Low(k)) <= Cardinality(Tasks) - k

IInv == TypeOK /\ PlaceInv /\ PriorityInv /\ CrowdInv
=============================================================================
