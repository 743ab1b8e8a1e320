---------------------------- MODULE MessageQueue ----------------------------
(***************************************************************************)
(* kernel/mqueue.c: one message queue, a circular buffer behind three      *)
(* semaphores, and the tasks that call mqueue_send, mqueue_recv and        *)
(* mqueue_destroy on it.  A semaphore is what CountingSemaphore says,      *)
(* which module Semaphore implements.  Any task may run between two steps  *)
(* of a call; the operation on the buffer is one step, which               *)
(* BufferExclusive justifies.                                              *)
(*                                                                         *)
(* mqueue_destroy first frees what the other calls are using, with nothing *)
(* to keep them out.  DestroyRace = TRUE lets it run at any time; FALSE is *)
(* a program that destroys the queue while the others are outside their    *)
(* calls or blocked in the first sem_down, and is not preempted meanwhile. *)
(***************************************************************************)
EXTENDS CircularBuffer, Functions, FiniteSets

CONSTANTS Tasks, DestroyRace

ASSUME MessageQueueAssumption == IsFiniteSet(Tasks) /\ DestroyRace \in BOOLEAN

VARIABLES
  sem,     \* space_available, items_available and buffer
  store,   \* buff.buffer: "held", "freed", or "none": its allocation failed
  gone,    \* the struct is freed
  op,      \* "send" or "recv", the call of each task
  pc       \* where each task is in it

bufferVars == <<buffer, item_quant, start, end, dest>>
queueVars  == <<bufferVars, sem, store, gone, op, pc>>

Sems == {"space", "items", "mutex"}   \* "mutex" is the field `buffer'

InCall   == {"first", "lock", "copy", "unlock", "last"}
Blocked  == {"first_wait", "lock_wait"}
DestroyPC == {"close_space", "close_items", "free"}

QueueTypeOK ==
  /\ TypeOK
  /\ sem \in [Sems -> [permits : Nat, queue : Seq(Tasks), closed : BOOLEAN]]
  /\ store \in {"held", "none", "freed"}
  /\ gone \in BOOLEAN
  /\ op \in [Tasks -> {"send", "recv"}]
  /\ pc \in [Tasks -> {"out"} \cup InCall \cup Blocked \cup DestroyPC]

Initially(n, closed) == [permits |-> n, queue |-> << >>, closed |-> closed]

(* Mutant: the buffer's semaphore starts with two permits. *)
CreatedTwice(s, closed) ==
  Initially(IF closed THEN 0 ELSE CASE s = "space" -> max_capacity
                                    [] s = "items" -> 0
                                    [] s = "mutex" -> 2, closed)

CreatedSem(s, closed) ==
  Initially(IF closed THEN 0 ELSE CASE s = "space" -> max_capacity
                                    [] s = "items" -> 0
                                    [] s = "mutex" -> 1, closed)

(* mqueue_create has returned a queue.  It does not look whether the buffer *)
(* was allocated, and goes on when the third semaphore was not: the other   *)
(* two are then destroyed, the buffer freed, and sem_down(NULL) fails.      *)
QueueInit ==
  /\ Init
  /\ store \in {"held", "none", "freed"}
  /\ sem = [s \in Sems |-> CreatedSem(s, store = "freed")]
  /\ gone = FALSE
  /\ op = [t \in Tasks |-> "send"]
  /\ pc = [t \in Tasks |-> "out"]

Goto(t, l) == pc' = [pc EXCEPT ![t] = l]

Destroying == gone \/ \E t \in Tasks : pc[t] \in DestroyPC

(* Who may run: everybody, but for the program DestroyRace = FALSE names. *)
MayStep(t) == DestroyRace \/ \A u \in Tasks \ {t} : pc[u] \notin DestroyPC

(* Mutant: both calls wait for space. *)
FirstIsSpace(t) == "space"

First(t) == IF op[t] = "send" THEN "space" ELSE "items"
Last(t)  == IF op[t] = "send" THEN "items" ELSE "space"

(* A call may come at any time, after mqueue_destroy as well.  It then      *)
(* takes its semaphores from the freed struct, which still holds them: the *)
(* model is of a program that has not allocated those bytes again.         *)
Call(t, o) ==
  /\ pc[t] = "out"
  /\ op' = [op EXCEPT ![t] = o]
  /\ Goto(t, "first")
  /\ UNCHANGED <<bufferVars, sem, store, gone>>

(* sem_down: a destroyed semaphore fails the call, no permit blocks it. *)
SemDown(t, s, next, wait) ==
  /\ IF sem[s].closed
       THEN Goto(t, "out") /\ UNCHANGED sem
       ELSE IF sem[s].permits > 0
              THEN Goto(t, next) /\ sem' = [sem EXCEPT ![s].permits = @ - 1]
              ELSE Goto(t, wait) /\ sem' = [sem EXCEPT ![s].queue = Append(@, t)]
  /\ UNCHANGED <<bufferVars, store, gone, op>>

Down(t) ==
  \/ pc[t] = "first" /\ SemDown(t, First(t), "lock", "first_wait")
  \/ pc[t] = "lock" /\ SemDown(t, "mutex", "copy", "lock_wait")

Queued(s) == Range(sem[s].queue)

(* Mutant: a task that comes back does not see that the queue is destroyed. *)
WakeIgnoresClosed(t) ==
  /\ \/ pc[t] = "first_wait" /\ t \notin Queued(First(t)) /\ Goto(t, "lock")
     \/ pc[t] = "lock_wait" /\ t \notin Queued("mutex") /\ Goto(t, "copy")
  /\ UNCHANGED <<bufferVars, sem, store, gone, op>>

(* A task that was let go runs again. *)
Wake(t) ==
  /\ \/ /\ pc[t] = "first_wait"
        /\ t \notin Queued(First(t))
        /\ Goto(t, IF sem[First(t)].closed THEN "out" ELSE "lock")
     \/ /\ pc[t] = "lock_wait"
        /\ t \notin Queued("mutex")
        /\ Goto(t, "copy")
  /\ UNCHANGED <<bufferVars, sem, store, gone, op>>

(* circular_buffer_add or _remove.  When it fails, mqueue_send returns with *)
(* the buffer's semaphore taken; mqueue_recv compares with ERROR, which     *)
(* circular_buffer_remove never returns.  Undefined on a buffer freed by    *)
(* mqueue_destroy (NobodyInside).                                           *)
Copy(t) ==
  /\ pc[t] = "copy"
  /\ store # "freed"
  /\ IF op[t] = "send"
       THEN IF store = "none" \/ item_quant = max_capacity
              THEN Goto(t, "out") /\ UNCHANGED bufferVars
              ELSE Goto(t, "unlock") /\ \E x \in Items : Add(x)
       ELSE /\ Goto(t, "unlock")
            /\ IF item_quant = 0 THEN UNCHANGED bufferVars ELSE Remove
  /\ UNCHANGED <<sem, store, gone, op>>

(* sem_up: the permit goes to the first of the queue, if there is one. *)
SemUp(s) ==
  sem' = IF sem[s].closed THEN sem
         ELSE IF sem[s].queue = << >> THEN [sem EXCEPT ![s].permits = @ + 1]
                                      ELSE [sem EXCEPT ![s].queue = Tail(@)]

(* Mutant: the call returns with the buffer's semaphore taken. *)
LastUpOnly(t) ==
  /\ \/ pc[t] = "unlock" /\ Goto(t, "last") /\ UNCHANGED sem
     \/ pc[t] = "last" /\ Goto(t, "out") /\ SemUp(Last(t))
  /\ UNCHANGED <<bufferVars, store, gone, op>>

Up(t) ==
  /\ \/ pc[t] = "unlock" /\ Goto(t, "last") /\ SemUp("mutex")
     \/ pc[t] = "last" /\ Goto(t, "out") /\ SemUp(Last(t))
  /\ UNCHANGED <<bufferVars, store, gone, op>>

(* mqueue_destroy, once: the buffer is freed first. *)
Destroy(t) ==
  /\ pc[t] = "out"
  /\ ~ Destroying
  /\ DestroyRace \/ \A u \in Tasks : pc[u] \in {"out", "first_wait"}
  /\ store' = IF store = "held" THEN "freed" ELSE store
  /\ Goto(t, "close_space")
  /\ UNCHANGED <<bufferVars, sem, gone, op>>

(* sem_destroy: the semaphore fails from now on, then everybody is let go. *)
SemDestroyTurn(t, s, next) ==
  /\ sem' = IF ~ sem[s].closed
              THEN [sem EXCEPT ![s].closed = TRUE, ![s].permits = 0]
            ELSE IF sem[s].queue # << >> THEN [sem EXCEPT ![s].queue = Tail(@)] ELSE sem
  /\ Goto(t, IF sem[s].closed /\ sem[s].queue = << >> THEN next ELSE pc[t])

(* Mutant: the receivers' semaphore is forgotten. *)
DestroySpaceOnly(t) ==
  /\ \/ pc[t] = "close_space" /\ SemDestroyTurn(t, "space", "free") /\ UNCHANGED gone
     \/ pc[t] = "free" /\ Goto(t, "out") /\ gone' = TRUE /\ UNCHANGED sem
  /\ UNCHANGED <<bufferVars, store, op>>

(* The other two semaphores, never the buffer's, and then the struct. *)
DestroyStep(t) ==
  /\ \/ pc[t] = "close_space" /\ SemDestroyTurn(t, "space", "close_items") /\ UNCHANGED gone
     \/ pc[t] = "close_items" /\ SemDestroyTurn(t, "items", "free") /\ UNCHANGED gone
     \/ pc[t] = "free" /\ Goto(t, "out") /\ gone' = TRUE /\ UNCHANGED sem
  /\ UNCHANGED <<bufferVars, store, op>>

CallStep(t) == MayStep(t) /\ (Down(t) \/ Wake(t) \/ Copy(t) \/ Up(t) \/ DestroyStep(t))

QueueNext ==
  \E t \in Tasks :
    CallStep(t) \/ (MayStep(t) /\ (Destroy(t) \/ \E o \in {"send", "recv"} : Call(t, o)))

(* A task inside a call goes on with it; nobody has to make a call. *)
QueueSpec == QueueInit /\ [][QueueNext]_queueVars
FairQueueSpec == QueueSpec /\ \A t \in Tasks : WF_queueVars(CallStep(t))

(***************************************************************************)
(* Correctness.                                                            *)
(***************************************************************************)

(* One task at a time works on the circular buffer: add and remove move    *)
(* the indices in several steps and have no other protection.              *)
BufferExclusive ==
  \A t, u \in Tasks : {pc[t], pc[u]} \subseteq {"copy", "unlock"} => t = u

(* The semaphores keep count of the buffer: nobody who has come through    *)
(* them finds it full, or empty, which neither mqueue_send nor mqueue_recv *)
(* would survive.                                                          *)
NeverFullNorEmpty ==
  \A t \in Tasks :
    pc[t] = "copy" /\ store = "held" =>
      IF op[t] = "send" THEN item_quant < max_capacity ELSE item_quant > 0

(* Nobody works on the buffer after mqueue_destroy freed it, and once the  *)
(* struct is freed no call is further than its first sem_down: neither one *)
(* that was blocked there and is let go, nor one that is made afterwards,  *)
(* which test/pingpong-mqueue.c makes and expects to fail.  A later call   *)
(* does read the freed struct once, to find that semaphore.                *)
NobodyInside ==
  \A t \in Tasks :
    /\ pc[t] = "copy" => store # "freed"
    /\ gone => pc[t] \in {"out", "first", "first_wait"}

(* Whoever waits for the buffer gets it: no call keeps its semaphore.  Not *)
(* so when the buffer was never allocated and mqueue_send fails on it.     *)
BufferPassedOn ==
  \A t \in Tasks : pc[t] = "lock_wait" /\ store # "none" ~> pc[t] = "copy"

(* "destroi uma fila de mensagens, liberando recursos e tarefas"           *)
(* (mqueue.h): every task that was blocked comes back.                     *)
DestroyReleases == \A t \in Tasks : gone ~> pc[t] = "out"

(***************************************************************************)
(* The inductive invariant that BufferExclusive and NeverFullNorEmpty rest *)
(* on.                                                                     *)
(***************************************************************************)

(* A task is in the queue of the one semaphore it is blocked on. *)
Awaited(t) == IF pc[t] = "lock_wait" THEN "mutex" ELSE First(t)

WaitInv ==
  \A s \in Sems :
    /\ IsInjective(sem[s].queue)
    /\ \A t \in Queued(s) : pc[t] \in Blocked /\ Awaited(t) = s

(* One task at most has the buffer's permit, let go or not yet running. *)
HasBuffer(t) ==
  pc[t] \in {"copy", "unlock"} \/ (pc[t] = "lock_wait" /\ t \notin Queued("mutex"))

MutexInv ==
  /\ sem["mutex"].permits <= 1
  /\ \A t \in Tasks : HasBuffer(t) => sem["mutex"].permits = 0
  /\ \A t, u \in Tasks : HasBuffer(t) /\ HasBuffer(u) => t = u

(* The task has a permit of the first semaphore of its call. *)
HasFirst(t) ==
  \/ pc[t] \in {"lock", "lock_wait", "copy"}
  \/ pc[t] = "first_wait" /\ t \notin Queued(First(t)) /\ ~ sem[First(t)].closed

(* The tasks that have a permit of s, or have still to give one back.      *)
Claims(s) ==
  {t \in Tasks : IF First(t) = s THEN HasFirst(t) ELSE pc[t] \in {"unlock", "last"}}

(* The permits and claims are covered by the slots, and by the items.      *)
CountInv ==
  store = "held" =>
    /\ sem["space"].permits + Cardinality(Claims("space")) <= max_capacity - item_quant
    /\ sem["items"].permits + Cardinality(Claims("items")) <= item_quant

QueueInv == QueueTypeOK /\ IndicesAgree /\ WaitInv /\ MutexInv /\ CountInv

(***************************************************************************)
(* What NobodyInside rests on where DestroyRace = FALSE.                   *)
(***************************************************************************)

Drained(s) == sem[s].closed /\ sem[s].queue = << >>

(* The destroyer is alone, finds nobody beyond the first sem_down, and     *)
(* leaves no semaphore behind that could let anybody through it, those who *)
(* call when it is done included.                                          *)
DestroyerInv ==
  /\ \A t, u \in Tasks : {pc[t], pc[u]} \subseteq DestroyPC => t = u /\ ~ gone
  /\ Destroying => \A t \in Tasks : \/ pc[t] \in {"out", "first_wait"} \cup DestroyPC
                                    \/ gone /\ pc[t] = "first"
  /\ (gone \/ \E t \in Tasks : pc[t] \in {"close_items", "free"}) => Drained("space")
  /\ (gone \/ \E t \in Tasks : pc[t] = "free") => Drained("items")

(* A queue whose semaphores could not be made fails every call at once.    *)
NoQueueInv ==
  store = "freed" /\ ~ Destroying =>
    /\ \A s \in Sems : sem[s].closed
    /\ \A t \in Tasks : pc[t] \in {"out", "first"}
=============================================================================
