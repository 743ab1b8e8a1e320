------------------------- MODULE MessageQueueProofs -------------------------
(***************************************************************************)
(* A message queue keeps its buffer a bounded FIFO, whatever the tasks do  *)
(* on it: for any number of tasks, any capacity and any items, and with    *)
(* mqueue_destroy at any time.                                             *)
(***************************************************************************)
EXTENDS MessageQueue, CircularBufferProofs, FiniteSetTheorems

USE BufferAssumption, MessageQueueAssumption
USE DEF Sems, InCall, Blocked, DestroyPC, Goto, bufferVars

(***************************************************************************)
(* The wait queues.                                                        *)
(***************************************************************************)

(* A task joins a queue. *)
LEMMA Joined ==
  ASSUME NEW q \in Seq(Tasks), NEW t \in Tasks
  PROVE  /\ Append(q, t) \in Seq(Tasks)
         /\ Range(Append(q, t)) = Range(q) \cup {t}
         /\ IsInjective(q) /\ t \notin Range(q) => IsInjective(Append(q, t))
<1>1. /\ Append(q, t) \in Seq(Tasks)
      /\ Len(Append(q, t)) = Len(q) + 1
      /\ \A i \in 1..Len(q) : Append(q, t)[i] = q[i]
      /\ Append(q, t)[Len(q) + 1] = t
  BY AppendProperties
<1>2. /\ Len(q) \in Nat
      /\ DOMAIN q = 1..Len(q)
      /\ DOMAIN Append(q, t) = 1..(Len(q) + 1)
  BY <1>1, LenProperties
<1>3. Range(Append(q, t)) = Range(q) \cup {t}
  BY <1>1, <1>2 DEF Range
<1>4. ASSUME IsInjective(q), t \notin Range(q)
      PROVE  IsInjective(Append(q, t))
  <2> SUFFICES ASSUME NEW i \in 1..(Len(q) + 1), NEW j \in 1..(Len(q) + 1),
                      Append(q, t)[i] = Append(q, t)[j]
               PROVE  i = j
    BY <1>2 DEF IsInjective
  <2>1. \A k \in 1..Len(q) : q[k] # t
    BY <1>2, <1>4 DEF Range
  <2>2. \A k, l \in 1..Len(q) : q[k] = q[l] => k = l
    BY <1>2, <1>4 DEF IsInjective
  <2> QED
    BY <1>1, <1>2, <2>1, <2>2
<1> QED
  BY <1>1, <1>3, <1>4

(* The first task of a queue leaves it. *)
LEMMA Left ==
  ASSUME NEW q \in Seq(Tasks), q # << >>
  PROVE  /\ Tail(q) \in Seq(Tasks)
         /\ Head(q) \in Range(q)
         /\ Range(q) \subseteq Range(Tail(q)) \cup {Head(q)}
         /\ IsInjective(q) => /\ IsInjective(Tail(q))
                              /\ Range(Tail(q)) = Range(q) \ {Head(q)}
<1>1. /\ Len(q) \in Nat \ {0}
      /\ DOMAIN q = 1..Len(q)
      /\ Head(q) = q[1]
      /\ Tail(q) \in Seq(Tasks)
      /\ DOMAIN Tail(q) = 1..(Len(q) - 1)
      /\ \A i \in 1..(Len(q) - 1) : Tail(q)[i] = q[i + 1]
  OBVIOUS
<1>2. Head(q) \in Range(q)
  BY <1>1 DEF Range
<1>3. ASSUME NEW i \in 1..Len(q), i # 1
      PROVE  \E j \in 1..(Len(q) - 1) : q[i] = Tail(q)[j]
  <2>1. i - 1 \in 1..(Len(q) - 1) /\ Tail(q)[i - 1] = q[i]
    BY <1>1, <1>3
  <2> QED
    BY <2>1
<1>4. Range(q) \subseteq Range(Tail(q)) \cup {Head(q)}
  <2> SUFFICES ASSUME NEW i \in 1..Len(q)
               PROVE  q[i] \in Range(Tail(q)) \cup {Head(q)}
    BY <1>1 DEF Range
  <2>1. CASE i = 1
    BY <1>1, <2>1
  <2>2. CASE i # 1
    BY <1>1, <1>3, <2>2 DEF Range
  <2> QED
    BY <2>1, <2>2
<1>5. ASSUME IsInjective(q)
      PROVE  IsInjective(Tail(q)) /\ Range(Tail(q)) = Range(q) \ {Head(q)}
  <2>1. \A i, j \in 1..Len(q) : q[i] = q[j] => i = j
    BY <1>1, <1>5 DEF IsInjective
  <2>2. IsInjective(Tail(q))
    <3> SUFFICES ASSUME NEW i \in 1..(Len(q) - 1), NEW j \in 1..(Len(q) - 1),
                        Tail(q)[i] = Tail(q)[j]
                 PROVE  i = j
      BY <1>1 DEF IsInjective
    <3> QED
      BY <1>1, <2>1
  <2>3. ASSUME NEW i \in 1..(Len(q) - 1)
        PROVE  Tail(q)[i] \in Range(q) \ {Head(q)}
    <3>1. i + 1 \in 1..Len(q) /\ Tail(q)[i] = q[i + 1] /\ q[i + 1] # q[1]
      BY <1>1, <2>1
    <3> QED
      BY <1>1, <3>1 DEF Range
  <2> QED
    BY <1>1, <1>4, <2>2, <2>3 DEF Range
<1> QED
  BY <1>1, <1>2, <1>4, <1>5

(***************************************************************************)
(* The semaphores.                                                         *)
(***************************************************************************)

SemType == [permits : Nat, queue : Seq(Tasks), closed : BOOLEAN]

(* An operation on the semaphore s leaves the others alone. *)
Others(s) ==
  \A r \in Sems \ {s} : /\ sem'[r].permits = sem[r].permits
                        /\ sem'[r].queue = sem[r].queue
                        /\ sem'[r].closed = sem[r].closed
                        /\ Queued(r)' = Queued(r)

(* The three things that happen in sem_down. *)
Refused(t, s) ==
  /\ sem[s].closed
  /\ sem'[s] = sem[s]
  /\ Queued(s)' = Queued(s)
  /\ Goto(t, "out")

Admitted(t, s, next) ==
  /\ ~ sem[s].closed
  /\ sem[s].permits > 0
  /\ sem'[s].permits = sem[s].permits - 1
  /\ sem'[s].queue = sem[s].queue
  /\ ~ sem'[s].closed
  /\ Queued(s)' = Queued(s)
  /\ Goto(t, next)

Enqueued(t, s, wait) ==
  /\ ~ sem[s].closed
  /\ sem[s].permits = 0
  /\ sem'[s].permits = 0
  /\ Queued(s)' = Queued(s) \cup {t}
  /\ IsInjective(sem[s].queue) /\ t \notin Queued(s) => IsInjective(sem'[s].queue)
  /\ ~ sem'[s].closed
  /\ Goto(t, wait)

LEMMA SemDownCases ==
  ASSUME QueueTypeOK, NEW t \in Tasks, NEW s \in Sems, NEW next, NEW wait,
         SemDown(t, s, next, wait)
  PROVE  /\ sem' \in [Sems -> SemType]
         /\ Others(s)
         /\ Refused(t, s) \/ Admitted(t, s, next) \/ Enqueued(t, s, wait)
<1>0. sem \in [Sems -> SemType]
  BY DEF QueueTypeOK, SemType
<1>1. CASE sem[s].closed
  BY <1>0, <1>1 DEF SemDown, Others, Refused, Queued
<1>2. CASE ~ sem[s].closed /\ sem[s].permits > 0
  <2>1. sem' = [sem EXCEPT ![s].permits = @ - 1] /\ Goto(t, next)
    BY <1>2 DEF SemDown
  <2>2. sem[s] \in SemType /\ sem[s].permits - 1 \in Nat
    BY <1>0, <1>2 DEF SemType
  <2>3. [sem[s] EXCEPT !.permits = sem[s].permits - 1] \in SemType
    BY <2>2 DEF SemType
  <2>4. sem' \in [Sems -> SemType]
    BY <1>0, <2>1, <2>3
  <2> QED
    BY <1>0, <1>2, <2>1, <2>4 DEF SemType, Others, Admitted, Queued
<1>3. CASE ~ sem[s].closed /\ ~ (sem[s].permits > 0)
  <2>1. sem' = [sem EXCEPT ![s].queue = Append(@, t)] /\ Goto(t, wait)
    BY <1>3 DEF SemDown
  <2>2. sem[s].queue \in Seq(Tasks) /\ sem[s].permits = 0
    BY <1>0, <1>3 DEF SemType
  <2>3. sem' \in [Sems -> SemType] /\ Others(s)
    BY <1>0, <2>1, <2>2, Joined DEF SemType, Others, Queued
  <2>4. /\ sem'[s].queue = Append(sem[s].queue, t)
        /\ sem'[s].permits = 0
        /\ ~ sem'[s].closed
    BY <1>0, <1>3, <2>1, <2>2 DEF SemType
  <2> QED
    BY <1>3, <2>1, <2>2, <2>3, <2>4, Joined DEF Enqueued, Queued
<1> QED
  BY <1>1, <1>2, <1>3

(* The three things that happen in sem_up. *)
NoEffect(s) ==
  /\ sem[s].closed
  /\ sem'[s] = sem[s]
  /\ Queued(s)' = Queued(s)

Released(s) ==
  /\ ~ sem[s].closed
  /\ Queued(s) = {}
  /\ sem'[s].permits = sem[s].permits + 1
  /\ sem'[s].queue = sem[s].queue
  /\ sem'[s].closed = sem[s].closed
  /\ Queued(s)' = Queued(s)

LetGo(s) ==
  /\ sem'[s].permits = sem[s].permits
  /\ sem'[s].closed = sem[s].closed
  /\ IsInjective(sem[s].queue) =>
       /\ IsInjective(sem'[s].queue)
       /\ \E u \in Tasks : u \in Queued(s) /\ Queued(s)' = Queued(s) \ {u}

(* The head of a queue leaves it. *)
LEMMA LetGoFirst ==
  ASSUME QueueTypeOK, NEW s \in Sems, sem[s].queue # << >>,
         sem' = [sem EXCEPT ![s].queue = Tail(@)]
  PROVE  sem' \in [Sems -> SemType] /\ Others(s) /\ LetGo(s)
<1>0. sem \in [Sems -> SemType] /\ sem[s].queue \in Seq(Tasks)
  BY DEF QueueTypeOK, SemType
<1>1. Tail(sem[s].queue) \in Seq(Tasks) /\ Head(sem[s].queue) \in Tasks
  BY <1>0
<1>2. sem' \in [Sems -> SemType] /\ Others(s)
  BY <1>0, <1>1 DEF SemType, Others, Queued
<1>3. /\ sem'[s].queue = Tail(sem[s].queue)
      /\ sem'[s].permits = sem[s].permits
      /\ sem'[s].closed = sem[s].closed
  BY <1>0 DEF SemType
<1>4. IsInjective(sem[s].queue) =>
        /\ IsInjective(sem'[s].queue)
        /\ Head(sem[s].queue) \in Queued(s)
        /\ Queued(s)' = Queued(s) \ {Head(sem[s].queue)}
  BY <1>0, <1>3, Left DEF Queued
<1> QED
  BY <1>1, <1>2, <1>3, <1>4 DEF LetGo

LEMMA SemUpCases ==
  ASSUME QueueTypeOK, NEW s \in Sems, SemUp(s)
  PROVE  /\ sem' \in [Sems -> SemType]
         /\ Others(s)
         /\ NoEffect(s) \/ Released(s) \/ (~ sem[s].closed /\ LetGo(s))
<1>0. sem \in [Sems -> SemType]
  BY DEF QueueTypeOK, SemType
<1>1. CASE sem[s].closed
  BY <1>0, <1>1 DEF SemUp, Others, NoEffect, Queued
<1>2. CASE ~ sem[s].closed /\ sem[s].queue = << >>
  <2>1. sem' = [sem EXCEPT ![s].permits = @ + 1]
    BY <1>2 DEF SemUp
  <2>2. Queued(s) = {}
    BY <1>2 DEF Queued, Range
  <2>3. sem[s] \in SemType /\ sem[s].permits + 1 \in Nat
    BY <1>0 DEF SemType
  <2>4. [sem[s] EXCEPT !.permits = sem[s].permits + 1] \in SemType
    BY <2>3 DEF SemType
  <2>5. sem' \in [Sems -> SemType]
    BY <1>0, <2>1, <2>4
  <2> QED
    BY <1>0, <1>2, <2>1, <2>2, <2>5 DEF SemType, Others, Released, Queued
<1>3. CASE ~ sem[s].closed /\ sem[s].queue # << >>
  BY <1>3, LetGoFirst DEF SemUp
<1> QED
  BY <1>1, <1>2, <1>3

(* The three things that happen in sem_destroy. *)
Closed(s) ==
  /\ sem'[s].closed
  /\ sem'[s].permits = 0
  /\ sem'[s].queue = sem[s].queue
  /\ Queued(s)' = Queued(s)

LEMMA SemDestroyCases ==
  ASSUME QueueTypeOK, NEW t \in Tasks, NEW s \in Sems, NEW next,
         SemDestroyTurn(t, s, next)
  PROVE  /\ sem' \in [Sems -> SemType]
         /\ Others(s)
         /\ Closed(s) \/ NoEffect(s) \/ (sem[s].closed /\ LetGo(s))
         /\ Goto(t, next) \/ Goto(t, pc[t])
<1>0. sem \in [Sems -> SemType]
  BY DEF QueueTypeOK, SemType
<1>1. CASE ~ sem[s].closed
  <2>1. sem' = [sem EXCEPT ![s].closed = TRUE, ![s].permits = 0]
    BY <1>1 DEF SemDestroyTurn
  <2>2. sem[s] \in SemType
    BY <1>0
  <2>3. /\ sem'[s] = [permits |-> 0, queue |-> sem[s].queue, closed |-> TRUE]
        /\ sem'[s] \in SemType
    BY <1>0, <2>1, <2>2 DEF SemType
  <2>4. sem' \in [Sems -> SemType] /\ Others(s)
    BY <1>0, <2>1, <2>3 DEF Others, Queued
  <2>5. Closed(s)
    BY <2>3 DEF Closed, Queued
  <2>6. Goto(t, pc[t])
    BY <1>1 DEF SemDestroyTurn
  <2> QED
    BY <2>4, <2>5, <2>6
<1>2. CASE sem[s].closed /\ sem[s].queue # << >>
  BY <1>2, LetGoFirst DEF SemDestroyTurn
<1>3. CASE sem[s].closed /\ sem[s].queue = << >>
  BY <1>0, <1>3 DEF SemDestroyTurn, Others, NoEffect, Queued
<1> QED
  BY <1>1, <1>2, <1>3

(***************************************************************************)
(* The claims on a semaphore.                                              *)
(***************************************************************************)

(* How many there may be after a step. *)
LEMMA ClaimsCount ==
  ASSUME NEW A \in SUBSET Tasks, NEW B \in SUBSET Tasks
  PROVE  /\ Cardinality(A) \in Nat
         /\ B \subseteq A => Cardinality(B) <= Cardinality(A)
         /\ \A t : B \subseteq A \cup {t} => Cardinality(B) <= Cardinality(A) + 1
         /\ \A t \in A : B \subseteq A \ {t} => Cardinality(B) <= Cardinality(A) - 1
         /\ \A t \in A : \A u : B \subseteq (A \ {t}) \cup {u}
                                  => Cardinality(B) <= Cardinality(A)
<1>1. IsFiniteSet(A) /\ IsFiniteSet(B)
  BY FS_Subset DEF MessageQueueAssumption
<1>2. Cardinality(A) \in Nat /\ Cardinality(B) \in Nat
  BY <1>1, FS_CardinalityType
<1>3. B \subseteq A => Cardinality(B) <= Cardinality(A)
  BY <1>1, FS_Subset
<1>4. ASSUME NEW t, B \subseteq A \cup {t}
      PROVE  Cardinality(B) <= Cardinality(A) + 1
  <2>1. /\ IsFiniteSet(A \cup {t})
        /\ \/ Cardinality(A \cup {t}) = Cardinality(A)
           \/ Cardinality(A \cup {t}) = Cardinality(A) + 1
    BY <1>1, FS_AddElement
  <2>2. Cardinality(B) <= Cardinality(A \cup {t}) /\ Cardinality(A \cup {t}) \in Nat
    BY <1>4, <2>1, FS_Subset, FS_CardinalityType
  <2> QED
    BY <1>2, <2>1, <2>2
<1>5. ASSUME NEW t \in A, B \subseteq A \ {t}
      PROVE  Cardinality(B) <= Cardinality(A) - 1
  <2>1. IsFiniteSet(A \ {t}) /\ Cardinality(A \ {t}) = Cardinality(A) - 1
    BY <1>1, FS_RemoveElement
  <2> QED
    BY <1>5, <2>1, FS_Subset
<1>6. ASSUME NEW t \in A, NEW u, B \subseteq (A \ {t}) \cup {u}
      PROVE  Cardinality(B) <= Cardinality(A)
  <2>1. IsFiniteSet(A \ {t}) /\ Cardinality(A \ {t}) = Cardinality(A) - 1
    BY <1>1, FS_RemoveElement
  <2>2. /\ IsFiniteSet((A \ {t}) \cup {u})
        /\ \/ Cardinality((A \ {t}) \cup {u}) = Cardinality(A) - 1
           \/ Cardinality((A \ {t}) \cup {u}) = (Cardinality(A) - 1) + 1
    BY <2>1, FS_AddElement
  <2>3. /\ Cardinality(B) <= Cardinality((A \ {t}) \cup {u})
        /\ Cardinality((A \ {t}) \cup {u}) \in Nat
    BY <1>6, <2>2, FS_Subset, FS_CardinalityType
  <2> QED
    BY <1>2, <2>2, <2>3
<1> QED
  BY <1>2, <1>3, <1>4, <1>5, <1>6

(***************************************************************************)
(* The steps.                                                              *)
(***************************************************************************)

(* What QueueTypeOK says, part by part. *)
LEMMA Typed ==
  ASSUME QueueTypeOK
  PROVE  /\ TypeOK
         /\ sem \in [Sems -> SemType]
         /\ \A s \in Sems : /\ sem[s].permits \in Nat
                            /\ sem[s].queue \in Seq(Tasks)
                            /\ sem[s].closed \in BOOLEAN
                            /\ Queued(s) \subseteq Tasks
         /\ item_quant \in Nat
         /\ store \in {"held", "none", "freed"}
         /\ gone \in BOOLEAN
         /\ op \in [Tasks -> {"send", "recv"}]
         /\ pc \in [Tasks -> {"out"} \cup InCall \cup Blocked \cup DestroyPC]
<1>1. ASSUME NEW s \in Sems
      PROVE  /\ sem[s].permits \in Nat
             /\ sem[s].queue \in Seq(Tasks)
             /\ sem[s].closed \in BOOLEAN
             /\ Queued(s) \subseteq Tasks
  <2>1. /\ sem[s].permits \in Nat
        /\ sem[s].queue \in Seq(Tasks)
        /\ sem[s].closed \in BOOLEAN
    BY DEF QueueTypeOK
  <2>2. \A i \in DOMAIN sem[s].queue : sem[s].queue[i] \in Tasks
    BY <2>1
  <2> QED
    BY <2>1, <2>2 DEF Queued, Range
<1> QED
  BY <1>1 DEF QueueTypeOK, SemType, TypeOK

LEMMA PermitsTyped ==
  ASSUME QueueTypeOK, QueueTypeOK', NEW s \in Sems
  PROVE  sem[s].permits \in Nat /\ sem'[s].permits \in Nat
<1>1. sem[s] \in SemType /\ sem'[s] \in SemType
  BY DEF QueueTypeOK, SemType
<1> QED
  BY <1>1 DEF SemType

(* The counts are kept by a step that moves no item and adds no claim. *)
LEMMA CountKept ==
  ASSUME QueueTypeOK, QueueTypeOK', CountInv,
         UNCHANGED item_quant, store' = "held" => store = "held",
         \A s \in {"space", "items"} :
            sem'[s].permits + Cardinality(Claims(s)')
              <= sem[s].permits + Cardinality(Claims(s))
  PROVE  CountInv'
<1>1. ASSUME NEW s \in {"space", "items"}
      PROVE  /\ Cardinality(Claims(s)) \in Nat /\ Cardinality(Claims(s)') \in Nat
             /\ sem[s].permits \in Nat /\ sem'[s].permits \in Nat
  <2>1. Claims(s) \in SUBSET Tasks /\ Claims(s)' \in SUBSET Tasks
    BY DEF Claims
  <2>2. Cardinality(Claims(s)) \in Nat /\ Cardinality(Claims(s)') \in Nat
    BY <2>1, ClaimsCount
  <2> QED
    BY <2>2, PermitsTyped
<1>2. item_quant \in Nat /\ max_capacity \in Nat
  BY Typed
<1> QED
  BY <1>1, <1>2 DEF CountInv

(* The usual case: the claims are among those there were. *)
LEMMA ClaimsKept ==
  ASSUME QueueTypeOK, QueueTypeOK', NEW s \in {"space", "items"},
         sem'[s].permits <= sem[s].permits, Claims(s)' \subseteq Claims(s)
  PROVE  sem'[s].permits + Cardinality(Claims(s)')
           <= sem[s].permits + Cardinality(Claims(s))
<1>1. Claims(s) \in SUBSET Tasks /\ Claims(s)' \in SUBSET Tasks
  BY DEF Claims
<1>2. /\ Cardinality(Claims(s)') <= Cardinality(Claims(s))
      /\ Cardinality(Claims(s)) \in Nat /\ Cardinality(Claims(s)') \in Nat
  BY <1>1, ClaimsCount
<1>3. sem[s].permits \in Nat /\ sem'[s].permits \in Nat
  BY PermitsTyped
<1> QED
  BY <1>2, <1>3

(* A call begins. *)
LEMMA CallInv ==
  ASSUME QueueInv, NEW t \in Tasks, NEW o \in {"send", "recv"}, Call(t, o)
  PROVE  QueueInv'
<1>1. QueueTypeOK'
  BY DEF QueueInv, QueueTypeOK, Call, TypeOK
<1>2. IndicesAgree'
  BY DEF QueueInv, Call, IndicesAgree
<1>3. \A s \in Sems : Queued(s)' = Queued(s)
  BY DEF Call, Queued
<1>4. WaitInv'
  BY <1>3, Typed DEF QueueInv, WaitInv, Call, Awaited, First
<1>5. MutexInv'
  BY <1>3, Typed DEF QueueInv, MutexInv, HasBuffer, Call
<1>6. CountInv'
  <2>1. ASSUME NEW s \in {"space", "items"}
        PROVE  Claims(s)' \subseteq Claims(s)
    BY <1>3, Typed DEF QueueInv, Claims, HasFirst, First, Call
  <2>2. ASSUME NEW s \in {"space", "items"}
        PROVE  sem'[s].permits <= sem[s].permits
    BY Typed DEF QueueInv, Call
  <2> QED
    BY <1>1, <2>1, <2>2, ClaimsKept, CountKept DEF QueueInv, Call
<1> QED
  BY <1>1, <1>2, <1>4, <1>5, <1>6 DEF QueueInv

(* Only blocked tasks are queued. *)
LEMMA NotQueued ==
  ASSUME QueueInv, NEW t \in Tasks, pc[t] \notin Blocked
  PROVE  \A s \in Sems : t \notin Queued(s)
BY DEF QueueInv, WaitInv

(* The first sem_down of a call. *)
LEMMA DownFirstInv ==
  ASSUME QueueInv, NEW t \in Tasks, pc[t] = "first",
         NEW s \in {"space", "items"}, First(t) = s,
         SemDown(t, s, "lock", "first_wait")
  PROVE  QueueInv'
<1>0. s \in Sems
  OBVIOUS
<1>1. /\ sem' \in [Sems -> SemType]
      /\ Others(s)
      /\ Refused(t, s) \/ Admitted(t, s, "lock") \/ Enqueued(t, s, "first_wait")
  BY <1>0, SemDownCases DEF QueueInv
<1>2. UNCHANGED <<bufferVars, store, gone, op>>
  BY DEF SemDown
<1>3. /\ \A u \in Tasks : First(u)' = First(u) /\ (u # t => pc'[u] = pc[u])
      /\ pc'[t] \in {"out", "lock", "first_wait"}
      /\ pc' \in [Tasks -> {"out"} \cup InCall \cup Blocked \cup DestroyPC]
  BY <1>1, <1>2, Typed DEF QueueInv, Refused, Admitted, Enqueued, First
<1>4. \A r \in Sems : t \notin Queued(r)
  BY NotQueued
<1>5. QueueTypeOK'
  BY <1>1, <1>2, <1>3 DEF QueueInv, QueueTypeOK, SemType, TypeOK
<1>6. IndicesAgree'
  BY <1>2 DEF QueueInv, IndicesAgree
<1>7. WaitInv'
  <2>1. ASSUME NEW r \in Sems \ {s}
        PROVE  /\ IsInjective(sem'[r].queue)
               /\ \A u \in Queued(r)' : pc'[u] \in Blocked /\ Awaited(u)' = r
    BY <1>0, <1>1, <1>3, <1>4, Typed DEF QueueInv, WaitInv, Others, Awaited
  <2>2. /\ IsInjective(sem'[s].queue)
        /\ \A u \in Queued(s)' : pc'[u] \in Blocked /\ Awaited(u)' = s
    <3>1. CASE Refused(t, s) \/ Admitted(t, s, "lock")
      BY <1>0, <1>3, <1>4, <3>1, Typed
         DEF QueueInv, WaitInv, Refused, Admitted, Awaited
    <3>2. CASE Enqueued(t, s, "first_wait")
      BY <1>0, <1>3, <1>4, <3>2, Typed DEF QueueInv, WaitInv, Enqueued, Awaited
    <3> QED
      BY <1>1, <3>1, <3>2
  <2> QED
    BY <2>1, <2>2 DEF WaitInv
<1>8. MutexInv'
  <2>1. /\ sem'["mutex"].permits = sem["mutex"].permits
        /\ Queued("mutex")' = Queued("mutex")
    BY <1>0, <1>1 DEF Others
  <2> QED
    BY <1>3, <2>1 DEF QueueInv, MutexInv, HasBuffer
<1>9. CountInv'
  <2>1. ASSUME NEW r \in {"space", "items"}, r # s
        PROVE  sem'[r].permits <= sem[r].permits /\ Claims(r)' \subseteq Claims(r)
    <3>1. /\ sem'[r].permits = sem[r].permits
          /\ sem'[r].closed = sem[r].closed
          /\ Queued(r)' = Queued(r)
      BY <1>1, <2>1 DEF Others
    <3>2. sem[r].permits \in Nat
      BY Typed DEF QueueInv
    <3> QED
      BY <1>3, <2>1, <3>1, <3>2 DEF Claims, HasFirst
  <2>2. sem'[s].permits + Cardinality(Claims(s)')
          <= sem[s].permits + Cardinality(Claims(s))
    <3>1. CASE Refused(t, s) \/ Enqueued(t, s, "first_wait")
      <4>1. sem'[s].permits <= sem[s].permits
        BY <1>0, <3>1, Typed DEF QueueInv, Refused, Enqueued
      <4>2. Claims(s)' \subseteq Claims(s)
        BY <1>0, <1>3, <1>4, <3>1, Typed
           DEF QueueInv, Claims, HasFirst, Refused, Enqueued
      <4> QED
        BY <1>0, <1>5, <4>1, <4>2, ClaimsKept DEF QueueInv
    <3>2. CASE Admitted(t, s, "lock")
      <4>1. Claims(s)' \subseteq Claims(s) \cup {t}
        BY <1>0, <1>3, <1>4, <3>2, Typed DEF QueueInv, Claims, HasFirst, Admitted
      <4>2. Claims(s) \in SUBSET Tasks /\ Claims(s)' \in SUBSET Tasks
        BY DEF Claims
      <4>3. /\ Cardinality(Claims(s)') <= Cardinality(Claims(s)) + 1
            /\ Cardinality(Claims(s)) \in Nat /\ Cardinality(Claims(s)') \in Nat
        BY <4>1, <4>2, ClaimsCount
      <4>4. sem'[s].permits = sem[s].permits - 1 /\ sem[s].permits \in Nat
        BY <1>0, <3>2, Typed DEF QueueInv, Admitted
      <4> QED
        BY <4>3, <4>4
    <3> QED
      BY <1>1, <3>1, <3>2
  <2>3. ASSUME NEW r \in {"space", "items"}
        PROVE  sem'[r].permits + Cardinality(Claims(r)')
                 <= sem[r].permits + Cardinality(Claims(r))
    BY <1>5, <2>1, <2>2, ClaimsKept DEF QueueInv
  <2> QED
    BY <1>2, <1>5, <2>3, CountKept DEF QueueInv
<1> QED
  BY <1>5, <1>6, <1>7, <1>8, <1>9 DEF QueueInv

(* The sem_down of the buffer. *)
LEMMA DownMutexInv ==
  ASSUME QueueInv, NEW t \in Tasks, pc[t] = "lock",
         SemDown(t, "mutex", "copy", "lock_wait")
  PROVE  QueueInv'
<1>1. /\ sem' \in [Sems -> SemType]
      /\ Others("mutex")
      /\ \/ Refused(t, "mutex")
         \/ Admitted(t, "mutex", "copy")
         \/ Enqueued(t, "mutex", "lock_wait")
  BY SemDownCases DEF QueueInv
<1>2. UNCHANGED <<bufferVars, store, gone, op>>
  BY DEF SemDown
<1>3. /\ \A u \in Tasks : First(u)' = First(u) /\ (u # t => pc'[u] = pc[u])
      /\ pc'[t] \in {"out", "copy", "lock_wait"}
      /\ pc' \in [Tasks -> {"out"} \cup InCall \cup Blocked \cup DestroyPC]
  BY <1>1, <1>2, Typed DEF QueueInv, Refused, Admitted, Enqueued, First
<1>4. \A r \in Sems : t \notin Queued(r)
  BY NotQueued
<1>5. QueueTypeOK'
  BY <1>1, <1>2, <1>3 DEF QueueInv, QueueTypeOK, SemType, TypeOK
<1>6. IndicesAgree'
  BY <1>2 DEF QueueInv, IndicesAgree
<1>7. WaitInv'
  <2>1. ASSUME NEW r \in {"space", "items"}
        PROVE  /\ IsInjective(sem'[r].queue)
               /\ \A u \in Queued(r)' : pc'[u] \in Blocked /\ Awaited(u)' = r
    BY <1>1, <1>3, <1>4, Typed DEF QueueInv, WaitInv, Others, Awaited
  <2>2. /\ IsInjective(sem'["mutex"].queue)
        /\ \A u \in Queued("mutex")' : pc'[u] \in Blocked /\ Awaited(u)' = "mutex"
    <3>1. CASE Refused(t, "mutex") \/ Admitted(t, "mutex", "copy")
      BY <1>3, <1>4, <3>1, Typed
         DEF QueueInv, WaitInv, Refused, Admitted, Awaited
    <3>2. CASE Enqueued(t, "mutex", "lock_wait")
      BY <1>3, <1>4, <3>2, Typed DEF QueueInv, WaitInv, Enqueued, Awaited
    <3> QED
      BY <1>1, <3>1, <3>2
  <2> QED
    BY <2>1, <2>2 DEF WaitInv
<1>8. MutexInv'
  <2>1. CASE Refused(t, "mutex")
    BY <1>3, <2>1 DEF QueueInv, MutexInv, HasBuffer, Refused
  <2>2. CASE Admitted(t, "mutex", "copy")
    <3>1. sem["mutex"].permits = 1 /\ sem'["mutex"].permits = 0
      BY <2>2, Typed DEF QueueInv, MutexInv, Admitted
    <3>2. \A u \in Tasks : ~ HasBuffer(u)
      BY <3>1 DEF QueueInv, MutexInv
    <3>3. \A u \in Tasks \ {t} : ~ HasBuffer(u)'
      BY <1>3, <2>2, <3>2 DEF HasBuffer, Admitted
    <3> QED
      BY <3>1, <3>3 DEF MutexInv
  <2>3. CASE Enqueued(t, "mutex", "lock_wait")
    <3>1. ~ HasBuffer(t)'
      BY <2>3, Typed DEF QueueInv, HasBuffer, Enqueued
    <3>2. \A u \in Tasks : HasBuffer(u)' => HasBuffer(u)
      BY <1>3, <2>3, <3>1 DEF HasBuffer, Enqueued
    <3> QED
      BY <2>3, <3>2 DEF QueueInv, MutexInv, Enqueued
  <2> QED
    BY <1>1, <2>1, <2>2, <2>3
<1>9. CountInv'
  <2>1. ASSUME NEW r \in {"space", "items"}
        PROVE  sem'[r].permits <= sem[r].permits /\ Claims(r)' \subseteq Claims(r)
    <3>1. /\ sem'[r].permits = sem[r].permits
          /\ sem'[r].closed = sem[r].closed
          /\ Queued(r)' = Queued(r)
      BY <1>1 DEF Others
    <3>2. sem[r].permits \in Nat
      BY Typed DEF QueueInv
    <3>3. First(t) \in {"space", "items"} /\ (\A u \in Tasks : First(u) \in {"space", "items"})
      BY DEF First
    <3> QED
      BY <1>3, <3>1, <3>2, <3>3 DEF Claims, HasFirst
  <2> QED
    BY <1>2, <1>5, <2>1, ClaimsKept, CountKept DEF QueueInv
<1> QED
  BY <1>5, <1>6, <1>7, <1>8, <1>9 DEF QueueInv

(* A task that was let go runs again. *)
LEMMA WakeInv ==
  ASSUME QueueInv, NEW t \in Tasks, Wake(t)
  PROVE  QueueInv'
<1>1. /\ UNCHANGED <<bufferVars, sem, store, gone, op>>
      /\ \A s \in Sems : Queued(s)' = Queued(s)
      /\ \A u \in Tasks : First(u)' = First(u) /\ First(u) \in {"space", "items"}
  BY DEF Wake, Queued, First
<1>2. \/ /\ pc[t] = "first_wait" /\ t \notin Queued(First(t))
         /\ pc' = [pc EXCEPT ![t] = IF sem[First(t)].closed THEN "out" ELSE "lock"]
      \/ /\ pc[t] = "lock_wait" /\ t \notin Queued("mutex")
         /\ pc' = [pc EXCEPT ![t] = "copy"]
  BY DEF Wake
<1>3. /\ \A u \in Tasks : u # t => pc'[u] = pc[u]
      /\ pc'[t] \in {"out", "lock", "copy"}
      /\ pc' \in [Tasks -> {"out"} \cup InCall \cup Blocked \cup DestroyPC]
  BY <1>2, Typed DEF QueueInv
<1>4. \A s \in Sems : t \notin Queued(s)
  BY <1>2 DEF QueueInv, WaitInv, Awaited
<1>5. QueueTypeOK'
  BY <1>1, <1>3 DEF QueueInv, QueueTypeOK, TypeOK
<1>6. IndicesAgree'
  BY <1>1 DEF QueueInv, IndicesAgree
<1>7. WaitInv'
  BY <1>1, <1>3, <1>4, Typed DEF QueueInv, WaitInv, Awaited
<1>8. MutexInv'
  <2>1. \A u \in Tasks : HasBuffer(u)' => HasBuffer(u)
    BY <1>1, <1>2, <1>3, Typed DEF QueueInv, HasBuffer
  <2> QED
    BY <1>1, <2>1 DEF QueueInv, MutexInv
<1>9. CountInv'
  <2>1. ASSUME NEW r \in {"space", "items"}
        PROVE  sem'[r].permits <= sem[r].permits /\ Claims(r)' \subseteq Claims(r)
    <3>1. sem[r].permits \in Nat
      BY Typed DEF QueueInv
    <3>2. HasFirst(t)' => HasFirst(t)
      BY <1>1, <1>2, Typed DEF QueueInv, HasFirst
    <3>3. \A u \in Tasks \ {t} : HasFirst(u)' <=> HasFirst(u)
      BY <1>1, <1>3 DEF HasFirst
    <3>4. pc'[t] \notin {"unlock", "last"}
      BY <1>3
    <3> QED
      BY <1>1, <1>3, <3>1, <3>2, <3>3, <3>4 DEF Claims
  <2> QED
    BY <1>1, <1>5, <2>1, ClaimsKept, CountKept DEF QueueInv
<1> QED
  BY <1>5, <1>6, <1>7, <1>8, <1>9 DEF QueueInv

(* The task gives the buffer back. *)
LEMMA UpMutexInv ==
  ASSUME QueueInv, NEW t \in Tasks, pc[t] = "unlock", Goto(t, "last"),
         SemUp("mutex"), UNCHANGED <<bufferVars, store, gone, op>>
  PROVE  QueueInv'
<1>1. /\ sem' \in [Sems -> SemType]
      /\ Others("mutex")
      /\ NoEffect("mutex") \/ Released("mutex") \/ LetGo("mutex")
  BY SemUpCases DEF QueueInv
<1>2. /\ \A u \in Tasks : First(u)' = First(u) /\ (u # t => pc'[u] = pc[u])
      /\ pc'[t] = "last"
      /\ pc' \in [Tasks -> {"out"} \cup InCall \cup Blocked \cup DestroyPC]
  BY Typed DEF QueueInv, First
<1>3. \A r \in Sems : t \notin Queued(r)
  BY NotQueued
<1>4. IsInjective(sem["mutex"].queue)
  BY DEF QueueInv, WaitInv
<1>5. QueueTypeOK'
  BY <1>1, <1>2 DEF QueueInv, QueueTypeOK, SemType, TypeOK
<1>6. IndicesAgree'
  BY DEF QueueInv, IndicesAgree
<1>7. WaitInv'
  <2>1. ASSUME NEW r \in {"space", "items"}
        PROVE  /\ IsInjective(sem'[r].queue)
               /\ \A u \in Queued(r)' : pc'[u] \in Blocked /\ Awaited(u)' = r
    BY <1>1, <1>2, <1>3, Typed DEF QueueInv, WaitInv, Others, Awaited
  <2>2. IsInjective(sem'["mutex"].queue) /\ Queued("mutex")' \subseteq Queued("mutex")
    BY <1>1, <1>4 DEF NoEffect, Released, LetGo
  <2>3. \A u \in Queued("mutex")' : pc'[u] \in Blocked /\ Awaited(u)' = "mutex"
    BY <1>2, <1>3, <2>2, Typed DEF QueueInv, WaitInv, Awaited
  <2> QED
    BY <2>1, <2>2, <2>3 DEF WaitInv
<1>8. MutexInv'
  <2>1. /\ sem["mutex"].permits = 0
        /\ \A u \in Tasks \ {t} : ~ HasBuffer(u)
    BY DEF QueueInv, MutexInv, HasBuffer
  <2>2. ~ HasBuffer(t)'
    BY <1>2 DEF HasBuffer
  <2>3. CASE NoEffect("mutex")
    <3>1. \A u \in Tasks : ~ HasBuffer(u)'
      BY <1>2, <2>1, <2>2, <2>3 DEF HasBuffer, NoEffect
    <3> QED
      BY <2>1, <2>3, <3>1 DEF MutexInv, NoEffect
  <2>4. CASE Released("mutex")
    <3>1. \A u \in Tasks : ~ HasBuffer(u)'
      BY <1>2, <2>1, <2>2, <2>4 DEF HasBuffer, Released
    <3> QED
      BY <2>1, <2>4, <3>1 DEF MutexInv, Released
  <2>5. CASE LetGo("mutex")
    <3>1. PICK v \in Tasks : v \in Queued("mutex")
                             /\ Queued("mutex")' = Queued("mutex") \ {v}
      BY <1>4, <2>5 DEF LetGo
    <3>2. \A u \in Tasks \ {v} : ~ HasBuffer(u)'
      BY <1>2, <2>1, <2>2, <3>1 DEF HasBuffer
    <3> QED
      BY <2>1, <2>5, <3>2 DEF MutexInv, LetGo
  <2> QED
    BY <1>1, <2>3, <2>4, <2>5
<1>9. CountInv'
  <2>1. ASSUME NEW r \in {"space", "items"}
        PROVE  sem'[r].permits <= sem[r].permits /\ Claims(r)' \subseteq Claims(r)
    <3>1. /\ sem'[r].permits = sem[r].permits
          /\ sem'[r].closed = sem[r].closed
          /\ Queued(r)' = Queued(r)
      BY <1>1 DEF Others
    <3>2. sem[r].permits \in Nat
      BY Typed DEF QueueInv
    <3>3. \A u \in Tasks : First(u) \in {"space", "items"}
      BY DEF First
    <3> QED
      BY <1>2, <3>1, <3>2, <3>3 DEF Claims, HasFirst
  <2> QED
    BY <1>5, <2>1, ClaimsKept, CountKept DEF QueueInv
<1> QED
  BY <1>5, <1>6, <1>7, <1>8, <1>9 DEF QueueInv

(* The operation on the buffer. *)
LEMMA CopyInv ==
  ASSUME QueueInv, NEW t \in Tasks, Copy(t)
  PROVE  QueueInv' /\ [Next]_vars
<1>0. /\ pc[t] = "copy"
      /\ UNCHANGED <<sem, store, gone, op>>
      /\ pc' \in {[pc EXCEPT ![t] = "out"], [pc EXCEPT ![t] = "unlock"]}
  BY DEF Copy
<1>1. /\ \A u \in Tasks : /\ First(u)' = First(u)
                          /\ First(u) \in {"space", "items"}
                          /\ u # t => pc'[u] = pc[u]
      /\ pc'[t] \in {"out", "unlock"}
      /\ pc' \in [Tasks -> {"out"} \cup InCall \cup Blocked \cup DestroyPC]
      /\ \A r \in Sems : Queued(r)' = Queued(r)
  BY <1>0, Typed DEF QueueInv, First, Queued
<1>2. \A r \in Sems : t \notin Queued(r)
  BY <1>0, NotQueued
<1>3. \/ UNCHANGED bufferVars
      \/ op[t] = "send" /\ pc'[t] = "unlock" /\ \E x \in Items : Add(x)
      \/ op[t] = "recv" /\ pc'[t] = "unlock" /\ Remove
  BY <1>0, Typed DEF QueueInv, Copy
<1>4. TypeOK' /\ IndicesAgree' /\ [Next]_vars
  <2>1. IInv
    BY Typed DEF QueueInv, IInv
  <2>2. CASE UNCHANGED bufferVars
    BY <2>1, <2>2 DEF IInv, TypeOK, IndicesAgree, vars
  <2>3. CASE \E x \in Items : Add(x)
    BY <2>1, <2>3, AddStep DEF IInv, Next
  <2>4. CASE Remove
    BY <2>1, <2>4, RemoveStep DEF IInv, Next
  <2> QED
    BY <1>3, <2>2, <2>3, <2>4
<1>5. QueueTypeOK'
  BY <1>0, <1>1, <1>4 DEF QueueInv, QueueTypeOK
<1>6. WaitInv'
  BY <1>0, <1>1, <1>2, Typed DEF QueueInv, WaitInv, Awaited
<1>7. MutexInv'
  <2>1. \A u \in Tasks : HasBuffer(u)' => HasBuffer(u)
    BY <1>0, <1>1 DEF HasBuffer
  <2> QED
    BY <1>0, <2>1 DEF QueueInv, MutexInv
<1>8. CountInv'
  <2> SUFFICES ASSUME store = "held"
               PROVE  CountInv'
    BY <1>0 DEF CountInv
  <2>0. /\ \A u \in Tasks \ {t} : HasFirst(u)' <=> HasFirst(u)
        /\ HasFirst(t) /\ ~ HasFirst(t)'
        /\ \A r \in {"space", "items"} :
              Claims(r) \in SUBSET Tasks /\ Claims(r)' \in SUBSET Tasks
    BY <1>0, <1>1 DEF HasFirst, Claims
  <2>1. /\ op[t] = "send" => First(t) = "space"
        /\ op[t] = "recv" => First(t) = "items"
    BY DEF First
  <2>2. /\ \A r \in {"space", "items"} :
             /\ sem[r].permits \in Nat
             /\ sem'[r].permits = sem[r].permits
             /\ Cardinality(Claims(r)) \in Nat
             /\ Cardinality(Claims(r)') \in Nat
        /\ item_quant \in Nat /\ max_capacity \in Nat
        /\ op[t] \in {"send", "recv"}
    BY <1>0, <2>0, ClaimsCount, Typed DEF QueueInv
  <2>3. ASSUME NEW r \in {"space", "items"}, First(t) = r
        PROVE  /\ t \in Claims(r)
               /\ Cardinality(Claims(r)') <= Cardinality(Claims(r)) - 1
    <3>1. t \in Claims(r) /\ Claims(r)' \subseteq Claims(r) \ {t}
      BY <1>1, <2>0, <2>3 DEF Claims
    <3> QED
      BY <2>0, <3>1, ClaimsCount
  <2>4. ASSUME NEW r \in {"space", "items"}, First(t) # r
        PROVE  /\ Cardinality(Claims(r)') <= Cardinality(Claims(r)) + 1
               /\ pc'[t] = "out" => Cardinality(Claims(r)') <= Cardinality(Claims(r))
    <3>1. Claims(r)' \subseteq Claims(r) \cup {t}
      BY <1>1, <2>0, <2>4 DEF Claims
    <3>2. pc'[t] = "out" => Claims(r)' \subseteq Claims(r)
      BY <1>1, <2>0, <2>4 DEF Claims
    <3> QED
      BY <2>0, <3>1, <3>2, ClaimsCount
  <2>5. CASE op[t] = "send" /\ UNCHANGED bufferVars
    <3>1. pc'[t] = "out"
      <4>1. item_quant = max_capacity \/ ~ \E x \in Items : Add(x)
        BY <2>2, <2>5 DEF Add
      <4> QED
        BY <1>1, <2>5, <4>1, Typed DEF QueueInv, Copy
    <3>2. /\ Cardinality(Claims("space")') <= Cardinality(Claims("space")) - 1
          /\ Cardinality(Claims("items")') <= Cardinality(Claims("items"))
      BY <2>1, <2>3, <2>4, <2>5, <3>1
    <3> QED
      BY <2>2, <2>5, <3>2 DEF QueueInv, CountInv
  <2>6. CASE op[t] = "send" /\ \E x \in Items : Add(x)
    <3>1. item_quant' = item_quant + 1
      BY <2>6 DEF Add
    <3>2. /\ Cardinality(Claims("space")') <= Cardinality(Claims("space")) - 1
          /\ Cardinality(Claims("items")') <= Cardinality(Claims("items")) + 1
      BY <2>1, <2>3, <2>4, <2>6
    <3> QED
      BY <2>2, <3>1, <3>2 DEF QueueInv, CountInv
  <2>7. CASE op[t] = "recv" /\ Remove
    <3>1. item_quant' = item_quant - 1
      BY <2>7 DEF Remove
    <3>2. /\ Cardinality(Claims("items")') <= Cardinality(Claims("items")) - 1
          /\ Cardinality(Claims("space")') <= Cardinality(Claims("space")) + 1
      BY <2>1, <2>3, <2>4, <2>7
    <3> QED
      BY <2>2, <3>1, <3>2 DEF QueueInv, CountInv
  <2>8. CASE op[t] = "recv" /\ UNCHANGED bufferVars
    <3>1. Cardinality(Claims("items")) >= 1
      BY <2>1, <2>2, <2>3, <2>8
    <3>2. item_quant # 0
      BY <2>2, <3>1 DEF QueueInv, CountInv
    <3>3. Remove
      BY <2>8, <3>2 DEF Copy
    <3> QED
      BY <2>2, <2>8, <3>3 DEF Remove
  <2> QED
    BY <1>3, <2>2, <2>5, <2>6, <2>7, <2>8
<1> QED
  BY <1>4, <1>5, <1>6, <1>7, <1>8 DEF QueueInv

(* The last sem_up of a call. *)
LEMMA UpLastInv ==
  ASSUME QueueInv, NEW t \in Tasks, pc[t] = "last", Goto(t, "out"),
         NEW s \in {"space", "items"}, First(t) # s, SemUp(s),
         UNCHANGED <<bufferVars, store, gone, op>>
  PROVE  QueueInv'
<1>1. /\ sem' \in [Sems -> SemType]
      /\ Others(s)
      /\ NoEffect(s) \/ Released(s) \/ (~ sem[s].closed /\ LetGo(s))
  BY SemUpCases DEF QueueInv
<1>2. /\ \A u \in Tasks : /\ First(u)' = First(u)
                          /\ First(u) \in {"space", "items"}
                          /\ u # t => pc'[u] = pc[u]
      /\ pc'[t] = "out"
      /\ pc' \in [Tasks -> {"out"} \cup InCall \cup Blocked \cup DestroyPC]
  BY Typed DEF QueueInv, First
<1>3. \A r \in Sems : t \notin Queued(r)
  BY NotQueued
<1>4. IsInjective(sem[s].queue)
  BY DEF QueueInv, WaitInv
<1>5. QueueTypeOK'
  BY <1>1, <1>2 DEF QueueInv, QueueTypeOK, SemType, TypeOK
<1>6. IndicesAgree'
  BY DEF QueueInv, IndicesAgree
<1>7. WaitInv'
  <2>1. ASSUME NEW r \in Sems \ {s}
        PROVE  /\ IsInjective(sem'[r].queue)
               /\ \A u \in Queued(r)' : pc'[u] \in Blocked /\ Awaited(u)' = r
    BY <1>1, <1>2, <1>3, Typed DEF QueueInv, WaitInv, Others, Awaited
  <2>2. IsInjective(sem'[s].queue) /\ Queued(s)' \subseteq Queued(s)
    BY <1>1, <1>4 DEF NoEffect, Released, LetGo
  <2>3. \A u \in Queued(s)' : pc'[u] \in Blocked /\ Awaited(u)' = s
    BY <1>2, <1>3, <2>2, Typed DEF QueueInv, WaitInv, Awaited
  <2> QED
    BY <2>1, <2>2, <2>3 DEF WaitInv
<1>8. MutexInv'
  <2>1. /\ sem'["mutex"].permits = sem["mutex"].permits
        /\ Queued("mutex")' = Queued("mutex")
    BY <1>1 DEF Others
  <2> QED
    BY <1>2, <2>1 DEF QueueInv, MutexInv, HasBuffer
<1>9. CountInv'
  <2>1. ASSUME NEW r \in {"space", "items"}, r # s
        PROVE  sem'[r].permits <= sem[r].permits /\ Claims(r)' \subseteq Claims(r)
    <3>1. /\ sem'[r].permits = sem[r].permits
          /\ sem'[r].closed = sem[r].closed
          /\ Queued(r)' = Queued(r)
      BY <1>1, <2>1 DEF Others
    <3>2. sem[r].permits \in Nat
      BY Typed DEF QueueInv
    <3> QED
      BY <1>2, <2>1, <3>1, <3>2 DEF Claims, HasFirst
  <2>2. /\ Claims(s) \in SUBSET Tasks /\ Claims(s)' \in SUBSET Tasks
        /\ t \in Claims(s)
        /\ sem[s].permits \in Nat
    BY Typed DEF QueueInv, Claims
  <2>3. sem'[s].permits + Cardinality(Claims(s)')
          <= sem[s].permits + Cardinality(Claims(s))
    <3>1. CASE NoEffect(s)
      <4>1. sem'[s].permits <= sem[s].permits /\ Claims(s)' \subseteq Claims(s)
        BY <1>2, <2>2, <3>1 DEF Claims, HasFirst, NoEffect
      <4> QED
        BY <1>5, <4>1, ClaimsKept DEF QueueInv
    <3>2. CASE Released(s)
      <4>1. Claims(s)' \subseteq Claims(s) \ {t}
        BY <1>2, <3>2 DEF Claims, HasFirst, Released
      <4>2. /\ Cardinality(Claims(s)') <= Cardinality(Claims(s)) - 1
            /\ Cardinality(Claims(s)) \in Nat /\ Cardinality(Claims(s)') \in Nat
        BY <2>2, <4>1, ClaimsCount
      <4> QED
        BY <2>2, <3>2, <4>2 DEF Released
    <3>3. CASE LetGo(s)
      <4>1. PICK v \in Tasks : v \in Queued(s) /\ Queued(s)' = Queued(s) \ {v}
        BY <1>4, <3>3 DEF LetGo
      <4>2. Claims(s)' \subseteq (Claims(s) \ {t}) \cup {v}
        BY <1>2, <3>3, <4>1 DEF Claims, HasFirst, LetGo
      <4>3. /\ Cardinality(Claims(s)') <= Cardinality(Claims(s))
            /\ Cardinality(Claims(s)) \in Nat /\ Cardinality(Claims(s)') \in Nat
        BY <2>2, <4>2, ClaimsCount
      <4> QED
        BY <2>2, <3>3, <4>3 DEF LetGo
    <3> QED
      BY <1>1, <3>1, <3>2, <3>3
  <2>4. ASSUME NEW r \in {"space", "items"}
        PROVE  sem'[r].permits + Cardinality(Claims(r)')
                 <= sem[r].permits + Cardinality(Claims(r))
    BY <1>5, <2>1, <2>3, ClaimsKept DEF QueueInv
  <2> QED
    BY <1>5, <2>4, CountKept DEF QueueInv
<1> QED
  BY <1>5, <1>6, <1>7, <1>8, <1>9 DEF QueueInv

(* mqueue_destroy frees the buffer. *)
LEMMA DestroyInv ==
  ASSUME QueueInv, NEW t \in Tasks, Destroy(t)
  PROVE  QueueInv'
<1>1. /\ UNCHANGED <<bufferVars, sem, gone, op>>
      /\ store' \in {"none", "freed"}
      /\ \A u \in Tasks : First(u)' = First(u) /\ (u # t => pc'[u] = pc[u])
      /\ pc[t] = "out" /\ pc'[t] = "close_space"
      /\ pc' \in [Tasks -> {"out"} \cup InCall \cup Blocked \cup DestroyPC]
      /\ \A s \in Sems : Queued(s)' = Queued(s)
  BY Typed DEF QueueInv, Destroy, First, Queued
<1>2. \A r \in Sems : t \notin Queued(r)
  BY <1>1, NotQueued
<1>3. QueueTypeOK'
  BY <1>1 DEF QueueInv, QueueTypeOK, TypeOK
<1>4. IndicesAgree'
  BY <1>1 DEF QueueInv, IndicesAgree
<1>5. WaitInv'
  BY <1>1, <1>2, Typed DEF QueueInv, WaitInv, Awaited
<1>6. MutexInv'
  BY <1>1 DEF QueueInv, MutexInv, HasBuffer
<1>7. CountInv'
  BY <1>1 DEF CountInv
<1> QED
  BY <1>3, <1>4, <1>5, <1>6, <1>7 DEF QueueInv

(* It closes a semaphore and lets its tasks go, one at a time. *)
LEMMA DestroyTurnInv ==
  ASSUME QueueInv, NEW t \in Tasks, pc[t] \in DestroyPC,
         NEW s \in {"space", "items"}, NEW next \in DestroyPC,
         SemDestroyTurn(t, s, next), UNCHANGED <<bufferVars, store, gone, op>>
  PROVE  QueueInv'
<1>1. /\ sem' \in [Sems -> SemType]
      /\ Others(s)
      /\ Closed(s) \/ NoEffect(s) \/ (sem[s].closed /\ LetGo(s))
      /\ Goto(t, next) \/ Goto(t, pc[t])
  BY SemDestroyCases DEF QueueInv
<1>2. /\ \A u \in Tasks : /\ First(u)' = First(u)
                          /\ First(u) \in {"space", "items"}
                          /\ u # t => pc'[u] = pc[u]
      /\ pc'[t] \in DestroyPC
      /\ pc' \in [Tasks -> {"out"} \cup InCall \cup Blocked \cup DestroyPC]
  <2>1. pc \in [Tasks -> {"out"} \cup InCall \cup Blocked \cup DestroyPC]
    BY Typed DEF QueueInv
  <2>2. PICK l \in DestroyPC : Goto(t, l)
    BY <1>1
  <2>3. /\ pc' \in [Tasks -> {"out"} \cup InCall \cup Blocked \cup DestroyPC]
        /\ pc'[t] \in DestroyPC
        /\ \A u \in Tasks : u # t => pc'[u] = pc[u]
    BY <2>1, <2>2 DEF Goto
  <2> QED
    BY <2>3 DEF First
<1>3. \A r \in Sems : t \notin Queued(r)
  BY NotQueued
<1>4. IsInjective(sem[s].queue)
  BY DEF QueueInv, WaitInv
<1>5. QueueTypeOK'
  BY <1>1, <1>2 DEF QueueInv, QueueTypeOK, SemType, TypeOK
<1>6. IndicesAgree'
  BY DEF QueueInv, IndicesAgree
<1>7. WaitInv'
  <2>1. ASSUME NEW r \in Sems \ {s}
        PROVE  /\ IsInjective(sem'[r].queue)
               /\ \A u \in Queued(r)' : pc'[u] \in Blocked /\ Awaited(u)' = r
    BY <1>1, <1>2, <1>3, Typed DEF QueueInv, WaitInv, Others, Awaited
  <2>2. IsInjective(sem'[s].queue) /\ Queued(s)' \subseteq Queued(s)
    BY <1>1, <1>4 DEF NoEffect, Closed, LetGo
  <2>3. \A u \in Queued(s)' : pc'[u] \in Blocked /\ Awaited(u)' = s
    BY <1>2, <1>3, <2>2, Typed DEF QueueInv, WaitInv, Awaited
  <2> QED
    BY <2>1, <2>2, <2>3 DEF WaitInv
<1>8. MutexInv'
  <2>1. /\ sem'["mutex"].permits = sem["mutex"].permits
        /\ Queued("mutex")' = Queued("mutex")
    BY <1>1 DEF Others
  <2> QED
    BY <1>2, <2>1 DEF QueueInv, MutexInv, HasBuffer
<1>9. CountInv'
  <2>1. ASSUME NEW r \in {"space", "items"}
        PROVE  sem'[r].permits <= sem[r].permits /\ Claims(r)' \subseteq Claims(r)
    <3>1. sem[r].permits \in Nat
      BY Typed DEF QueueInv
    <3>2. CASE r # s
      <4>1. /\ sem'[r].permits = sem[r].permits
            /\ sem'[r].closed = sem[r].closed
            /\ Queued(r)' = Queued(r)
        BY <1>1, <3>2 DEF Others
      <4> QED
        BY <1>2, <3>1, <3>2, <4>1 DEF Claims, HasFirst
    <3>3. CASE r = s
      <4>1. sem'[s].closed /\ sem'[s].permits <= sem[s].permits
        BY <1>1, <3>1, <3>3 DEF Closed, NoEffect, LetGo
      <4> QED
        BY <1>2, <3>3, <4>1 DEF Claims, HasFirst
    <3> QED
      BY <3>2, <3>3
  <2> QED
    BY <1>5, <2>1, ClaimsKept, CountKept DEF QueueInv
<1> QED
  BY <1>5, <1>6, <1>7, <1>8, <1>9 DEF QueueInv

(* It frees the queue and returns. *)
LEMMA FreeInv ==
  ASSUME QueueInv, NEW t \in Tasks, pc[t] = "free", Goto(t, "out"), gone' = TRUE,
         UNCHANGED <<bufferVars, sem, store, op>>
  PROVE  QueueInv'
<1>1. /\ \A u \in Tasks : First(u)' = First(u) /\ (u # t => pc'[u] = pc[u])
      /\ pc'[t] = "out"
      /\ pc' \in [Tasks -> {"out"} \cup InCall \cup Blocked \cup DestroyPC]
      /\ \A s \in Sems : Queued(s)' = Queued(s)
  BY Typed DEF QueueInv, First, Queued
<1>2. \A r \in Sems : t \notin Queued(r)
  BY NotQueued
<1>3. QueueTypeOK'
  BY <1>1 DEF QueueInv, QueueTypeOK, TypeOK
<1>4. IndicesAgree'
  BY DEF QueueInv, IndicesAgree
<1>5. WaitInv'
  BY <1>1, <1>2, Typed DEF QueueInv, WaitInv, Awaited
<1>6. MutexInv'
  BY <1>1 DEF QueueInv, MutexInv, HasBuffer
<1>7. CountInv'
  <2>1. ASSUME NEW r \in {"space", "items"}
        PROVE  sem'[r].permits <= sem[r].permits /\ Claims(r)' \subseteq Claims(r)
    <3>1. sem[r].permits \in Nat
      BY Typed DEF QueueInv
    <3> QED
      BY <1>1, <3>1 DEF Claims, HasFirst
  <2> QED
    BY <1>3, <2>1, ClaimsKept, CountKept DEF QueueInv
<1> QED
  BY <1>3, <1>4, <1>5, <1>6, <1>7 DEF QueueInv

(***************************************************************************)
(* The theorems.                                                           *)
(***************************************************************************)

(* mqueue_create leaves a queue in order, the failed allocations included. *)
LEMMA QueueInitInv ==
  ASSUME QueueInit
  PROVE  QueueInv
<1>1. TypeOK /\ IndicesAgree
  BY InitInv DEF QueueInit, IInv
<1>2. ASSUME NEW s \in Sems
      PROVE  /\ sem[s] \in SemType
             /\ sem[s].queue = << >>
             /\ sem[s].permits = IF store = "freed" \/ s = "items" THEN 0
                                 ELSE IF s = "space" THEN max_capacity ELSE 1
  <2>1. sem[s] = CreatedSem(s, store = "freed")
    BY DEF QueueInit
  <2>2. max_capacity \in Nat
    BY BufferAssumption
  <2>3. << >> \in Seq(Tasks)
    OBVIOUS
  <2>4. CASE s = "space"
    BY <2>1, <2>2, <2>3, <2>4 DEF CreatedSem, Initially, SemType
  <2>5. CASE s = "items"
    BY <2>1, <2>3, <2>5 DEF CreatedSem, Initially, SemType
  <2>6. CASE s = "mutex"
    BY <2>1, <2>3, <2>6 DEF CreatedSem, Initially, SemType
  <2> QED
    BY <2>4, <2>5, <2>6 DEF Sems
<1>3. ASSUME NEW s \in Sems
      PROVE  Queued(s) = {} /\ IsInjective(sem[s].queue)
  BY <1>2 DEF Queued, Range, IsInjective
<1>4. QueueTypeOK
  BY <1>1, <1>2 DEF QueueInit, QueueTypeOK, SemType
<1>5. WaitInv
  BY <1>3 DEF WaitInv
<1>6. MutexInv
  BY <1>2 DEF QueueInit, MutexInv, HasBuffer
<1>7. CountInv
  <2>1. ASSUME NEW s \in {"space", "items"}
        PROVE  Claims(s) = {}
    BY DEF QueueInit, Claims, HasFirst
  <2>2. Cardinality(Claims("space")) = 0 /\ Cardinality(Claims("items")) = 0
    BY <2>1, FS_EmptySet
  <2>3. item_quant = 0 /\ max_capacity \in Nat
    BY BufferAssumption DEF QueueInit, Init
  <2>4. store = "held" => /\ sem["space"].permits = max_capacity
                          /\ sem["items"].permits = 0
    BY <1>2 DEF Sems
  <2> QED
    BY <2>2, <2>3, <2>4 DEF CountInv
<1> QED
  BY <1>1, <1>4, <1>5, <1>6, <1>7 DEF QueueInv

(* Every step of the queue keeps its invariant, and does to the buffer an  *)
(* operation of the buffer or nothing.                                     *)
LEMMA QueueStep ==
  ASSUME QueueInv, [QueueNext]_queueVars
  PROVE  QueueInv' /\ [Next]_vars
<1>1. ASSUME NEW t \in Tasks, NEW o \in {"send", "recv"}, Call(t, o)
      PROVE  QueueInv' /\ [Next]_vars
  BY <1>1, CallInv DEF Call, vars
<1>2. ASSUME NEW t \in Tasks, Down(t)
      PROVE  QueueInv' /\ [Next]_vars
  <2>1. First(t) \in {"space", "items"}
    BY DEF First
  <2>2. CASE pc[t] = "first" /\ SemDown(t, First(t), "lock", "first_wait")
    BY <2>1, <2>2, DownFirstInv DEF SemDown, vars
  <2>3. CASE pc[t] = "lock" /\ SemDown(t, "mutex", "copy", "lock_wait")
    BY <2>3, DownMutexInv DEF SemDown, vars
  <2> QED
    BY <1>2, <2>2, <2>3 DEF Down
<1>3. ASSUME NEW t \in Tasks, Wake(t)
      PROVE  QueueInv' /\ [Next]_vars
  BY <1>3, WakeInv DEF Wake, vars
<1>4. ASSUME NEW t \in Tasks, Copy(t)
      PROVE  QueueInv' /\ [Next]_vars
  BY <1>4, CopyInv
<1>5. ASSUME NEW t \in Tasks, Up(t)
      PROVE  QueueInv' /\ [Next]_vars
  <2>1. Last(t) \in {"space", "items"} /\ First(t) # Last(t)
    BY DEF First, Last
  <2>2. CASE pc[t] = "unlock"
    BY <1>5, <2>2, UpMutexInv DEF Up, vars
  <2>3. CASE pc[t] = "last"
    BY <1>5, <2>1, <2>3, UpLastInv DEF Up, vars
  <2> QED
    BY <1>5, <2>2, <2>3 DEF Up
<1>6. ASSUME NEW t \in Tasks, Destroy(t)
      PROVE  QueueInv' /\ [Next]_vars
  BY <1>6, DestroyInv DEF Destroy, vars
<1>7. ASSUME NEW t \in Tasks, DestroyStep(t)
      PROVE  QueueInv' /\ [Next]_vars
  <2>1. CASE pc[t] = "close_space"
    BY <1>7, <2>1, DestroyTurnInv DEF DestroyStep, vars
  <2>2. CASE pc[t] = "close_items"
    BY <1>7, <2>2, DestroyTurnInv DEF DestroyStep, vars
  <2>3. CASE pc[t] = "free"
    BY <1>7, <2>3, FreeInv DEF DestroyStep, vars
  <2> QED
    BY <1>7, <2>1, <2>2, <2>3 DEF DestroyStep
<1>8. CASE UNCHANGED queueVars
  <2>1. QueueTypeOK' /\ IndicesAgree'
    BY <1>8 DEF QueueInv, QueueTypeOK, TypeOK, IndicesAgree, queueVars
  <2>2. WaitInv' /\ MutexInv'
    BY <1>8 DEF QueueInv, WaitInv, MutexInv, HasBuffer, Awaited, First, Queued, queueVars
  <2>3. CountInv'
    BY <1>8 DEF QueueInv, CountInv, Claims, HasFirst, First, Queued, queueVars
  <2> QED
    BY <1>8, <2>1, <2>2, <2>3 DEF QueueInv, queueVars, vars
<1> QED
  BY <1>1, <1>2, <1>3, <1>4, <1>5, <1>6, <1>7, <1>8 DEF QueueNext, CallStep

LEMMA QueueInvHolds == QueueSpec => []QueueInv
BY QueueInitInv, QueueStep, PTL DEF QueueSpec

(* What the tasks do to the buffer is what its specification allows.       *)
LEMMA BufferSpec == QueueSpec => Spec
<1>1. QueueInit => Init
  BY DEF QueueInit
<1> QED
  BY <1>1, QueueStep, QueueInvHolds, PTL DEF QueueSpec, Spec

(* Every variable keeps its type: no index leaves the buffer, no semaphore *)
(* has a negative number of permits.                                       *)
THEOREM QueueTypeCorrect == QueueSpec => []QueueTypeOK
<1>1. QueueInv => QueueTypeOK
  BY DEF QueueInv
<1> QED
  BY <1>1, QueueInvHolds, PTL

(* The third semaphore keeps add and remove apart. *)
THEOREM BufferIsExclusive == QueueSpec => []BufferExclusive
<1>1. QueueInv => BufferExclusive
  BY DEF QueueInv, MutexInv, HasBuffer, BufferExclusive
<1> QED
  BY <1>1, QueueInvHolds, PTL

(* Who has come through the semaphores finds a slot, or an item, waiting.  *)
THEOREM RoomIsCounted == QueueSpec => []NeverFullNorEmpty
<1>1. ASSUME QueueInv
      PROVE  NeverFullNorEmpty
  <2> SUFFICES ASSUME NEW t \in Tasks, pc[t] = "copy", store = "held"
               PROVE  IF op[t] = "send" THEN item_quant < max_capacity
                                        ELSE item_quant > 0
    BY DEF NeverFullNorEmpty
  <2>1. First(t) \in {"space", "items"}
    BY DEF First
  <2>2. Claims(First(t)) # {} /\ Claims(First(t)) \in SUBSET Tasks
    BY DEF Claims, HasFirst, First
  <2>3. IsFiniteSet(Claims(First(t)))
    BY <2>2, FS_Subset DEF MessageQueueAssumption
  <2>4. /\ Cardinality(Claims(First(t))) \in Nat
        /\ Cardinality(Claims(First(t))) # 0
    BY <2>2, <2>3, FS_CardinalityType, FS_EmptySet
  <2>5. /\ sem["space"].permits \in Nat /\ sem["items"].permits \in Nat
        /\ item_quant \in Nat
    BY <1>1, Typed DEF QueueInv
  <2> QED
    BY <1>1, <2>4, <2>5 DEF QueueInv, CountInv, First
<1> QED
  BY <1>1, QueueInvHolds, PTL

(* The indices agree under every interleaving of the tasks. *)
THEOREM QueueIndicesAgree == QueueSpec => []IndicesAgree
BY BufferSpec, IndicesAlwaysAgree, PTL

(* A message queue delivers each message once, in the order of the copies. *)
THEOREM QueueIsFifo == QueueSpec => Refines
BY BufferSpec, BufferIsFifo

(***************************************************************************)
(* Nobody gets anywhere with what mqueue_destroy frees, in a program that  *)
(* calls it while the others are out of their calls or blocked in the      *)
(* first sem_down.                                                         *)
(***************************************************************************)

LEMMA DestroyerInit ==
  ASSUME QueueInit
  PROVE  DestroyerInv /\ NoQueueInv
<1>1. /\ ~ gone /\ \A t \in Tasks : pc[t] = "out"
      /\ store = "freed" => \A s \in Sems : sem[s].closed
  BY DEF QueueInit, CreatedSem, Initially
<1>2. DestroyerInv
  BY <1>1 DEF DestroyerInv, Destroying
<1>3. NoQueueInv
  BY <1>1 DEF NoQueueInv
<1> QED
  BY <1>2, <1>3

(* While the queue is being destroyed, only the destroyer makes a step; a  *)
(* task that it lets go returns later, and so does one that calls then.    *)
LEMMA WhileDestroying ==
  ASSUME QueueTypeOK, ~ DestroyRace, DestroyerInv, Destroying, NEW t \in Tasks, MayStep(t),
         \/ CallStep(t)
         \/ Destroy(t)
         \/ \E o \in {"send", "recv"} : Call(t, o)
  PROVE  \/ DestroyStep(t)
         \/ /\ gone
            /\ \E l \in {"out", "first"} : pc' = [pc EXCEPT ![t] = l]
            /\ UNCHANGED <<sem, gone, store>>
<1>1. ~ Destroy(t)
  BY DEF Destroy
<1>2. pc[t] \in {"out", "first", "first_wait"} \cup DestroyPC
  BY DEF DestroyerInv
<1>3. ~ Copy(t) /\ ~ Up(t)
  BY <1>2 DEF Copy, Up
<1>4. gone => sem[First(t)].closed
  BY DEF DestroyerInv, Drained, First
<1>5. CASE Wake(t)
  <2>1. pc[t] = "first_wait"
    BY <1>2, <1>5 DEF Wake
  <2>2. gone
    BY <2>1 DEF MayStep, Destroying
  <2> QED
    BY <1>4, <1>5, <2>1, <2>2 DEF Wake
<1>6. CASE Down(t)
  <2>1. pc[t] = "first" /\ gone
    BY <1>2, <1>6 DEF Down, DestroyerInv
  <2> QED
    BY <1>4, <1>6, <2>1 DEF Down, SemDown
<1>7. CASE \E o \in {"send", "recv"} : Call(t, o)
  <2>1. pc[t] = "out" /\ Goto(t, "first") /\ UNCHANGED <<sem, gone, store>>
    BY <1>7 DEF Call
  <2>2. gone
    BY <2>1 DEF MayStep, Destroying
  <2> QED
    BY <2>1, <2>2
<1> QED
  BY <1>1, <1>3, <1>5, <1>6, <1>7 DEF CallStep

(* A step outside mqueue_destroy leads to no step of it but the first. *)
LEMMA BeforeDestroying ==
  ASSUME QueueTypeOK, ~ Destroying, NEW t \in Tasks,
         \/ CallStep(t)
         \/ \E o \in {"send", "recv"} : Call(t, o)
  PROVE  ~ Destroying' /\ ~ gone' /\ UNCHANGED store
         /\ \A u \in Tasks : pc'[u] \notin DestroyPC
<1>1. /\ pc[t] \notin DestroyPC /\ ~ gone
      /\ pc \in [Tasks -> {"out"} \cup InCall \cup Blocked \cup DestroyPC]
      /\ \A u \in Tasks : pc[u] \notin DestroyPC
  BY DEF Destroying, QueueTypeOK
<1>2. ~ DestroyStep(t)
  BY <1>1 DEF DestroyStep
<1>3. UNCHANGED <<gone, store>>
  BY <1>2 DEF CallStep, Call, Down, SemDown, Wake, Copy, Up
<1>4. \E l \in {"out"} \cup InCall \cup Blocked : pc' = [pc EXCEPT ![t] = l]
  <2>1. CASE Down(t)
    BY <2>1 DEF Down, SemDown
  <2>2. CASE Wake(t) \/ Up(t)
    BY <2>2 DEF Wake, Up
  <2>3. CASE Copy(t) \/ \E o \in {"send", "recv"} : Call(t, o)
    BY <2>3 DEF Copy, Call
  <2> QED
    BY <1>2, <2>1, <2>2, <2>3 DEF CallStep
<1> QED
  BY <1>1, <1>3, <1>4 DEF Destroying

LEMMA DestroyerStep ==
  ASSUME QueueTypeOK, ~ DestroyRace, DestroyerInv, [QueueNext]_queueVars
  PROVE  DestroyerInv'
<1>0. /\ pc \in [Tasks -> {"out"} \cup InCall \cup Blocked \cup DestroyPC]
      /\ gone \in BOOLEAN
      /\ \A s \in Sems : sem[s] \in SemType
      /\ sem = [s \in Sems |-> sem[s]]
  BY DEF QueueTypeOK, SemType
<1>1. CASE UNCHANGED queueVars
  BY <1>1 DEF DestroyerInv, Destroying, Drained, queueVars
<1>2. ASSUME NEW t \in Tasks, Destroy(t)
      PROVE  DestroyerInv'
  BY <1>0, <1>2 DEF Destroy, DestroyerInv, Destroying
<1>3. ASSUME NEW t \in Tasks, Destroying, DestroyStep(t), MayStep(t)
      PROVE  DestroyerInv'
  <2>1. /\ pc[t] \in DestroyPC /\ ~ gone
        /\ \A u \in Tasks \ {t} : pc[u] \in {"out", "first_wait"} /\ pc'[u] = pc[u]
    BY <1>0, <1>3 DEF DestroyStep, SemDestroyTurn, DestroyerInv, MayStep
  <2>2. CASE pc[t] = "close_space"
    BY <1>0, <1>3, <2>1, <2>2
       DEF DestroyStep, SemDestroyTurn, DestroyerInv, Destroying, Drained
  <2>3. CASE pc[t] = "close_items"
    <3>1. /\ sem'["space"] = sem["space"] /\ ~ gone'
          /\ pc'[t] = IF sem["items"].closed /\ sem["items"].queue = << >>
                        THEN "free" ELSE "close_items"
      BY <1>0, <1>3, <2>1, <2>3 DEF DestroyStep, SemDestroyTurn, SemType
    <3>2. pc'[t] = "free" => sem' = sem
      BY <1>3, <2>3, <3>1 DEF DestroyStep, SemDestroyTurn
    <3> QED
      BY <2>1, <2>3, <3>1, <3>2 DEF DestroyerInv, Destroying, Drained
  <2>4. CASE pc[t] = "free"
    BY <1>0, <1>3, <2>1, <2>4 DEF DestroyStep, DestroyerInv, Destroying, Drained
  <2> QED
    BY <2>1, <2>2, <2>3, <2>4
<1>4. ASSUME NEW t \in Tasks, Destroying, gone,
             \E l \in {"out", "first"} : pc' = [pc EXCEPT ![t] = l],
             UNCHANGED <<sem, gone, store>>
      PROVE  DestroyerInv'
  BY <1>0, <1>4 DEF DestroyerInv, Destroying, Drained
<1>5. ASSUME NEW t \in Tasks, ~ Destroying,
             \/ CallStep(t)
             \/ \E o \in {"send", "recv"} : Call(t, o)
      PROVE  DestroyerInv'
  <2>1. ~ Destroying' /\ ~ gone' /\ \A u \in Tasks : pc'[u] \notin DestroyPC
    BY <1>5, BeforeDestroying
  <2> QED
    BY <2>1 DEF DestroyerInv
<1> QED
  BY <1>1, <1>2, <1>3, <1>4, <1>5, WhileDestroying DEF QueueNext, CallStep

LEMMA NoQueueStep ==
  ASSUME QueueTypeOK, ~ DestroyRace, DestroyerInv, NoQueueInv, [QueueNext]_queueVars
  PROVE  NoQueueInv'
<1> SUFFICES ASSUME store' = "freed", ~ Destroying'
             PROVE  /\ \A s \in Sems : sem'[s].closed
                    /\ \A t \in Tasks : pc'[t] \in {"out", "first"}
  BY DEF NoQueueInv
<1>0. pc \in [Tasks -> {"out"} \cup InCall \cup Blocked \cup DestroyPC]
  BY DEF QueueTypeOK
<1>1. CASE UNCHANGED queueVars
  BY <1>1 DEF NoQueueInv, Destroying, queueVars
<1>2. ASSUME NEW t \in Tasks, Destroy(t)
      PROVE  FALSE
  BY <1>0, <1>2 DEF Destroy, Destroying
<1>3. ASSUME NEW t \in Tasks, Destroying, DestroyStep(t)
      PROVE  FALSE
  BY <1>0, <1>3 DEF DestroyStep, SemDestroyTurn, Destroying
<1>4. ASSUME NEW t \in Tasks, Destroying, gone, UNCHANGED <<sem, gone, store>>
      PROVE  FALSE
  BY <1>4 DEF Destroying
<1>5. ASSUME NEW t \in Tasks, ~ Destroying,
             \/ CallStep(t)
             \/ \E o \in {"send", "recv"} : Call(t, o)
      PROVE  /\ \A s \in Sems : sem'[s].closed
             /\ \A u \in Tasks : pc'[u] \in {"out", "first"}
  <2>1. store = "freed"
    BY <1>5, BeforeDestroying
  <2>2. /\ \A s \in Sems : sem[s].closed
        /\ \A u \in Tasks : pc[u] \in {"out", "first"}
    BY <1>5, <2>1 DEF NoQueueInv
  <2>3. First(t) \in Sems
    BY DEF First
  <2> QED
    BY <1>0, <1>5, <2>2, <2>3
       DEF CallStep, Down, SemDown, Wake, Copy, Up, DestroyStep, Call
<1> QED
  BY <1>1, <1>2, <1>3, <1>4, <1>5, WhileDestroying DEF QueueNext, CallStep

(* After mqueue_destroy nobody works on the buffer, and no call gets past  *)
(* its first sem_down: not one that was blocked there when the destruction *)
(* began, not one that is made when the struct is freed, and not when a    *)
(* semaphore could not be made.  That the others are out of their calls or *)
(* blocked when it begins, and still while it runs, is what mqueue_destroy *)
(* leaves to its callers.                                                  *)
THEOREM NobodyGetsInside ==
  ASSUME ~ DestroyRace
  PROVE  QueueSpec => []NobodyInside
<1>1. QueueInit => DestroyerInv /\ NoQueueInv
  BY DestroyerInit
<1>2. QueueInv => QueueTypeOK
  BY DEF QueueInv
<1>3. /\ QueueTypeOK /\ DestroyerInv /\ NoQueueInv /\ [QueueNext]_queueVars
      => (DestroyerInv /\ NoQueueInv)'
  BY DestroyerStep, NoQueueStep
<1>4. ASSUME DestroyerInv, NoQueueInv
      PROVE  NobodyInside
  <2>1. gone => \A t \in Tasks : pc[t] \notin DestroyPC
    BY <1>4 DEF DestroyerInv
  <2> QED
    BY <1>4, <2>1 DEF DestroyerInv, NoQueueInv, NobodyInside, Destroying
<1> QED
  BY <1>1, <1>2, <1>3, <1>4, QueueInvHolds, PTL DEF QueueSpec
=============================================================================
