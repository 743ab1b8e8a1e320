------------------------- MODULE CountingSemaphore -------------------------
(***************************************************************************)
(* What kernel/semaphore.h promises of one semaphore: sem_down takes a     *)
(* permit or joins a first-come first-served queue, sem_up hands a permit  *)
(* to the first of the queue or keeps it, sem_destroy closes the semaphore *)
(* and lets the blocked tasks go, and whoever is let go returns.  There is *)
(* no processor, no lock and no scheduler here.                            *)
(***************************************************************************)
EXTENDS Sequences, Naturals

CONSTANTS Callers, Initial

VARIABLES
  permits,   \* permits nobody has taken
  queue,     \* blocked callers, first come first
  closed,    \* destroyed
  caller     \* "out", "waiting" in the queue, or "let go" and not yet back

vars == <<permits, queue, closed, caller>>

Init ==
  /\ permits = Initial
  /\ queue = << >>
  /\ closed = FALSE
  /\ caller = [t \in Callers |-> "out"]

Take(t) ==
  /\ ~ closed
  /\ caller[t] = "out"
  /\ permits > 0
  /\ permits' = permits - 1
  /\ UNCHANGED <<queue, closed, caller>>

Block(t) ==
  /\ ~ closed
  /\ caller[t] = "out"
  /\ permits = 0
  /\ queue' = Append(queue, t)
  /\ caller' = [caller EXCEPT ![t] = "waiting"]
  /\ UNCHANGED <<permits, closed>>

LetGo ==
  /\ queue # << >>
  /\ queue' = Tail(queue)
  /\ caller' = [caller EXCEPT ![Head(queue)] = "let go"]

Give ==
  /\ ~ closed
  /\ IF queue = << >> THEN permits' = permits + 1 /\ UNCHANGED <<queue, caller>>
                      ELSE LetGo /\ UNCHANGED permits
  /\ UNCHANGED closed

(* Permits mean nothing once the semaphore is closed. *)
Close ==
  /\ ~ closed
  /\ closed' = TRUE
  /\ permits' = 0
  /\ UNCHANGED <<queue, caller>>

Drain ==
  /\ closed
  /\ LetGo
  /\ UNCHANGED <<permits, closed>>

Return(t) ==
  /\ caller[t] = "let go"
  /\ caller' = [caller EXCEPT ![t] = "out"]
  /\ UNCHANGED <<permits, queue, closed>>

Next ==
  \/ Give
  \/ Close
  \/ Drain
  \/ \E t \in Callers : Take(t) \/ Block(t) \/ Return(t)

(* Whoever is let go comes back, and a closed semaphore lets everybody go. *)
Spec == Init /\ [][Next]_vars
FairSpec == Spec /\ WF_vars(Drain) /\ \A t \in Callers : WF_vars(Return(t))
=============================================================================
