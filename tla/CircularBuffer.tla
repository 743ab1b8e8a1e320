--------------------------- MODULE CircularBuffer ---------------------------
(***************************************************************************)
(* The circular buffer of kernel/mqueue.c.  `start' is the slot of the     *)
(* first item and `end' the slot of the last one, not the one after it:    *)
(* an add to an empty buffer moves neither, and neither does the removal   *)
(* of the only item.                                                       *)
(***************************************************************************)
EXTENDS Integers, Sequences

CONSTANTS Items,
          max_capacity

ASSUME BufferAssumption == max_capacity \in Nat \ {0}

VARIABLES
  buffer,      \* max_capacity slots of item_size bytes
  item_quant,
  start,
  end,
  dest         \* the item the last circular_buffer_remove copied

vars == <<buffer, item_quant, start, end, dest>>

Slots == 0..(max_capacity - 1)

TypeOK ==
  /\ buffer \in [Slots -> Items]
  /\ item_quant \in 0..max_capacity
  /\ start \in Slots
  /\ end \in Slots
  /\ dest \in Items

(* circular_buffer_create succeeds: mem_alloc leaves any bytes. *)
Init ==
  /\ buffer \in [Slots -> Items]
  /\ item_quant = 0
  /\ start = 0
  /\ end = 0
  /\ dest \in Items

(* Mutant: the first item goes after the last slot that was used. *)
AddAlwaysMoves(x) ==
  /\ item_quant # max_capacity
  /\ item_quant' = item_quant + 1
  /\ end' = (end + 1) % max_capacity
  /\ buffer' = [buffer EXCEPT ![end'] = x]
  /\ UNCHANGED <<start, dest>>

(* Mutant: the index of the last item does not wrap around. *)
AddWithoutWrap(x) ==
  /\ item_quant # max_capacity
  /\ item_quant' = item_quant + 1
  /\ end' = IF item_quant = 0 THEN end ELSE end + 1
  /\ buffer' = [buffer EXCEPT ![IF item_quant = 0 THEN start ELSE end'] = x]
  /\ UNCHANGED <<start, dest>>

(* circular_buffer_add; a full buffer is left as it is. *)
Add(x) ==
  /\ item_quant # max_capacity
  /\ item_quant' = item_quant + 1
  /\ end' = IF item_quant = 0 THEN end ELSE (end + 1) % max_capacity
  /\ buffer' = [buffer EXCEPT ![IF item_quant = 0 THEN start ELSE end'] = x]
  /\ UNCHANGED <<start, dest>>

(* Mutant: the removal of the only item moves the start. *)
RemoveAlwaysMoves ==
  /\ item_quant # 0
  /\ dest' = buffer[start]
  /\ start' = (start + 1) % max_capacity
  /\ item_quant' = item_quant - 1
  /\ UNCHANGED <<buffer, end>>

(* circular_buffer_remove; an empty buffer is left as it is. *)
Remove ==
  /\ item_quant # 0
  /\ dest' = buffer[start]
  /\ start' = IF item_quant > 1 THEN (start + 1) % max_capacity ELSE start
  /\ item_quant' = item_quant - 1
  /\ UNCHANGED <<buffer, end>>

Next == Remove \/ \E x \in Items : Add(x)

Spec == Init /\ [][Next]_vars

(***************************************************************************)
(* Correctness.                                                            *)
(***************************************************************************)

(* The stored items are the item_quant slots from start to end: start and  *)
(* end meet whenever there is at most one, which is what lets add and      *)
(* remove leave them alone then.                                           *)
IndicesAgree ==
  end = IF item_quant = 0 THEN start ELSE (start + item_quant - 1) % max_capacity

(* The items from start on, wrapping around. *)
ContentsOf(b, first, n) == [i \in 1..n |-> b[(first + (i - 1)) % max_capacity]]

Contents == ContentsOf(buffer, start, item_quant)

Fifo == INSTANCE BoundedFifo WITH
  Capacity <- max_capacity, contents <- Contents, out <- dest

(* Messages come out once each and in the order they went in, however the  *)
(* indices have wrapped around, and none is overwritten.                   *)
Refines == Fifo!Spec
=============================================================================
