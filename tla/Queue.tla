------------------------------- MODULE Queue -------------------------------
(***************************************************************************)
(* The generic queue of lib/queue.c, seen through its interface: a         *)
(* sequence of contents and the single iterator that the queue carries     *)
(* inside itself.  `it' is the position of the node the iterator points    *)
(* at, 0 when it is NULL.  The iterator belongs to the queue and not to    *)
(* whoever walks it, so two walks, or a walk and a deletion, disturb each  *)
(* other; QAdd and QDel say exactly how.                                   *)
(***************************************************************************)
EXTENDS SequencesExt

CONSTANT NULL

(* queue_create: no node, iterator NULL. *)
EmptyQueue == [items |-> << >>, it |-> 0]

(* The queues whose contents are drawn from S. *)
QueueOf(S) == {q \in [items : Seq(S), it : Nat] : q.it <= Len(q.items)}

QSize(q) == Len(q.items)

QHas(q, x) == x \in ToSet(q.items)

(* Position of the first node holding x, 0 when there is none. *)
QPosition(q, x) == SelectInSeq(q.items, LAMBDA y : y = x)

(* A node appended to an empty queue also becomes the iterator. *)
QAdd(q, x) == [items |-> Append(q.items, x),
               it    |-> IF q.items = << >> THEN 1 ELSE q.it]

(* Mutant: the iterator is left on the node that was unlinked. *)
QDelKeepsIterator(q, x) == [items |-> RemoveFirst(q.items, x), it |-> q.it]

(* The first node holding x is unlinked.  An iterator standing on it moves *)
(* to the node after it, NULL when there is none.                          *)
QDel(q, x) ==
  LET i == QPosition(q, x)
  IN  [items |-> RemoveFirst(q.items, x),
       it    |-> IF i = q.it /\ i = QSize(q) THEN 0
                   ELSE IF i \in 1..(q.it - 1) THEN q.it - 1 ELSE q.it]

QHead(q) == [q EXCEPT !.it = IF q.items = << >> THEN 0 ELSE 1]

QNext(q) == [q EXCEPT !.it = IF q.it \in {0, QSize(q)} THEN 0 ELSE q.it + 1]

QItem(q) == IF q.it = 0 THEN NULL ELSE q.items[q.it]
=============================================================================
