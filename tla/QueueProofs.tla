---------------------------- MODULE QueueProofs ----------------------------
(***************************************************************************)
(* Facts about the queue operations, for queues of any contents: what they *)
(* do to the set of contents, that they keep contents distinct, and that   *)
(* the iterator never leaves the queue.                                    *)
(***************************************************************************)
EXTENDS Queue, SequenceTheorems, FiniteSetTheorems, TLAPS

(* Induction over the naturals, said of sets: a set that misses m would    *)
(* have one element more below m than there are below m.                   *)
LEMMA NatInductive ==
  ASSUME NEW V, 0 \in V, \A k \in Nat : k \in V => k + 1 \in V
  PROVE  Nat \subseteq V
<1> SUFFICES ASSUME NEW m \in Nat, m \notin V
             PROVE  FALSE
  OBVIOUS
<1> DEFINE W == {k \in 0..m : k \in V}
           shift == [k \in W |-> k + 1]
<1>1. IsFiniteSet(W)
  <2>1. W \subseteq Nat /\ \A k \in W : k <= m
    OBVIOUS
  <2> QED
    BY <2>1, FS_BoundedSetOfNaturals
<1>2. 0 \in W
  OBVIOUS
<1>3. shift \in [W -> W \ {0}]
  <2> SUFFICES ASSUME NEW k \in W
               PROVE  k + 1 \in W \ {0}
    OBVIOUS
  <2>1. k \in Nat /\ k # m /\ k <= m /\ k + 1 \in V
    OBVIOUS
  <2> QED
    BY <2>1
<1>4. \A x, y \in W : shift[x] = shift[y] => x = y
  OBVIOUS
<1> HIDE DEF W, shift
<1>5. /\ IsFiniteSet(W \ {0}) /\ Cardinality(W \ {0}) = Cardinality(W) - 1
      /\ Cardinality(W) \in Nat
  BY <1>1, <1>2, FS_RemoveElement, FS_CardinalityType
<1>6. \E x, y \in W : x # y /\ shift[x] = shift[y]
  <2>1. Cardinality(W \ {0}) < Cardinality(W)
    BY <1>5
  <2> QED
    BY <1>1, <1>3, <1>5, <2>1, FS_PigeonHole
<1> QED
  BY <1>4, <1>6

(* A set of naturals has a least element. *)
LEMMA NatMinimum ==
  ASSUME NEW T, T \subseteq Nat, T # {}
  PROVE  \E x \in T : \A y \in T : x <= y
<1> SUFFICES ASSUME \A x \in T : \E y \in T : y < x
             PROVE  FALSE
  OBVIOUS
<1> DEFINE V == {k \in Nat : \A x \in T : k < x}
<1>1. 0 \in V
  <2> SUFFICES ASSUME NEW x \in T
               PROVE  0 < x
    OBVIOUS
  <2> QED
    OBVIOUS
<1>2. \A k \in Nat : k \in V => k + 1 \in V
  <2> SUFFICES ASSUME NEW k \in V, NEW x \in T
               PROVE  k + 1 < x
    OBVIOUS
  <2>1. PICK y \in T : y < x
    OBVIOUS
  <2> QED
    BY <2>1
<1> HIDE DEF V
<1>3. Nat \subseteq V
  BY <1>1, <1>2, NatInductive
<1>4. PICK z \in T : z \in Nat
  OBVIOUS
<1>5. z \in V
  BY <1>3, <1>4
<1> QED
  BY <1>4, <1>5 DEF V


(* The position of the first occurrence. *)
LEMMA PositionOf ==
  ASSUME NEW S, NEW s \in Seq(S), NEW x, \E j \in 1..Len(s) : s[j] = x
  PROVE  LET I == {j \in 1..Len(s) : s[j] = x}
         IN  I # {} /\ Min(I) \in 1..Len(s) /\ s[Min(I)] = x
<1> DEFINE I == {j \in 1..Len(s) : s[j] = x}
<1>1. I \subseteq Nat /\ I # {}
  BY LenProperties
<1> SUFFICES Min(I) \in I
  BY <1>1
<1> HIDE DEF I
<1>2. \E i \in I : \A j \in I : i <= j
  BY <1>1, NatMinimum
<1> QED
  BY <1>2, Zenon DEF Min

(* Removing a position closes the gap. *)
LEMMA RemoveAtProperties ==
  ASSUME NEW S, NEW s \in Seq(S), NEW i \in 1..Len(s)
  PROVE  LET r == RemoveAt(s, i)
         IN  /\ r \in Seq(S)
             /\ Len(r) = Len(s) - 1
             /\ \A j \in 1..Len(r) : r[j] = IF j < i THEN s[j] ELSE s[j + 1]
<1> DEFINE a == SubSeq(s, 1, i - 1)
           b == SubSeq(s, i + 1, Len(s))
<1>1. RemoveAt(s, i) = a \o b
  BY DEF RemoveAt
<1>2. Len(s) \in Nat /\ \A j \in 1..Len(s) : s[j] \in S
  BY LenProperties, ElementOfSeq
<1>3. /\ a \in Seq(S)
      /\ Len(a) = i - 1
      /\ \A j \in 1..(i - 1) : a[j] = s[j]
  <2>1. \A j \in 1..(i - 1) : s[j] \in S
    BY <1>2
  <2>2. /\ a \in Seq(S)
        /\ Len(a) = IF 1 <= i - 1 THEN i - 1 - 1 + 1 ELSE 0
        /\ \A j \in 1..(i - 1 - 1 + 1) : a[j] = s[1 + j - 1]
    BY <1>2, <2>1, SubSeqProperties
  <2> QED
    BY <1>2, <2>2
<1>4. /\ b \in Seq(S)
      /\ Len(b) = Len(s) - i
      /\ \A j \in 1..(Len(s) - i) : b[j] = s[j + i]
  <2>1. \A j \in (i + 1)..Len(s) : s[j] \in S
    BY <1>2
  <2>2. /\ b \in Seq(S)
        /\ Len(b) = IF i + 1 <= Len(s) THEN Len(s) - (i + 1) + 1 ELSE 0
        /\ \A j \in 1..(Len(s) - (i + 1) + 1) : b[j] = s[i + 1 + j - 1]
    BY <1>2, <2>1, SubSeqProperties
  <2> QED
    BY <1>2, <2>2
<1> HIDE DEF a, b
<1>5. /\ a \o b \in Seq(S)
      /\ Len(a \o b) = Len(a) + Len(b)
      /\ \A j \in 1..(Len(a) + Len(b)) :
            (a \o b)[j] = IF j <= Len(a) THEN a[j] ELSE b[j - Len(a)]
  BY <1>3, <1>4, ConcatProperties
<1>6. Len(a \o b) = Len(s) - 1
  BY <1>2, <1>3, <1>4, <1>5
<1>7. ASSUME NEW j \in 1..(Len(s) - 1)
      PROVE  (a \o b)[j] = IF j < i THEN s[j] ELSE s[j + 1]
  <2>1. CASE j < i
    BY <1>2, <1>3, <1>4, <1>5, <2>1
  <2>2. CASE ~ (j < i)
    <3>1. j - Len(a) \in 1..(Len(s) - i) /\ j - Len(a) + i = j + 1
      BY <1>2, <1>3, <2>2
    <3>2. (a \o b)[j] = b[j - Len(a)]
      BY <1>2, <1>3, <1>4, <1>5, <2>2
    <3> QED
      BY <1>4, <2>2, <3>1, <3>2
  <2> QED
    BY <2>1, <2>2
<1> QED
  <2>1. Len(a \o b) \in Nat
    BY <1>5, LenProperties
  <2> QED
    BY <1>1, <1>5, <1>6, <1>7

(* RemoveFirst removes the first position. *)
LEMMA RemoveFirstIn ==
  ASSUME NEW S, NEW s \in Seq(S), NEW x, \E j \in 1..Len(s) : s[j] = x
  PROVE  LET i == Min({j \in 1..Len(s) : s[j] = x})
         IN  i \in 1..Len(s) /\ s[i] = x /\ RemoveFirst(s, x) = RemoveAt(s, i)
BY PositionOf DEF RemoveFirst, SelectInSeq

(* RemoveFirst takes x, present or not, out of a sequence without repetitions. *)
LEMMA RemoveFirstProperties ==
  ASSUME NEW S, NEW s \in Seq(S), IsInjective(s), NEW x
  PROVE  /\ RemoveFirst(s, x) \in Seq(S)
         /\ IsInjective(RemoveFirst(s, x))
         /\ ToSet(RemoveFirst(s, x)) = ToSet(s) \ {x}
         /\ Len(RemoveFirst(s, x)) = IF x \in ToSet(s) THEN Len(s) - 1 ELSE Len(s)
<1> DEFINE r == RemoveFirst(s, x)
<1>0. Len(s) \in Nat /\ DOMAIN s = 1..Len(s)
  BY LenProperties
<1>1. CASE x \notin ToSet(s)
  <2>1. r = s
    BY <1>0, <1>1 DEF RemoveFirst, ToSet
  <2> QED
    BY <1>1, <2>1
<1>2. CASE x \in ToSet(s)
  <2>0. \E j \in 1..Len(s) : s[j] = x
    BY <1>0, <1>2 DEF ToSet
  <2>1. PICK i \in 1..Len(s) : x = s[i] /\ r = RemoveAt(s, i)
    BY <2>0, RemoveFirstIn
  <2>2. /\ r \in Seq(S)
        /\ Len(r) = Len(s) - 1
        /\ \A j \in 1..(Len(s) - 1) : r[j] = IF j < i THEN s[j] ELSE s[j + 1]
    BY <2>1, RemoveAtProperties
  <2> HIDE DEF r
  <2>3. DOMAIN r = 1..(Len(s) - 1)
    BY <2>2, LenProperties
  <2>4. \A j, k \in 1..Len(s) : s[j] = s[k] => j = k
    BY <1>0 DEF IsInjective
  <2>5. IsInjective(r)
    <3> SUFFICES ASSUME NEW j \in 1..(Len(s) - 1), NEW k \in 1..(Len(s) - 1),
                        r[j] = r[k]
                 PROVE  j = k
      BY <2>3 DEF IsInjective
    <3> QED
      BY <1>0, <2>2, <2>4
  <2>6. ToSet(r) \subseteq ToSet(s) \ {x}
    <3> SUFFICES ASSUME NEW j \in 1..(Len(s) - 1)
                 PROVE  r[j] \in ToSet(s) /\ r[j] # x
      BY <2>3 DEF ToSet
    <3>1. \E k \in 1..Len(s) : r[j] = s[k] /\ k # i
      <4>1. CASE j < i
        <5>1. j \in 1..Len(s) /\ j # i /\ r[j] = s[j]
          BY <1>0, <2>2, <4>1
        <5> QED
          BY <5>1
      <4>2. CASE ~ (j < i)
        <5>1. j + 1 \in 1..Len(s) /\ j + 1 # i /\ r[j] = s[j + 1]
          BY <1>0, <2>2, <4>2
        <5> QED
          BY <5>1
      <4> QED
        BY <4>1, <4>2
    <3>2. PICK k \in 1..Len(s) : r[j] = s[k] /\ k # i
      BY <3>1
    <3>3. s[k] # s[i]
      BY <2>4, <3>2
    <3>4. s[k] \in ToSet(s)
      BY <1>0 DEF ToSet
    <3> QED
      BY <2>1, <3>2, <3>3, <3>4
  <2>7. ToSet(s) \ {x} \subseteq ToSet(r)
    <3> SUFFICES ASSUME NEW j \in 1..Len(s), s[j] # x
                 PROVE  \E k \in 1..(Len(s) - 1) : r[k] = s[j]
      BY <1>0, <2>3 DEF ToSet
    <3>1. CASE j < i
      <4>1. j \in 1..(Len(s) - 1) /\ r[j] = s[j]
        BY <1>0, <2>2, <3>1
      <4> QED
        BY <4>1
    <3>2. CASE j > i
      <4>1. j - 1 \in 1..(Len(s) - 1) /\ ~ (j - 1 < i) /\ j - 1 + 1 = j
        BY <1>0, <3>2
      <4> QED
        BY <2>2, <4>1
    <3> QED
      BY <2>1, <3>1, <3>2
  <2> QED
    BY <1>2, <2>2, <2>5, <2>6, <2>7 DEF r
<1> QED
  BY <1>1, <1>2

(* It returns a sequence of the same elements, repeated or not. *)
LEMMA RemoveFirstType ==
  ASSUME NEW S, NEW s \in Seq(S), NEW x
  PROVE  RemoveFirst(s, x) \in Seq(S)
<1>1. CASE \E j \in 1..Len(s) : s[j] = x
  <2>1. PICK i \in 1..Len(s) : RemoveFirst(s, x) = RemoveAt(s, i)
    BY <1>1, RemoveFirstIn
  <2> QED
    BY <2>1, RemoveAtProperties
<1>2. CASE ~ \E j \in 1..Len(s) : s[j] = x
  BY <1>2 DEF RemoveFirst
<1> QED
  BY <1>1, <1>2

(* Append adds one element, and a new one keeps a sequence injective. *)
LEMMA AppendSet ==
  ASSUME NEW S, NEW s \in Seq(S), NEW x \in S
  PROVE  /\ Append(s, x) \in Seq(S)
         /\ ToSet(Append(s, x)) = ToSet(s) \cup {x}
         /\ IsInjective(s) /\ x \notin ToSet(s) => IsInjective(Append(s, x))
<1>1. /\ Append(s, x) \in Seq(S)
      /\ Len(Append(s, x)) = Len(s) + 1
      /\ \A i \in 1..Len(s) : Append(s, x)[i] = s[i]
      /\ Append(s, x)[Len(s) + 1] = x
  BY AppendProperties
<1>2. /\ Len(s) \in Nat
      /\ DOMAIN s = 1..Len(s)
      /\ DOMAIN Append(s, x) = 1..(Len(s) + 1)
  BY <1>1, LenProperties
<1>3. ToSet(Append(s, x)) = ToSet(s) \cup {x}
  BY <1>1, <1>2 DEF ToSet
<1>4. ASSUME IsInjective(s), x \notin ToSet(s)
      PROVE  IsInjective(Append(s, x))
  <2> SUFFICES ASSUME NEW i \in 1..(Len(s) + 1), NEW j \in 1..(Len(s) + 1),
                      Append(s, x)[i] = Append(s, x)[j]
               PROVE  i = j
    BY <1>2 DEF IsInjective
  <2>1. \A k \in 1..Len(s) : s[k] # x
    BY <1>2, <1>4 DEF ToSet
  <2>2. \A k, l \in 1..Len(s) : s[k] = s[l] => k = l
    BY <1>2, <1>4 DEF IsInjective
  <2> QED
    BY <1>1, <1>2, <2>1, <2>2
<1> QED
  BY <1>1, <1>3, <1>4

(***************************************************************************)
(* The queue operations.                                                   *)
(***************************************************************************)

(* The parts of a queue. *)
LEMMA QueueType ==
  ASSUME NEW S, NEW q \in QueueOf(S)
  PROVE  /\ q.items \in Seq(S)
         /\ Len(q.items) \in Nat
         /\ DOMAIN q.items = 1..Len(q.items)
         /\ q.it \in 0..Len(q.items)
         /\ q = [items |-> q.items, it |-> q.it]
         /\ ToSet(q.items) \subseteq S
<1>1. q.items \in Seq(S) /\ q.it \in Nat /\ q.it <= Len(q.items)
  BY DEF QueueOf
<1>2. Len(q.items) \in Nat /\ DOMAIN q.items = 1..Len(q.items)
  BY <1>1, LenProperties
<1>3. ToSet(q.items) \subseteq S
  BY <1>1, <1>2, ElementOfSeq DEF ToSet
<1>4. q = [items |-> q.items, it |-> q.it]
  BY DEF QueueOf
<1> QED
  BY <1>1, <1>2, <1>3, <1>4

(* queue_create returns an empty queue. *)
LEMMA EmptyQueueProperties ==
  ASSUME NEW S
  PROVE  /\ EmptyQueue \in QueueOf(S)
         /\ ToSet(EmptyQueue.items) = {}
         /\ IsInjective(EmptyQueue.items)
<1>1. EmptyQueue.items = << >> /\ << >> \in Seq(S) /\ Len(<< >>) = 0
  BY EmptySeq DEF EmptyQueue
<1>2. DOMAIN << >> = {}
  OBVIOUS
<1> QED
  BY <1>1, <1>2 DEF EmptyQueue, QueueOf, ToSet, IsInjective

(* queue_add adds the item and keeps the iterator inside the queue. *)
LEMMA QAddProperties ==
  ASSUME NEW S, NEW q \in QueueOf(S), NEW x \in S
  PROVE  /\ QAdd(q, x) \in QueueOf(S)
         /\ ToSet(QAdd(q, x).items) = ToSet(q.items) \cup {x}
         /\ IsInjective(q.items) /\ x \notin ToSet(q.items)
               => IsInjective(QAdd(q, x).items)
<1>1. QAdd(q, x).items = Append(q.items, x)
  BY DEF QAdd
<1>2. QAdd(q, x) \in QueueOf(S)
  <2>1. Append(q.items, x) \in Seq(S) /\ Len(Append(q.items, x)) = Len(q.items) + 1
    BY QueueType, AppendProperties
  <2>2. QAdd(q, x).it \in Nat /\ QAdd(q, x).it <= Len(q.items) + 1
    BY QueueType DEF QAdd
  <2>3. QAdd(q, x) = [items |-> QAdd(q, x).items, it |-> QAdd(q, x).it]
    BY DEF QAdd
  <2> QED
    BY <1>1, <2>1, <2>2, <2>3 DEF QueueOf
<1> QED
  BY <1>1, <1>2, QueueType, AppendSet

(* queue_del keeps the iterator inside the queue, whether or not contents  *)
(* repeat.                                                                 *)
LEMMA QDelType ==
  ASSUME NEW S, NEW q \in QueueOf(S), NEW x
  PROVE  QDel(q, x) \in QueueOf(S)
<1> DEFINE r == RemoveFirst(q.items, x)
           I == {j \in 1..Len(q.items) : q.items[j] = x}
<1>0. /\ q.items \in Seq(S)
      /\ Len(q.items) \in Nat
      /\ DOMAIN q.items = 1..Len(q.items)
      /\ q.it \in 0..Len(q.items)
  BY QueueType
<1>1. /\ QDel(q, x).items = r
      /\ QPosition(q, x) = IF I # {} THEN Min(I) ELSE 0
  BY DEF QDel, QPosition, SelectInSeq
<1>2. CASE I = {}
  <2>1. r = q.items
    BY <1>2 DEF RemoveFirst
  <2>2. QDel(q, x).it = q.it
    BY <1>0, <1>1, <1>2 DEF QDel
  <2> QED
    BY <1>0, <1>1, <2>1, <2>2 DEF QDel, QueueOf
<1>3. CASE I # {}
  <2>1. QPosition(q, x) \in 1..Len(q.items) /\ r \in Seq(S) /\ Len(r) = Len(q.items) - 1
    BY <1>0, <1>1, <1>3, RemoveFirstIn, RemoveAtProperties
  <2>2. QDel(q, x).it \in Nat /\ QDel(q, x).it <= Len(r)
    <3> HIDE DEF r
    <3> QED
      BY <1>0, <2>1 DEF QDel, QSize
  <2>3. QDel(q, x) = [items |-> r, it |-> QDel(q, x).it]
    BY DEF QDel
  <2> HIDE DEF r
  <2> QED
    BY <2>1, <2>2, <2>3 DEF QueueOf
<1> QED
  BY <1>2, <1>3

(* queue_del removes the item. *)
LEMMA QDelProperties ==
  ASSUME NEW S, NEW q \in QueueOf(S), IsInjective(q.items), NEW x
  PROVE  /\ QDel(q, x) \in QueueOf(S)
         /\ ToSet(QDel(q, x).items) = ToSet(q.items) \ {x}
         /\ IsInjective(QDel(q, x).items)
<1>1. QDel(q, x).items = RemoveFirst(q.items, x)
  BY DEF QDel
<1> QED
  BY <1>1, QueueType, QDelType, RemoveFirstProperties

(* queue_head and queue_next move the iterator and nothing else. *)
LEMMA QWalkProperties ==
  ASSUME NEW S, NEW q \in QueueOf(S)
  PROVE  /\ QHead(q) \in QueueOf(S) /\ QHead(q).items = q.items
         /\ QNext(q) \in QueueOf(S) /\ QNext(q).items = q.items
<1>0. /\ q.items \in Seq(S)
      /\ Len(q.items) \in Nat
      /\ q.it \in 0..Len(q.items)
      /\ q = [items |-> q.items, it |-> q.it]
  BY QueueType
<1>1. q.items # << >> => Len(q.items) # 0
  BY <1>0, EmptySeq
<1>2. QHead(q) = [items |-> q.items, it |-> IF q.items = << >> THEN 0 ELSE 1]
  BY <1>0 DEF QHead
<1>3. QNext(q) = [items |-> q.items,
                  it |-> IF q.it \in {0, Len(q.items)} THEN 0 ELSE q.it + 1]
  BY <1>0 DEF QNext, QSize
<1>4. QHead(q) \in QueueOf(S)
  BY <1>0, <1>1, <1>2 DEF QueueOf
<1>5. QNext(q) \in QueueOf(S)
  BY <1>0, <1>3 DEF QueueOf
<1> QED
  BY <1>2, <1>3, <1>4, <1>5

(* queue_item returns an item of the queue or NULL. *)
LEMMA QItemProperties ==
  ASSUME NEW S, NEW q \in QueueOf(S)
  PROVE  QItem(q) = NULL \/ QItem(q) \in ToSet(q.items)
<1>1. DOMAIN q.items = 1..Len(q.items) /\ q.it \in 0..Len(q.items) /\ Len(q.items) \in Nat
  BY QueueType
<1>2. CASE q.it = 0
  BY <1>2 DEF QItem
<1>3. CASE q.it # 0
  <2>1. q.it \in DOMAIN q.items
    BY <1>1, <1>3
  <2> QED
    BY <1>3, <2>1 DEF QItem, ToSet
<1> QED
  BY <1>2, <1>3

(* Deleting the head takes the first node, whether or not contents repeat, *)
(* and an iterator that was on it is on the new first node.                *)
LEMMA QDelHead ==
  ASSUME NEW S, NEW q \in QueueOf(S), q.items # << >>
  PROVE  LET d == QDel(q, q.items[1])
         IN  /\ d \in QueueOf(S)
             /\ d.items = Tail(q.items)
             /\ q.it = 1 => d.it = IF d.items = << >> THEN 0 ELSE 1
<1> DEFINE s == q.items
           I == {j \in 1..Len(s) : s[j] = s[1]}
           d == QDel(q, s[1])
<1>1. s \in Seq(S) /\ Len(s) \in Nat \ {0} /\ q.it \in 0..Len(s)
  BY QueueType, EmptySeq
<1>2. 1 \in I /\ \A j \in I : 1 <= j
  BY <1>1
<1>3. Min(I) = 1
  <2>1. Min(I) \in I /\ \A j \in I : Min(I) <= j
    BY <1>2, Zenon DEF Min
  <2>2. Min(I) \in 1..Len(s) /\ Min(I) <= 1
    BY <1>2, <2>1
  <2> QED
    BY <1>1, <2>2
<1>4. QPosition(q, s[1]) = 1
  BY <1>2, <1>3 DEF QPosition, SelectInSeq
<1>5. RemoveFirst(s, s[1]) = Tail(s)
  <2>1. RemoveFirst(s, s[1]) = RemoveAt(s, 1)
    BY <1>2, <1>3 DEF RemoveFirst, SelectInSeq
  <2>2. SubSeq(s, 1, 1 - 1) = << >> /\ SubSeq(s, 1 + 1, Len(s)) = Tail(s)
    BY <1>1, SubSeqEmpty, TailIsSubSeq
  <2>3. Tail(s) \in Seq(S)
    BY <1>1, HeadTailProperties
  <2> QED
    BY <2>1, <2>2, <2>3, ConcatEmptySeq DEF RemoveAt
<1>6. /\ Tail(s) \in Seq(S)
      /\ Len(Tail(s)) = Len(s) - 1
      /\ Tail(s) = << >> <=> Len(s) = 1
  <2>1. Tail(s) \in Seq(S) /\ Len(Tail(s)) = Len(s) - 1
    BY <1>1, HeadTailProperties
  <2>2. Tail(s) # << >> => Len(Tail(s)) \in Nat \ {0}
    BY <2>1, EmptySeq
  <2>3. Tail(s) = << >> => Len(Tail(s)) = 0
    BY EmptySeq
  <2> QED
    BY <1>1, <2>1, <2>2, <2>3
<1>7. /\ d.items = Tail(s)
      /\ d.it = IF 1 = q.it /\ 1 = Len(s) THEN 0
                   ELSE IF 1 \in 1..(q.it - 1) THEN q.it - 1 ELSE q.it
      /\ d = [items |-> d.items, it |-> d.it]
  BY <1>4, <1>5 DEF QDel, QSize
<1>8. d.it \in Nat /\ d.it <= Len(d.items)
  BY <1>1, <1>6, <1>7
<1>9. d.it = IF q.it = 1 /\ d.items # << >> THEN 1 ELSE d.it
  BY <1>1, <1>6, <1>7
<1>10. q.it = 1 /\ d.items = << >> => d.it = 0
  BY <1>1, <1>6, <1>7
<1>11. d \in QueueOf(S)
  BY <1>6, <1>7, <1>8 DEF QueueOf
<1> QED
  BY <1>7, <1>9, <1>10, <1>11

(* Deleting what is not there changes nothing. *)
LEMMA QDelAbsent ==
  ASSUME NEW S, NEW q \in QueueOf(S), NEW x, x \notin ToSet(q.items)
  PROVE  QDel(q, x) = q
<1>1. q.items \in Seq(S) /\ q.it \in Nat /\ DOMAIN q.items = 1..Len(q.items)
  BY QueueType
<1>2. \A j \in 1..Len(q.items) : q.items[j] # x
  BY <1>1 DEF ToSet
<1>3. QPosition(q, x) = 0
  BY <1>2 DEF QPosition, SelectInSeq
<1>4. RemoveFirst(q.items, x) = q.items
  BY <1>2 DEF RemoveFirst
<1>5. (IF QPosition(q, x) = q.it /\ QPosition(q, x) = QSize(q) THEN 0
         ELSE IF QPosition(q, x) \in 1..(q.it - 1) THEN q.it - 1 ELSE q.it) = q.it
  BY <1>1, <1>3
<1> QED
  BY <1>4, <1>5, QueueType DEF QDel
=============================================================================
