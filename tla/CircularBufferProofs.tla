------------------------ MODULE CircularBufferProofs ------------------------
(***************************************************************************)
(* The circular buffer is a bounded FIFO, for any capacity and any items.  *)
(***************************************************************************)
EXTENDS CircularBuffer, SequenceTheorems, TLAPS

USE BufferAssumption
N == max_capacity

USE DEF TypeOK, Slots, N

(* The index arithmetic of the buffer, kept folded except where it meets the code. *)
Wrap(x) == x % N

(* Indices never exceed twice the capacity, so % subtracts it at most once. *)
LEMMA ModOnce ==
  ASSUME NEW x \in 0..(2 * N - 1)
  PROVE  /\ Wrap(x) = IF x < N THEN x ELSE x - N
         /\ Wrap(x) \in Slots
<1>1. CASE x < N
  BY <1>1 DEF Wrap
<1>2. CASE x >= N
  BY <1>2 DEF Wrap
<1> QED
  BY <1>1, <1>2

(* Offsets smaller than the capacity lead to different slots. *)
LEMMA SlotsDiffer ==
  ASSUME NEW s \in Slots, NEW i \in 0..(N - 1), NEW j \in 0..(N - 1), i # j
  PROVE  Wrap(s + i) # Wrap(s + j)
<1>1. s + i \in 0..(2 * N - 1) /\ s + j \in 0..(2 * N - 1)
  OBVIOUS
<1>2. /\ Wrap(s + i) = IF s + i < N THEN s + i ELSE s + i - N
      /\ Wrap(s + j) = IF s + j < N THEN s + j ELSE s + j - N
  BY <1>1, ModOnce
<1> QED
  BY <1>1, <1>2

(* One step on, then i more, is i + 1 steps on. *)
LEMMA StepOn ==
  ASSUME NEW s \in Slots, NEW i \in 0..(N - 1)
  PROVE  /\ Wrap(s + 1) \in Slots
         /\ Wrap(Wrap(s + 1) + i) = Wrap(s + (i + 1))
<1>1. s + 1 \in 0..(2 * N - 1) /\ s + (i + 1) \in 0..(2 * N - 1)
  OBVIOUS
<1>2. /\ Wrap(s + 1) = IF s + 1 < N THEN s + 1 ELSE 0
      /\ Wrap(s + 1) \in Slots
  BY <1>1, ModOnce
<1>3. Wrap(s + (i + 1)) = IF s + (i + 1) < N THEN s + (i + 1) ELSE s + (i + 1) - N
  BY <1>1, ModOnce
<1>4. Wrap(s + 1) + i \in 0..(2 * N - 1)
  BY <1>2
<1>5. Wrap(Wrap(s + 1) + i) =
         IF Wrap(s + 1) + i < N THEN Wrap(s + 1) + i ELSE Wrap(s + 1) + i - N
  BY <1>4, ModOnce
<1> QED
  BY <1>1, <1>2, <1>3, <1>5

(* No offset leads to the start. *)
LEMMA StepNone ==
  ASSUME NEW s \in Slots
  PROVE  Wrap(s + 0) = s
BY ModOnce

IInv == TypeOK /\ IndicesAgree

(* The stored items are a sequence, and these are its elements. *)
LEMMA ContentsType ==
  ASSUME NEW b \in [Slots -> Items], NEW s \in Slots, NEW n \in 0..N
  PROVE  /\ ContentsOf(b, s, n) \in Seq(Items)
         /\ Len(ContentsOf(b, s, n)) = n
         /\ \A i \in 1..n : ContentsOf(b, s, n)[i] = b[Wrap(s + (i - 1))]
<1>1. ASSUME NEW i \in 1..n
      PROVE  Wrap(s + (i - 1)) \in Slots
  <2>1. s + (i - 1) \in 0..(2 * N - 1)
    OBVIOUS
  <2> QED
    BY <2>1, ModOnce
<1>2. ContentsOf(b, s, n) \in [1..n -> Items]
  BY <1>1 DEF ContentsOf, Wrap
<1> QED
  BY <1>2 DEF ContentsOf, Wrap

(* The buffer starts empty. *)
LEMMA InitInv ==
  ASSUME Init
  PROVE  IInv /\ Fifo!Init
<1>1. IInv
  BY DEF Init, IInv, IndicesAgree, Wrap
<1>2. Contents \in Seq(Items) /\ Len(Contents) = 0
  BY <1>1, ContentsType DEF IInv, Init, Contents
<1>3. Contents = << >>
  BY <1>2, EmptySeq
<1> QED
  BY <1>1, <1>3 DEF Fifo!Init, Init

(* An add writes the slot after the last item and appends to the contents. *)
LEMMA AddStep ==
  ASSUME IInv, NEW x \in Items, Add(x)
  PROVE  IInv' /\ Fifo!Put(x)
<1> DEFINE p == Wrap(start + item_quant)
<1>0. item_quant \in 0..(N - 1) /\ start \in Slots /\ p \in Slots
  <2>1. item_quant \in 0..(N - 1)
    BY DEF IInv, Add, Wrap
  <2>2. start + item_quant \in 0..(2 * N - 1)
    BY <2>1 DEF IInv
  <2> QED
    BY <2>2, <2>1, ModOnce DEF IInv
<1>1. end' = p /\ buffer' = [buffer EXCEPT ![p] = x]
  <2>1. CASE item_quant = 0
    BY <2>1, StepNone DEF IInv, Add, IndicesAgree, Wrap
  <2>2. CASE item_quant # 0
    <3>1. end = Wrap(start + item_quant - 1)
      BY <2>2 DEF IInv, IndicesAgree, Wrap
    <3>2. start + (item_quant - 1) \in 0..(2 * N - 1) /\ start + item_quant \in 0..(2 * N - 1)
      BY <1>0, <2>2
    <3>3. /\ end = IF start + (item_quant - 1) < N THEN start + (item_quant - 1)
                   ELSE start + (item_quant - 1) - N
          /\ p = IF start + item_quant < N THEN start + item_quant
                 ELSE start + item_quant - N
      <4>1. start + item_quant - 1 = start + (item_quant - 1)
        BY <1>0
      <4>2. end = Wrap(start + (item_quant - 1))
        BY <3>1, <4>1
      <4>3. end = IF start + (item_quant - 1) < N THEN start + (item_quant - 1)
                  ELSE start + (item_quant - 1) - N
        BY <1>0, <2>2, <3>2, <4>2, ModOnce
      <4>4. p = IF start + item_quant < N THEN start + item_quant
                ELSE start + item_quant - N
        BY <1>0, <3>2, ModOnce
      <4> QED
        BY <4>3, <4>4
    <3>4. end \in Slots /\ end + 1 \in 0..(2 * N - 1)
      BY DEF IInv
    <3>5. Wrap(end + 1) = IF end + 1 < N THEN end + 1 ELSE end + 1 - N
      BY <3>4, ModOnce
    <3>6. Wrap(end + 1) = p
      BY <1>0, <3>3, <3>4, <3>5
    <3> QED
      BY <2>2, <3>6 DEF Add, Wrap
  <2> QED
    BY <2>1, <2>2
<1> HIDE DEF p
<1>2. TypeOK'
  BY <1>0, <1>1 DEF IInv, Add, Wrap
<1>3. IndicesAgree'
  BY <1>0, <1>1 DEF IInv, Add, IndicesAgree, Wrap, N, p
<1>4. /\ Contents \in Seq(Items) /\ Len(Contents) = item_quant
      /\ \A i \in 1..item_quant : Contents[i] = buffer[Wrap(start + (i - 1))]
  BY ContentsType DEF IInv, Contents
<1>5. /\ Contents' \in Seq(Items) /\ Len(Contents') = item_quant + 1
      /\ \A i \in 1..(item_quant + 1) : Contents'[i] = buffer'[Wrap(start + (i - 1))]
  <2>1. /\ Contents' \in Seq(Items)
        /\ Len(Contents') = item_quant'
        /\ \A i \in 1..item_quant' : Contents'[i] = buffer'[Wrap(start' + (i - 1))]
    BY <1>2, ContentsType DEF Contents
  <2> QED
    BY <2>1 DEF Add, Wrap
<1>6. ASSUME NEW i \in 1..(item_quant + 1)
      PROVE  Contents'[i] = Append(Contents, x)[i]
  <2>1. CASE i = item_quant + 1
    <3>1. Wrap(start + (i - 1)) = p
      BY <1>0, <2>1 DEF p
    <3>2. Contents'[i] = x
      BY <1>0, <1>1, <1>5, <3>1 DEF IInv
    <3> QED
      BY <1>4, <2>1, <3>2
  <2>2. CASE i # item_quant + 1
    <3>1. i - 1 \in 0..(N - 1) /\ i - 1 # item_quant /\ i \in 1..item_quant
      BY <1>0, <2>2
    <3>2. Wrap(start + (i - 1)) # p
      BY <1>0, <3>1, SlotsDiffer DEF p
    <3>3. Contents'[i] = Contents[i]
      <4>1. start + (i - 1) \in 0..(2 * N - 1)
        BY <1>0, <3>1
      <4>2. Wrap(start + (i - 1)) \in Slots
        BY <4>1, ModOnce
      <4>3. buffer'[Wrap(start + (i - 1))] = buffer[Wrap(start + (i - 1))]
        BY <1>1, <3>2, <4>2 DEF IInv
      <4> QED
        BY <1>4, <1>5, <3>1, <4>3
    <3> QED
      BY <1>4, <3>1, <3>3
  <2> QED
    BY <2>1, <2>2
<1>7. Contents' = Append(Contents, x)
  <2>1. Append(Contents, x) \in Seq(Items) /\ Len(Append(Contents, x)) = item_quant + 1
    BY <1>4
  <2> QED
    BY <1>5, <1>6, <2>1, SeqEqual
<1> QED
  BY <1>0, <1>2, <1>3, <1>4, <1>7 DEF IInv, Fifo!Put, Add, Wrap

(* A removal delivers the item at the start and takes it off the contents. *)
LEMMA RemoveStep ==
  ASSUME IInv, Remove
  PROVE  IInv' /\ Fifo!Get
<1>0. item_quant \in 1..N /\ start \in Slots
  BY DEF IInv, Remove, Wrap
<1>1. start' = IF item_quant > 1 THEN Wrap(start + 1) ELSE start
  BY DEF Remove, Wrap
<1>2. start' \in Slots
  BY <1>0, <1>1, StepOn
<1>3. TypeOK'
  BY <1>0, <1>2 DEF IInv, Remove, Wrap
<1>4. IndicesAgree'
  <2>1. end = Wrap(start + (item_quant - 1))
    <3>1. start + item_quant - 1 = start + (item_quant - 1)
      BY <1>0
    <3> QED
      BY <1>0, <3>1 DEF IInv, IndicesAgree, Wrap
  <2>2. CASE item_quant = 1
    BY <1>0, <1>1, <2>1, <2>2, StepNone DEF Remove, IndicesAgree, Wrap
  <2>3. CASE item_quant > 1
    <3>1. item_quant - 2 \in 0..(N - 1) /\ (item_quant - 2) + 1 = item_quant - 1
      BY <1>0, <2>3
    <3>2. Wrap(Wrap(start + 1) + (item_quant - 2)) = end
      <4>1. Wrap(Wrap(start + 1) + (item_quant - 2))
              = Wrap(start + ((item_quant - 2) + 1))
        BY <1>0, <3>1, StepOn
      <4> QED
        BY <2>1, <3>1, <4>1
    <3>3. start' + item_quant' - 1 = Wrap(start + 1) + (item_quant - 2)
      BY <1>0, <1>1, <1>2, <2>3 DEF Remove, Wrap
    <3> QED
      BY <2>3, <3>2, <3>3 DEF Remove, IndicesAgree, Wrap
  <2> QED
    BY <1>0, <2>2, <2>3
<1>5. /\ Contents \in Seq(Items) /\ Len(Contents) = item_quant
      /\ \A i \in 1..item_quant : Contents[i] = buffer[Wrap(start + (i - 1))]
  BY ContentsType DEF IInv, Contents
<1>6. /\ Contents' \in Seq(Items) /\ Len(Contents') = item_quant - 1
      /\ \A i \in 1..(item_quant - 1) : Contents'[i] = buffer[Wrap(start' + (i - 1))]
  <2>1. /\ Contents' \in Seq(Items)
        /\ Len(Contents') = item_quant'
        /\ \A i \in 1..item_quant' : Contents'[i] = buffer'[Wrap(start' + (i - 1))]
    BY <1>3, ContentsType DEF Contents
  <2> QED
    BY <2>1 DEF Remove, Wrap
<1>7. ASSUME NEW i \in 1..(item_quant - 1)
      PROVE  Contents'[i] = Contents[i + 1]
  <2>1. item_quant > 1 /\ i - 1 \in 0..(N - 1) /\ (i - 1) + 1 = (i + 1) - 1
        /\ i + 1 \in 1..item_quant
    BY <1>0
  <2>2. Wrap(start' + (i - 1)) = Wrap(start + ((i + 1) - 1))
    BY <1>0, <1>1, <2>1, StepOn
  <2> QED
    BY <1>5, <1>6, <2>1, <2>2
<1>8. Contents # << >> /\ dest' = Head(Contents)
  <2>1. Contents[1] = buffer[start]
    BY <1>0, <1>5, StepNone
  <2> QED
    BY <1>0, <1>5, <2>1 DEF Remove, Wrap
<1>9. Contents' = Tail(Contents)
  <2>1. /\ Tail(Contents) \in Seq(Items)
        /\ Len(Tail(Contents)) = item_quant - 1
        /\ \A i \in 1..(item_quant - 1) : Tail(Contents)[i] = Contents[i + 1]
    BY <1>0, <1>5, <1>8
  <2> QED
    BY <1>6, <1>7, <2>1, SeqEqual
<1> QED
  BY <1>3, <1>4, <1>8, <1>9 DEF IInv, Fifo!Get

(* The types and the agreement of the indices are inductive. *)
LEMMA InvHolds == Spec => []IInv
<1>1. Init => IInv
  BY InitInv
<1>2. IInv /\ [Next]_vars => IInv'
  <2>1. ASSUME IInv, UNCHANGED vars
        PROVE  IInv'
    BY <2>1 DEF IInv, vars, IndicesAgree, Wrap
  <2> QED
    BY <2>1, AddStep, RemoveStep DEF Next
<1> QED
  BY <1>1, <1>2, PTL DEF Spec

(* Every variable keeps its type: no index leaves the buffer. *)
THEOREM TypeCorrect == Spec => []TypeOK
<1>1. IInv => TypeOK
  BY DEF IInv
<1> QED
  BY <1>1, InvHolds, PTL

(* The last slot is where the number of items says, whatever was added and *)
(* removed before.                                                         *)
THEOREM IndicesAlwaysAgree == Spec => []IndicesAgree
<1>1. IInv => IndicesAgree
  BY DEF IInv
<1> QED
  BY <1>1, InvHolds, PTL

(* The circular buffer implements the bounded FIFO. *)
THEOREM BufferIsFifo == Spec => Refines
<1>1. Init => Fifo!Init
  BY InitInv
<1>2. IInv /\ [Next]_vars => [Fifo!Next]_(Fifo!vars)
  <2>1. ASSUME UNCHANGED vars
        PROVE  UNCHANGED Fifo!vars
    BY <2>1 DEF vars, Fifo!vars, Contents
  <2> QED
    BY <2>1, AddStep, RemoveStep DEF Next, Fifo!Next
<1> QED
  BY <1>1, <1>2, InvHolds, PTL DEF Spec, Refines, Fifo!Spec
=============================================================================
