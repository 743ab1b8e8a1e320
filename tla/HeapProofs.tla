----------------------------- MODULE HeapProofs -----------------------------
(***************************************************************************)
(* The heap keeps its list of blocks sound, for every size of the heap and *)
(* every sequence of calls, until one of the two mistakes breaks it: no    *)
(* two owners share a byte, every block handed out can be freed, mem_avail *)
(* counts the free bytes, and freed blocks come together again unless one  *)
(* of them was freed through a prev that a split had left behind.          *)
(***************************************************************************)
EXTENDS Heap, FiniteSetTheorems, TLAPS

QP == INSTANCE QueueProofs

Headers == [Addresses -> [size : 0..(UIntRange - 1), is_used : BOOLEAN,
                          next : Pointers, prev : Pointers]]

(***************************************************************************)
(* Sums over sets.                                                         *)
(***************************************************************************)

(* F adds up the weights w, one element at a time, over the subsets of S. *)
Additive(F, S, w) ==
  /\ F \in [SUBSET S -> Nat] /\ F[{}] = 0
  /\ \A T \in SUBSET S : \A x \in T : F[T] = w[x] + F[T \ {x}]

LEMMA SumExists ==
  ASSUME NEW S, NEW N \in Nat, S \subseteq 0..(N - 1), NEW w \in [S -> Nat]
  PROVE  \E F : Additive(F, S, w)
<1> DEFINE Low(n) == {a \in S : a < n}
           V == {n \in Nat : \E F : Additive(F, Low(n), w)}
<1>0. \A a \in S : a \in Nat /\ a < N
  OBVIOUS
<1>1. 0 \in V
  <2>1. Low(0) = {}
    <3>1. \A a \in S : ~ (a < 0)
      BY <1>0
    <3> QED
      BY <3>1
  <2>2. Additive([T \in SUBSET {} |-> 0], {}, w)
    BY DEF Additive
  <2> QED
    BY <2>1, <2>2
<1>2. \A n \in Nat : n \in V => n + 1 \in V
  <2> SUFFICES ASSUME NEW n \in Nat, n \in V
               PROVE  n + 1 \in V
    OBVIOUS
  <2> PICK F : Additive(F, Low(n), w)
    OBVIOUS
  <2> HIDE DEF V
  <2> DEFINE here == IF n \in S THEN w[n] ELSE 0
             G == [T \in SUBSET Low(n + 1) |->
                     F[T \ {n}] + (IF n \in T THEN here ELSE 0)]
  <2>1. here \in Nat
    OBVIOUS
  <2>2. \A T \in SUBSET Low(n + 1) : T \ {n} \in SUBSET Low(n)
    BY <1>0
  <2> HIDE DEF here
  <2>3. G \in [SUBSET Low(n + 1) -> Nat] /\ G[{}] = 0
    <3>1. \A T \in SUBSET Low(n + 1) : F[T \ {n}] \in Nat
      BY <2>2 DEF Additive
    <3>2. {} \ {n} = {} /\ {} \in SUBSET Low(n + 1)
      OBVIOUS
    <3>3. G[{}] = F[{}] + 0
      BY <3>2
    <3>4. ASSUME NEW T \in SUBSET Low(n + 1)
          PROVE  F[T \ {n}] + (IF n \in T THEN here ELSE 0) \in Nat
      <4>1. F[T \ {n}] \in Nat
        BY <3>1
      <4> QED
        BY <2>1, <4>1
    <3>5. G \in [SUBSET Low(n + 1) -> Nat]
      BY <3>4
    <3> HIDE DEF G
    <3> QED
      BY <3>3, <3>5 DEF Additive
  <2>4. ASSUME NEW T \in SUBSET Low(n + 1), NEW x \in T
        PROVE  G[T] = w[x] + G[T \ {x}]
    <3>1. T \ {x} \in SUBSET Low(n + 1) /\ x \in S
      OBVIOUS
    <3>2. CASE x = n
      <4>1. (T \ {x}) \ {n} = T \ {n} /\ n \notin T \ {x}
        BY <3>2
      <4>2. G[T \ {x}] = F[T \ {n}] + 0
        BY <3>1, <4>1
      <4>3. G[T] = F[T \ {n}] + w[x]
        BY <3>1, <3>2 DEF here
      <4>4. F[T \ {n}] \in Nat /\ w[x] \in Nat
        BY <2>2, <3>1 DEF Additive
      <4> QED
        BY <4>2, <4>3, <4>4
    <3>3. CASE x # n
      <4>1. /\ (T \ {x}) \ {n} = (T \ {n}) \ {x} /\ x \in T \ {n}
            /\ (n \in T \ {x}) = (n \in T)
        BY <3>3
      <4>2. F[T \ {n}] = w[x] + F[(T \ {n}) \ {x}]
        BY <2>2, <4>1 DEF Additive
      <4>3. F[(T \ {n}) \ {x}] \in Nat /\ w[x] \in Nat
        BY <2>2, <3>1, <4>1 DEF Additive
      <4>4. G[T] = F[T \ {n}] + (IF n \in T THEN here ELSE 0)
        OBVIOUS
      <4>5. G[T \ {x}] = F[(T \ {n}) \ {x}] + (IF n \in T THEN here ELSE 0)
        BY <3>1, <4>1
      <4> HIDE DEF G
      <4> QED
        BY <2>1, <4>2, <4>3, <4>4, <4>5
    <3> QED
      BY <3>2, <3>3
  <2> HIDE DEF G
  <2>5. Additive(G, Low(n + 1), w)
    BY <2>3, <2>4 DEF Additive
  <2> QED
    BY <2>5 DEF V
<1> HIDE DEF V
<1>3. N \in V
  BY <1>1, <1>2, QP!NatInductive
<1>4. Low(N) = S
  BY <1>0
<1> QED
  BY <1>3, <1>4 DEF V

LEMMA SumFolds ==
  ASSUME NEW h, NEW T, IsFiniteSet(T), NEW w, NEW F, Additive(F, T, w),
         \A x \in T : w[x] = h[x].size
  PROVE  Bytes(h, T) = F[T]
<1> DEFINE first(s) == CHOOSE x \in s : TRUE
           folds(f) == f = [s \in SUBSET T |->
                              IF s = {} THEN 0
                              ELSE h[first(s)].size + f[s \ {first(s)}]]
<1>1. Bytes(h, T) = (CHOOSE f : folds(f))[T]
  BY DEF Bytes, MapThenSumSet, MapThenFoldSet
<1>2. \A s \in SUBSET T : s # {} => first(s) \in s
  OBVIOUS
<1> HIDE DEF first
<1>3. folds(F)
  <2>1. ASSUME NEW s \in SUBSET T
        PROVE  F[s] = IF s = {} THEN 0 ELSE h[first(s)].size + F[s \ {first(s)}]
    BY <1>2 DEF Additive
  <2>2. F = [s \in SUBSET T |-> F[s]]
    BY DEF Additive
  <2> QED
    BY <2>1, <2>2
<1>4. ASSUME NEW f, folds(f)
      PROVE  f[T] = F[T]
  <2> DEFINE V == {n \in Nat : \A s \in SUBSET T : Cardinality(s) = n => f[s] = F[s]}
  <2>0. \A s \in SUBSET T : f[s] = IF s = {} THEN 0
                                   ELSE h[first(s)].size + f[s \ {first(s)}]
    BY <1>4
  <2> HIDE DEF folds
  <2>1. 0 \in V
    <3>1. ASSUME NEW s \in SUBSET T, Cardinality(s) = 0
          PROVE  f[s] = F[s]
      <4>1. s = {}
        BY <3>1, FS_Subset, FS_EmptySet
      <4> QED
        BY <2>0, <4>1 DEF Additive
    <3> QED
      BY <3>1
  <2>2. \A n \in Nat : n \in V => n + 1 \in V
    <3> SUFFICES ASSUME NEW n \in Nat, n \in V, NEW s \in SUBSET T,
                        Cardinality(s) = n + 1
                 PROVE  f[s] = F[s]
      OBVIOUS
    <3>1. IsFiniteSet(s)
      BY FS_Subset
    <3>2. s # {}
      <4>1. Cardinality(s) # 0
        OBVIOUS
      <4> QED
        BY <4>1, FS_EmptySet
    <3>3. /\ first(s) \in s /\ s \ {first(s)} \in SUBSET T
          /\ Cardinality(s \ {first(s)}) = n
      <4>1. first(s) \in s
        BY <1>2, <3>2
      <4>2. Cardinality(s \ {first(s)}) = (n + 1) - 1
        BY <3>1, <4>1, FS_RemoveElement
      <4> QED
        BY <4>1, <4>2
    <3>4. f[s \ {first(s)}] = F[s \ {first(s)}]
      BY <3>3
    <3>5. F[s] = w[first(s)] + F[s \ {first(s)}] /\ w[first(s)] = h[first(s)].size
      BY <3>3 DEF Additive
    <3> QED
      BY <2>0, <3>2, <3>4, <3>5
  <2> HIDE DEF V
  <2>3. Cardinality(T) \in V
    BY <2>1, <2>2, QP!NatInductive, FS_CardinalityType
  <2> QED
    BY <2>3 DEF V
<1> HIDE DEF folds
<1> QED
  BY <1>1, <1>3, <1>4

(* The sums of the sizes of sets of blocks. *)
LEMMA BytesFacts ==
  ASSUME NEW h \in Headers, NEW T \in SUBSET Addresses
  PROVE  /\ Bytes(h, T) \in Nat
         /\ T = {} => Bytes(h, T) = 0
         /\ \A x \in T : Bytes(h, T) = h[x].size + Bytes(h, T \ {x})
         /\ \A g \in Headers :
              (\A x \in T : g[x].size = h[x].size) => Bytes(g, T) = Bytes(h, T)
<1> DEFINE w == [a \in T |-> h[a].size]
<1>0. /\ HEAP_SIZE \in Nat /\ HEAP_SIZE + 1 \in Nat
      /\ T \subseteq 0..HEAP_SIZE /\ T \subseteq 0..((HEAP_SIZE + 1) - 1)
  BY HeapAssumption DEF Addresses
<1>1. IsFiniteSet(T)
  <2>1. 0 \in Int /\ HEAP_SIZE \in Int
    BY <1>0
  <2>2. IsFiniteSet(0..HEAP_SIZE)
    BY <2>1, FS_Interval
  <2> QED
    BY <1>0, <2>2, FS_Subset
<1>2. w \in [T -> Nat]
  BY HeapAssumption DEF Headers
<1>3. \A x \in T : w[x] = h[x].size
  OBVIOUS
<1> HIDE DEF w
<1>4. PICK F : Additive(F, T, w)
  BY <1>0, <1>2, SumExists
<1>5. Bytes(h, T) = F[T]
  BY <1>1, <1>3, <1>4, SumFolds
<1>6. ASSUME NEW x \in T
      PROVE  Bytes(h, T) = h[x].size + Bytes(h, T \ {x})
  <2> DEFINE R == T \ {x}
             G == [s \in SUBSET R |-> F[s]]
  <2>1. Additive(G, R, w)
    <3>1. G \in [SUBSET R -> Nat] /\ G[{}] = 0
      BY <1>4 DEF Additive
    <3>2. ASSUME NEW s \in SUBSET R, NEW y \in s
          PROVE  G[s] = w[y] + G[s \ {y}]
      BY <1>4 DEF Additive
    <3> QED
      BY <3>1, <3>2 DEF Additive
  <2>2. IsFiniteSet(R) /\ \A y \in R : w[y] = h[y].size
    BY <1>1, <1>3, FS_Subset
  <2>3. Bytes(h, R) = G[R]
    BY <2>1, <2>2, SumFolds
  <2>4. F[T] = w[x] + F[R]
    BY <1>4 DEF Additive
  <2> QED
    BY <1>3, <1>5, <2>3, <2>4
<1>7. ASSUME NEW g \in Headers, \A x \in T : g[x].size = h[x].size
      PROVE  Bytes(g, T) = Bytes(h, T)
  <2>1. Bytes(g, T) = F[T]
    BY <1>1, <1>3, <1>4, <1>7, SumFolds
  <2> QED
    BY <1>5, <2>1
<1>8. F[T] \in Nat /\ (T = {} => F[T] = 0)
  BY <1>4 DEF Additive
<1> QED
  BY <1>5, <1>6, <1>7, <1>8

(***************************************************************************)
(* The list of blocks.                                                     *)
(***************************************************************************)

LEMMA HeapFacts ==
  /\ HEAP_SIZE \in Nat /\ HEAP_SIZE >= 48 /\ HEAP_SIZE % 16 = 0
  /\ UIntRange \in Nat /\ UIntRange > HEAP_SIZE
  /\ NULL \notin Nat
  /\ MaxBlocks \in Nat /\ HEAP_SIZE < 48 * (MaxBlocks + 1)
  /\ 0 \in Addresses /\ Addresses \subseteq Nat /\ NULL \notin Addresses
<1>1. /\ HEAP_SIZE \in Nat /\ HEAP_SIZE >= 48 /\ HEAP_SIZE % 16 = 0
      /\ UIntRange \in Nat /\ UIntRange > HEAP_SIZE /\ NULL \notin Nat
  BY HeapAssumption DEF Header, Align
<1>2. MaxBlocks \in Nat /\ HEAP_SIZE < 48 * (MaxBlocks + 1)
  BY <1>1 DEF MaxBlocks, Header, Align
<1>3. 0 \in Addresses /\ Addresses \subseteq Nat /\ NULL \notin Addresses
  BY <1>1 DEF Addresses, Align
<1> QED
  BY <1>1, <1>2, <1>3

(* Where a block of a sound list lies, and what is around it. *)
LEMMA BlockFacts ==
  ASSUME NEW h \in Headers, NEW B, Sound(h, B), NEW b \in B
  PROVE  /\ b \in Addresses /\ b \in Nat /\ b < HEAP_SIZE /\ b % 16 = 0 /\ b # NULL
         /\ h[b].size \in Nat /\ h[b].size >= 16 /\ h[b].size % 16 = 0
         /\ End(h, b) = b + 32 + h[b].size /\ End(h, b) \in Nat
         /\ End(h, b) <= HEAP_SIZE
         /\ \A c \in B : c \in Nat /\ (b < c => End(h, b) <= c)
<1>1. b \in Addresses /\ b \in Nat /\ b < HEAP_SIZE /\ b % 16 = 0 /\ b # NULL
  BY HeapFacts DEF Sound, Addresses, Align
<1>2. h[b].size \in Nat /\ h[b].size >= 16 /\ h[b].size % 16 = 0
  <2>1. h[b].size \in 0..(UIntRange - 1)
    BY <1>1 DEF Headers
  <2> QED
    BY <2>1, HeapFacts DEF Sound, Align
<1>3. End(h, b) = b + 32 + h[b].size /\ End(h, b) \in Nat
  BY <1>1, <1>2 DEF End, Header
<1>4. \A c \in B : c \in Nat /\ c < HEAP_SIZE /\ (b < c => End(h, b) <= c)
  BY HeapFacts DEF Sound, Addresses
<1>5. End(h, b) = HEAP_SIZE \/ End(h, b) \in B
  BY DEF Sound
<1> QED
  BY <1>1, <1>2, <1>3, <1>4, <1>5, HeapFacts

LEMMA NextFacts ==
  ASSUME NEW h \in Headers, NEW B, Sound(h, B), NEW b \in B
  PROVE  \/ /\ End(h, b) = HEAP_SIZE /\ End(h, b) \notin B /\ h[b].next = NULL
            /\ \A c \in B : c <= b
         \/ /\ End(h, b) < HEAP_SIZE /\ End(h, b) \in B
            /\ h[b].next = End(h, b) /\ h[b].next # NULL /\ b < End(h, b)
<1>1. CASE End(h, b) = HEAP_SIZE
  <2>1. h[b].next = NULL
    BY <1>1 DEF Sound
  <2>2. \A c \in B : c \in Nat /\ c < HEAP_SIZE /\ (b < c => HEAP_SIZE <= c) /\ b \in Nat
    BY <1>1, BlockFacts
  <2>3. \A c \in B : c <= b
    BY <2>2, HeapFacts
  <2> QED
    BY <1>1, <2>1, <2>2, <2>3, HeapFacts
<1>2. CASE End(h, b) # HEAP_SIZE
  <2>1. End(h, b) \in B /\ h[b].next = End(h, b)
    BY <1>2 DEF Sound
  <2>2. End(h, b) # NULL /\ End(h, b) < HEAP_SIZE
    BY <2>1, BlockFacts
  <2>3. b < End(h, b)
    BY BlockFacts
  <2> QED
    BY <2>1, <2>2, <2>3
<1> QED
  BY <1>1, <1>2

LEMMA PrevFacts ==
  ASSUME NEW h \in Headers, NEW B, Sound(h, B), NEW b \in B, b # 0
  PROVE  \E a \in B : /\ a \in Nat /\ a # NULL /\ a < b
                      /\ End(h, a) = b /\ h[a].next = b
                      /\ \A c \in B : c < b => c <= a
                      /\ \A c \in B : End(h, c) = b => c = a
<1>1. PICK a \in B : End(h, a) = b
  BY DEF Sound
<1>2. a # NULL /\ a < b /\ a \in Nat /\ b \in Nat
  BY <1>1, BlockFacts
<1>3. h[a].next = b
  <2>1. b < HEAP_SIZE
    BY BlockFacts
  <2> QED
    BY <1>1, <2>1, NextFacts
<1>4. ASSUME NEW c \in B, c < b
      PROVE  c <= a
  <2>1. c \in Nat /\ (a < c => End(h, a) <= c)
    BY BlockFacts
  <2> QED
    BY <1>1, <1>2, <1>4, <2>1
<1>5. ASSUME NEW c \in B, End(h, c) = b
      PROVE  c = a
  <2>1. c \in Nat /\ c < b /\ (c < a => End(h, c) <= a)
    BY <1>5, BlockFacts
  <2> QED
    BY <1>2, <1>4, <1>5, <2>1
<1> QED
  BY <1>1, <1>2, <1>3, <1>4, <1>5

(* Chain and Listed, of any headers. *)
ChainOf(h) ==
  LET c[k \in 0..MaxBlocks] ==
        IF k = 0 THEN 0 ELSE IF c[k - 1] = NULL THEN NULL ELSE h[c[k - 1]].next
  IN  c

ListedOf(h) == {ChainOf(h)[k] : k \in 0..MaxBlocks} \ {NULL}

LEMMA ListedFacts == Listed = ListedOf(headers) /\ Listed' = ListedOf(headers')
BY DEF Listed, Chain, ListedOf, ChainOf

(* The recursive function that Chain is exists. *)
LEMMA ChainFacts ==
  ASSUME NEW h
  PROVE  /\ ChainOf(h)[0] = 0
         /\ \A k \in 1..MaxBlocks :
              ChainOf(h)[k] = IF ChainOf(h)[k - 1] = NULL THEN NULL
                              ELSE h[ChainOf(h)[k - 1]].next
<1> DEFINE after(x) == IF x = NULL THEN NULL ELSE h[x].next
           follows(c, n) == c = [k \in 0..n |-> IF k = 0 THEN 0 ELSE after(c[k - 1])]
           V == {n \in Nat : \E c : follows(c, n)}
<1>1. MaxBlocks \in Nat
  BY HeapFacts
<1>2. ChainOf(h) = CHOOSE c : follows(c, MaxBlocks)
  BY DEF ChainOf
<1> HIDE DEF after
<1>3. 0 \in V
  <2> DEFINE d == [k \in 0..0 |-> 0]
  <2>1. follows(d, 0)
    <3>1. \A k \in 0..0 : k = 0
      OBVIOUS
    <3> QED
      BY <3>1
  <2> QED
    BY <2>1
<1>4. \A n \in Nat : n \in V => n + 1 \in V
  <2> SUFFICES ASSUME NEW n \in Nat, n \in V
               PROVE  n + 1 \in V
    OBVIOUS
  <2> PICK c : follows(c, n)
    OBVIOUS
  <2> HIDE DEF V
  <2> DEFINE d == [k \in 0..(n + 1) |-> IF k <= n THEN c[k] ELSE after(c[n])]
  <2>1. \A k \in 0..n : d[k] = c[k]
    OBVIOUS
  <2>2. ASSUME NEW k \in 0..(n + 1)
        PROVE  d[k] = IF k = 0 THEN 0 ELSE after(d[k - 1])
    <3>1. CASE k <= n
      <4>1. k \in 0..n /\ (k # 0 => k - 1 \in 0..n)
        BY <3>1
      <4>2. c[k] = IF k = 0 THEN 0 ELSE after(c[k - 1])
        BY <4>1
      <4> HIDE DEF d
      <4> QED
        BY <2>1, <4>1, <4>2
    <3>2. CASE k = n + 1
      <4>1. n \in 0..n /\ k - 1 = n /\ k # 0 /\ ~ (k <= n)
        BY <3>2
      <4>2. d[k] = after(c[n])
        BY <4>1
      <4> HIDE DEF d
      <4> QED
        BY <2>1, <4>1, <4>2
    <3> QED
      BY <3>1, <3>2
  <2>3. d = [k \in 0..(n + 1) |-> d[k]]
    OBVIOUS
  <2> HIDE DEF d
  <2>4. follows(d, n + 1)
    BY <2>2, <2>3
  <2> QED
    BY <2>4 DEF V
<1> HIDE DEF V
<1>5. MaxBlocks \in V
  BY <1>1, <1>3, <1>4, QP!NatInductive
<1>6. PICK d : follows(d, MaxBlocks)
  BY <1>5 DEF V
<1>7. follows(ChainOf(h), MaxBlocks)
  <2> HIDE DEF follows
  <2> QED
    BY <1>2, <1>6
<1>8. \A k \in 0..MaxBlocks :
        ChainOf(h)[k] = IF k = 0 THEN 0 ELSE after(ChainOf(h)[k - 1])
  BY <1>7
<1> HIDE DEF follows
<1> QED
  BY <1>1, <1>8 DEF after

(* In a sound list the chain of headers leads to every block, within the   *)
(* bound that Chain sets itself, and to nothing else.                      *)
LEMMA SoundIsListed ==
  ASSUME NEW h \in Headers, NEW B, Sound(h, B)
  PROVE  ListedOf(h) = B
<1> DEFINE c == ChainOf(h)
<1>0. MaxBlocks \in Nat /\ 0 \in B /\ 0 # NULL
  BY HeapFacts DEF Sound
<1>1. c[0] = 0 /\ \A k \in 1..MaxBlocks :
                    c[k] = IF c[k - 1] = NULL THEN NULL ELSE h[c[k - 1]].next
  BY ChainFacts
<1>2. ListedOf(h) = {c[k] : k \in 0..MaxBlocks} \ {NULL}
  BY DEF ListedOf
<1> HIDE DEF c
<1>3. \A k \in 0..MaxBlocks : c[k] = NULL \/ (c[k] \in B /\ c[k] >= 48 * k)
  <2> DEFINE V == {k \in Nat : k <= MaxBlocks =>
                                 c[k] = NULL \/ (c[k] \in B /\ c[k] >= 48 * k)}
  <2>1. 0 \in V
    BY <1>0, <1>1
  <2>2. \A k \in Nat : k \in V => k + 1 \in V
    <3> SUFFICES ASSUME NEW k \in Nat, k \in V, k + 1 <= MaxBlocks
                 PROVE  c[k + 1] = NULL \/ (c[k + 1] \in B /\ c[k + 1] >= 48 * (k + 1))
      OBVIOUS
    <3>1. c[k] = NULL \/ (c[k] \in B /\ c[k] >= 48 * k)
      BY <1>0
    <3>2. c[k + 1] = IF c[k] = NULL THEN NULL ELSE h[c[k]].next
      <4>1. k + 1 \in 1..MaxBlocks /\ (k + 1) - 1 = k
        BY <1>0
      <4> QED
        BY <1>1, <4>1
    <3>3. CASE c[k] # NULL
      <4>1. PICK a \in B : a = c[k] /\ a >= 48 * k /\ c[k + 1] = h[a].next
        BY <3>1, <3>2, <3>3
      <4>2. /\ a \in Nat /\ h[a].size \in Nat /\ h[a].size >= 16
            /\ End(h, a) = a + 32 + h[a].size
        BY BlockFacts
      <4>3. h[a].next = NULL \/ (h[a].next = End(h, a) /\ End(h, a) \in B)
        BY NextFacts
      <4>4. a + 32 + h[a].size >= 48 * (k + 1)
        BY <4>1, <4>2
      <4> QED
        BY <4>1, <4>2, <4>3, <4>4
    <3>4. CASE c[k] = NULL
      BY <3>2, <3>4
    <3> QED
      BY <3>3, <3>4
  <2> HIDE DEF V
  <2>3. Nat \subseteq V
    BY <2>1, <2>2, QP!NatInductive
  <2> QED
    BY <1>0, <2>3 DEF V
<1>4. \A b \in B : \E k \in 0..MaxBlocks : c[k] = b
  <2> DEFINE Missed == {b \in B : \A k \in 0..MaxBlocks : c[k] # b}
  <2> SUFFICES ASSUME Missed # {}
               PROVE  FALSE
    OBVIOUS
  <2>1. Missed \subseteq Nat
    BY BlockFacts
  <2>2. PICK b \in Missed : \A m \in Missed : b <= m
    <3> HIDE DEF Missed
    <3> QED
      BY <2>1, QP!NatMinimum
  <2>3. b \in B /\ b # 0
    BY <1>0, <1>1
  <2>4. PICK a \in B : a \in Nat /\ a # NULL /\ a < b /\ End(h, a) = b /\ h[a].next = b
    BY <2>3, PrevFacts
  <2>5. b \in Nat
    BY <2>3, BlockFacts
  <2>6. PICK k \in 0..MaxBlocks : c[k] = a
    BY <2>2, <2>4, <2>5
  <2>7. k + 1 \in 1..MaxBlocks
    <3>1. a >= 48 * k
      BY <1>3, <2>4, <2>6
    <3>2. b >= a + 48 /\ b + 48 <= HEAP_SIZE
      <4>1. /\ End(h, b) = b + 32 + h[b].size /\ h[b].size >= 16 /\ h[b].size \in Nat
            /\ End(h, b) <= HEAP_SIZE
        BY <2>3, BlockFacts
      <4>2. End(h, a) = a + 32 + h[a].size /\ h[a].size >= 16 /\ h[a].size \in Nat
        BY <2>4, BlockFacts
      <4>3. b >= a + 48
        BY <2>4, <4>2
      <4>4. b + 48 <= HEAP_SIZE
        BY <2>5, <4>1, HeapFacts
      <4> QED
        BY <4>3, <4>4
    <3>3. HEAP_SIZE < 48 * (MaxBlocks + 1)
      BY HeapFacts
    <3> QED
      BY <1>0, <2>4, <2>5, <3>1, <3>2, <3>3, HeapFacts
  <2>8. c[k + 1] = b
    <3>1. (k + 1) - 1 = k
      BY <1>0
    <3> QED
      BY <1>1, <2>4, <2>6, <2>7, <3>1
  <2>9. k + 1 \in 0..MaxBlocks
    BY <1>0, <2>7
  <2> QED
    BY <2>2, <2>8, <2>9
<1>5. NULL \notin B
  BY BlockFacts
<1> QED
  BY <1>2, <1>3, <1>4, <1>5

(***************************************************************************)
(* Merging two neighbours.                                                 *)
(***************************************************************************)

LEMMA MergeFields ==
  ASSUME NEW h \in Headers, NEW B, Sound(h, B), NEW a \in B, NEW c \in B, End(h, a) = c
  PROVE  /\ Merge(h, a, c) \in Headers
         /\ \A d \in Addresses :
              /\ Merge(h, a, c)[d].is_used = h[d].is_used
              /\ Merge(h, a, c)[d].size =
                   IF d = a THEN h[a].size + 32 + h[c].size ELSE h[d].size
              /\ Merge(h, a, c)[d].next = IF d = a THEN h[c].next ELSE h[d].next
              /\ Merge(h, a, c)[d].prev = IF d = h[c].next THEN a ELSE h[d].prev
<1> DEFINE e == h[c].next
           n == h[a].size + 32 + h[c].size
           m == [h EXCEPT ![a].size = n, ![a].next = e]
<1>1. /\ a \in Addresses /\ c \in Addresses /\ h[a].size \in Nat /\ h[c].size \in Nat
      /\ c = a + 32 + h[a].size /\ End(h, c) = c + 32 + h[c].size
      /\ End(h, c) <= HEAP_SIZE /\ a \in Nat /\ c \in Nat /\ a # NULL /\ c # NULL
  BY BlockFacts
<1>2. n \in Nat /\ n < UIntRange /\ n % UIntRange = n
  <2>1. n \in Nat /\ n < HEAP_SIZE
    BY <1>1, HeapFacts
  <2> QED
    BY <2>1, HeapFacts
<1>3. e = NULL \/ (e \in Addresses /\ e # a /\ e # c)
  <2>1. e = NULL \/ (e \in B /\ c < e)
    BY NextFacts
  <2>2. e \in B => e \in Addresses /\ e \in Nat
    BY BlockFacts
  <2>3. a < c
    BY <1>1
  <2> QED
    BY <1>1, <2>1, <2>2, <2>3
<1>4. Merge(h, a, c) = IF e = NULL THEN m ELSE [m EXCEPT ![e].prev = a]
  <2> DEFINE sum == (h[a].size + Header + h[c].size) % UIntRange
             k == [h EXCEPT ![a].size = sum, ![a].next = e]
  <2>1. Merge(h, a, c) = IF e = NULL THEN k ELSE [k EXCEPT ![e].prev = a]
    BY DEF Merge
  <2>2. sum = n
    BY <1>2 DEF Header
  <2>3. k = m
    <3> HIDE DEF sum, n, e
    <3> QED
      BY <2>2
  <2> HIDE DEF k, m
  <2> QED
    BY <2>1, <2>3
<1> HIDE DEF n
<1>5. e \in Pointers /\ a \in Pointers
  BY <1>1, <1>3 DEF Pointers
<1> HIDE DEF e
<1>6. h \in [Addresses -> [size : 0..(UIntRange - 1), is_used : BOOLEAN,
                           next : Pointers, prev : Pointers]]
  BY DEF Headers
<1>7. n \in 0..(UIntRange - 1)
  BY <1>2, HeapFacts
<1>8. /\ m \in Headers
      /\ \A d \in Addresses : /\ m[d].is_used = h[d].is_used
                              /\ m[d].size = IF d = a THEN n ELSE h[d].size
                              /\ m[d].next = IF d = a THEN e ELSE h[d].next
                              /\ m[d].prev = h[d].prev
  <2>1. m \in Headers
    BY <1>1, <1>5, <1>6, <1>7 DEF Headers
  <2>2. ASSUME NEW d \in Addresses
        PROVE  /\ m[d].is_used = h[d].is_used
               /\ m[d].size = IF d = a THEN n ELSE h[d].size
               /\ m[d].next = IF d = a THEN e ELSE h[d].next
               /\ m[d].prev = h[d].prev
    BY <1>1, <1>6
  <2> QED
    BY <2>1, <2>2
<1> HIDE DEF m
<1>9. CASE e = NULL
  <2>1. \A d \in Addresses : d # e
    BY <1>9, HeapFacts
  <2> QED
    BY <1>4, <1>8, <1>9, <2>1 DEF n, e
<1>10. CASE e # NULL
  <2> DEFINE g == [m EXCEPT ![e].prev = a]
  <2>1. Merge(h, a, c) = g /\ e \in Addresses
    BY <1>3, <1>4, <1>10
  <2>2. m \in [Addresses -> [size : 0..(UIntRange - 1), is_used : BOOLEAN,
                             next : Pointers, prev : Pointers]]
    BY <1>8 DEF Headers
  <2>3. g \in Headers
    BY <1>5, <2>1, <2>2 DEF Headers
  <2>4. ASSUME NEW d \in Addresses
        PROVE  /\ g[d].is_used = m[d].is_used /\ g[d].size = m[d].size
               /\ g[d].next = m[d].next
               /\ g[d].prev = IF d = e THEN a ELSE m[d].prev
    BY <2>1, <2>2
  <2> HIDE DEF g
  <2> QED
    BY <1>8, <2>1, <2>3, <2>4 DEF n, e
<1> QED
  BY <1>9, <1>10

LEMMA MergeSound ==
  ASSUME NEW h \in Headers, NEW B, Sound(h, B), NEW a \in B, NEW c \in B, End(h, a) = c,
         NEW g, g = Merge(h, a, c)
  PROVE  /\ g \in Headers /\ Sound(g, B \ {c})
         /\ End(g, a) = End(h, c)
         /\ \A d \in B \ {c} : d # a => End(g, d) = End(h, d)
         /\ \A left : Told(h, B, left) => Told(g, B \ {c}, left \ {c, h[c].next})
<1> DEFINE C == B \ {c}
<1>1. g \in Headers
  BY MergeFields
<1>2. \A d \in Addresses :
        /\ g[d].size = IF d = a THEN h[a].size + 32 + h[c].size ELSE h[d].size
        /\ g[d].next = IF d = a THEN h[c].next ELSE h[d].next
        /\ g[d].prev = IF d = h[c].next THEN a ELSE h[d].prev
  BY MergeFields
<1>3. /\ \A d \in B : d \in Addresses /\ d \in Nat
      /\ h[a].size \in Nat /\ h[c].size \in Nat
      /\ h[a].size >= 16 /\ h[c].size >= 16 /\ h[a].size % 16 = 0 /\ h[c].size % 16 = 0
      /\ c = a + 32 + h[a].size /\ End(h, c) = c + 32 + h[c].size
  BY BlockFacts
<1>4. End(g, a) = End(h, c)
  BY <1>2, <1>3 DEF End, Header
<1>5. \A d \in C : d # a => End(g, d) = End(h, d)
  BY <1>2, <1>3 DEF End
<1>6. \A d \in C : g[d].size >= 16 /\ g[d].size % 16 = 0
  <2>1. h[a].size + 32 + h[c].size >= 16 /\ (h[a].size + 32 + h[c].size) % 16 = 0
    BY <1>3
  <2>2. \A d \in C : h[d].size >= 16 /\ h[d].size % 16 = 0
    BY BlockFacts
  <2> QED
    BY <1>2, <1>3, <2>1, <2>2
<1>7. /\ a \in C /\ a < c /\ a # c
      /\ \A d \in B : End(h, d) = c => d = a
  <2>1. a < c /\ c # 0
    BY <1>3
  <2>2. \A d, f \in B : End(h, d) = c /\ End(h, f) = c => d = f
    BY <2>1, PrevFacts
  <2> QED
    BY <2>1, <2>2, <1>3
<1>8. ASSUME NEW d \in C
      PROVE  IF End(g, d) = HEAP_SIZE
               THEN g[d].next = NULL
               ELSE End(g, d) \in C /\ g[d].next = End(g, d)
  <2>1. CASE d = a
    <3>1. g[d].next = h[c].next /\ End(g, d) = End(h, c)
      BY <1>2, <1>3, <1>4, <2>1
    <3>2. \/ End(h, c) = HEAP_SIZE /\ h[c].next = NULL
          \/ /\ End(h, c) < HEAP_SIZE /\ End(h, c) \in B /\ h[c].next = End(h, c)
             /\ c < End(h, c)
      BY NextFacts
    <3> QED
      BY <1>3, <2>1, <3>1, <3>2, HeapFacts
  <2>2. CASE d # a
    <3>1. g[d].next = h[d].next /\ End(g, d) = End(h, d)
      BY <1>2, <1>3, <1>5, <2>2
    <3>2. \/ End(h, d) = HEAP_SIZE /\ h[d].next = NULL
          \/ End(h, d) < HEAP_SIZE /\ End(h, d) \in B /\ h[d].next = End(h, d)
      BY NextFacts
    <3>3. End(h, d) # c
      BY <1>7, <2>2
    <3> QED
      BY <3>1, <3>2, <3>3, HeapFacts
  <2> QED
    BY <2>1, <2>2
<1>9. ASSUME NEW d \in C, d # 0
      PROVE  \E f \in C : End(g, f) = d
  <2>1. PICK f \in B : End(h, f) = d
    BY <1>9, PrevFacts
  <2>2. CASE f = c
    BY <1>4, <1>7, <2>1, <2>2
  <2>3. CASE f # c
    <3>1. f # a
      BY <2>1
    <3> QED
      BY <1>5, <2>1, <2>3, <3>1
  <2> QED
    BY <2>2, <2>3
<1>10. ASSUME NEW d \in C, NEW f \in C, d < f
       PROVE  End(g, d) <= f
  <2>1. CASE d # a
    <3>1. End(h, d) <= f
      BY <1>10, BlockFacts
    <3> QED
      BY <1>5, <2>1, <3>1
  <2>2. CASE d = a
    <3>1. c <= f
      BY <1>10, <2>2, BlockFacts
    <3>2. c < f
      BY <1>3, <3>1
    <3>3. End(h, c) <= f
      BY <3>2, BlockFacts
    <3> QED
      BY <1>4, <2>2, <3>3
  <2> QED
    BY <2>1, <2>2
<1>11. C \subseteq Addresses \ {HEAP_SIZE} /\ 0 \in C /\ g[0].prev = NULL
  <2>1. 0 \in B /\ h[0].prev = NULL /\ HEAP_SIZE \notin B
    BY DEF Sound
  <2>2. 0 # c
    BY <1>3
  <2>3. h[c].next # 0
    <3>1. h[c].next = NULL \/ (h[c].next = End(h, c) /\ c < End(h, c))
      BY NextFacts
    <3> QED
      BY <1>3, <3>1, HeapFacts
  <2> QED
    BY <1>2, <1>3, <2>1, <2>2, <2>3
<1> HIDE DEF C
<1>12. Sound(g, C)
  BY <1>6, <1>8, <1>9, <1>10, <1>11 DEF Sound, Align
<1>13. ASSUME NEW left, Told(h, B, left)
       PROVE  Told(g, C, left \ {c, h[c].next})
  <2>1. left \ {c, h[c].next} \subseteq C \ {0}
    BY <1>13 DEF Told, C
  <2>2. ASSUME NEW d \in C \ ((left \ {c, h[c].next}) \cup {0})
        PROVE  g[d].prev \in C /\ End(g, g[d].prev) = d
    <3>1. d \in B /\ d # c /\ d # 0 /\ d \in Addresses
      BY <1>3 DEF C
    <3>2. CASE d = h[c].next
      <4>1. g[d].prev = a
        BY <1>2, <3>1, <3>2
      <4>2. h[c].next = End(h, c)
        BY <3>1, <3>2, BlockFacts, NextFacts
      <4> QED
        BY <1>4, <1>7, <3>2, <4>1, <4>2
    <3>3. CASE d # h[c].next
      <4>1. h[d].prev \in B /\ End(h, h[d].prev) = d
        BY <1>13, <3>1, <3>3 DEF Told
      <4>2. h[d].prev # c
        BY <3>1, <3>3, <4>1, BlockFacts, NextFacts
      <4>3. h[d].prev # a
        BY <3>1, <4>1
      <4>4. g[d].prev = h[d].prev
        BY <1>2, <3>1, <3>3
      <4> QED
        BY <1>5, <4>1, <4>2, <4>3, <4>4 DEF C
    <3> QED
      BY <3>2, <3>3
  <2> QED
    BY <2>1, <2>2 DEF Told
<1> QED
  BY <1>1, <1>4, <1>5, <1>12, <1>13 DEF C

(* Two free neighbours become one: the owners keep their blocks, the free  *)
(* bytes grow by the header that is gone, and the larger block has no free *)
(* one behind it unless the second had.                                    *)
LEMMA FreeMerge ==
  ASSUME NEW h \in Headers, NEW B, Sound(h, B), NEW L, Owned(h, B, L),
         NEW a \in B, NEW c \in B, End(h, a) = c,
         ~ h[a].is_used, ~ h[c].is_used,
         NEW g, g = Merge(h, a, c)
  PROVE  /\ g \in Headers /\ Sound(g, B \ {c}) /\ Owned(g, B \ {c}, L)
         /\ c \notin Uncoalesced(h, B) =>
              Uncoalesced(g, B \ {c}) \subseteq Uncoalesced(h, B) \ {a}
         /\ Bytes(g, Unused(g, B \ {c})) = Bytes(h, Unused(h, B)) + 32
         /\ a \in B \ {c} /\ ~ g[a].is_used /\ g[a].prev = h[a].prev
<1> DEFINE C == B \ {c}
<1>1. /\ g \in Headers /\ Sound(g, C) /\ End(g, a) = End(h, c)
      /\ \A d \in C : d # a => End(g, d) = End(h, d)
  BY MergeSound
<1>2. \A d \in Addresses :
        /\ g[d].is_used = h[d].is_used
        /\ g[d].size = IF d = a THEN h[a].size + 32 + h[c].size ELSE h[d].size
        /\ g[d].prev = IF d = h[c].next THEN a ELSE h[d].prev
  BY MergeFields
<1>3. /\ B \subseteq Addresses /\ h[a].size \in Nat /\ h[c].size \in Nat
      /\ a \in Nat /\ c \in Nat /\ a < c /\ a # NULL
  BY BlockFacts
<1>4. a \in C /\ ~ g[a].is_used
  BY <1>2, <1>3
<1>5. g[a].prev = h[a].prev
  <2>1. h[c].next = NULL \/ (h[c].next = End(h, c) /\ c < End(h, c))
    BY NextFacts
  <2>2. End(h, c) \in Nat
    BY BlockFacts
  <2>3. a # h[c].next
    BY <1>3, <2>1, <2>2
  <2> QED
    BY <1>2, <1>3, <2>3
<1>6. Owned(g, C, L)
  <2>1. ASSUME NEW p \in L
        PROVE  p.at \in C /\ g[p.at].is_used /\ p.size \in 1..g[p.at].size
    <3>1. p.at \in B /\ h[p.at].is_used /\ p.size \in 1..h[p.at].size
      BY DEF Owned
    <3>2. p.at # a /\ p.at # c
      BY <3>1
    <3> QED
      BY <1>2, <1>3, <3>1, <3>2
  <2>2. \A p, q \in L : p.at = q.at => p = q
    BY DEF Owned
  <2>3. \A b \in C : g[b].is_used => \E p \in L : p.at = b
    BY <1>2, <1>3 DEF Owned
  <2> HIDE DEF C
  <2> QED
    BY <2>1, <2>2, <2>3 DEF Owned
<1>7. ASSUME c \notin Uncoalesced(h, B), NEW d \in Uncoalesced(g, C)
      PROVE  d \in Uncoalesced(h, B) /\ d # a
  <2>1. /\ d \in C /\ ~ g[d].is_used /\ End(g, d) \in C /\ ~ g[End(g, d)].is_used
    BY DEF Uncoalesced
  <2>2. /\ d \in B /\ ~ h[d].is_used /\ End(g, d) \in B /\ ~ h[End(g, d)].is_used
    BY <1>2, <1>3, <2>1
  <2>3. d # a
    BY <1>1, <1>7, <2>2 DEF Uncoalesced
  <2> QED
    BY <1>1, <2>1, <2>2, <2>3 DEF Uncoalesced
<1>8. Bytes(g, Unused(g, C)) = Bytes(h, Unused(h, B)) + 32
  <2> DEFINE U == Unused(h, B)
             W == Unused(g, C)
             X == (U \ {c}) \ {a}
  <2>1. W = U \ {c}
    BY <1>2, <1>3 DEF Unused
  <2>2. U \in SUBSET Addresses /\ c \in U /\ a \in U \ {c}
    <3>1. a # c
      BY <1>3
    <3> QED
      BY <1>3, <3>1 DEF Unused
  <2> HIDE DEF U, W
  <2>3. Bytes(h, U) = h[c].size + Bytes(h, U \ {c})
    BY <2>2, BytesFacts
  <2>4. Bytes(h, U \ {c}) = h[a].size + Bytes(h, X)
    <3>1. U \ {c} \in SUBSET Addresses
      BY <2>2
    <3> QED
      BY <2>2, <3>1, BytesFacts
  <2>5. X \in SUBSET Addresses /\ a \notin X
    BY <2>2
  <2>6. Bytes(g, W) = g[a].size + Bytes(g, W \ {a})
    <3>1. W \in SUBSET Addresses /\ a \in W
      BY <2>1, <2>2
    <3> QED
      BY <1>1, <3>1, BytesFacts
  <2>7. W \ {a} = X
    BY <2>1
  <2> HIDE DEF X
  <2>8. Bytes(g, X) = Bytes(h, X) /\ Bytes(h, X) \in Nat
    <3>1. \A x \in X : g[x].size = h[x].size
      BY <1>2, <2>5
    <3> QED
      BY <1>1, <2>5, <3>1, BytesFacts
  <2>9. g[a].size = h[a].size + 32 + h[c].size
    BY <1>2, <1>3
  <2>10. Bytes(g, W) = h[a].size + 32 + h[c].size + Bytes(h, X)
    BY <2>6, <2>7, <2>8, <2>9
  <2>11. Bytes(h, U) = h[c].size + (h[a].size + Bytes(h, X))
    BY <2>3, <2>4
  <2>12. Bytes(g, W) = Bytes(h, U) + 32
    BY <1>3, <2>8, <2>10, <2>11
  <2> QED
    BY <2>12 DEF U, W
<1> QED
  BY <1>1, <1>4, <1>5, <1>6, <1>7, <1>8

SameLinks(g, h, B) ==
  \A d \in B : /\ g[d].size = h[d].size
               /\ g[d].next = h[d].next /\ g[d].prev = h[d].prev

(* The list does not depend on who uses its blocks. *)
LEMMA SameList ==
  ASSUME NEW h \in Headers, NEW B, Sound(h, B), NEW g \in Headers, SameLinks(g, h, B)
  PROVE  /\ Sound(g, B) /\ \A d \in B : End(g, d) = End(h, d)
         /\ \A left : Told(h, B, left) => Told(g, B, left)
<1> USE DEF SameLinks
<1>1. \A d \in B : End(g, d) = End(h, d)
  BY DEF End
<1>2. ASSUME NEW d \in B
      PROVE  /\ g[d].size >= Align /\ g[d].size % Align = 0
             /\ IF End(g, d) = HEAP_SIZE
                  THEN g[d].next = NULL
                  ELSE End(g, d) \in B /\ g[d].next = End(g, d)
             /\ d # 0 => \E a \in B : End(g, a) = d
  <2>1. g[d].size >= Align /\ g[d].size % Align = 0
    BY DEF Sound
  <2>2. IF End(g, d) = HEAP_SIZE
          THEN g[d].next = NULL
          ELSE End(g, d) \in B /\ g[d].next = End(g, d)
    BY <1>1 DEF Sound
  <2>3. d # 0 => \E a \in B : End(g, a) = d
    BY <1>1 DEF Sound
  <2> QED
    BY <2>1, <2>2, <2>3
<1>3. \A d, f \in B : d < f => End(g, d) <= f
  BY <1>1 DEF Sound
<1>4. B \subseteq Addresses \ {HEAP_SIZE} /\ 0 \in B /\ g[0].prev = NULL
  BY DEF Sound
<1>5. Sound(g, B)
  BY <1>2, <1>3, <1>4 DEF Sound
<1>6. ASSUME NEW left, Told(h, B, left)
      PROVE  Told(g, B, left)
  BY <1>1, <1>6 DEF Told
<1> QED
  BY <1>1, <1>5, <1>6

(***************************************************************************)
(* The invariant, said of any headers h with the blocks B, the owners L, n *)
(* available bytes, the blocks `left' whose prev is stale, and m for the   *)
(* mistake made.                                                           *)
(***************************************************************************)

Kept(h, B, L, n, left, m) ==
  /\ h \in Headers /\ Sound(h, B) /\ Told(h, B, left) /\ Owned(h, B, L)
  /\ n = 32 + Bytes(h, Unused(h, B))
  /\ m = "none" => Uncoalesced(h, B) = {}

LEMMA KeptFacts ==
  ASSUME NEW h, NEW B, NEW L, NEW n, NEW left, NEW m, Kept(h, B, L, n, left, m)
  PROVE  ListedOf(h) = B /\ n \in Nat /\ left \subseteq Addresses
<1>1. ListedOf(h) = B
  BY SoundIsListed DEF Kept
<1>2. Bytes(h, Unused(h, B)) \in Nat
  <2>1. Unused(h, B) \in SUBSET Addresses
    BY DEF Kept, Sound, Unused
  <2> QED
    BY <2>1, BytesFacts DEF Kept
<1>3. n \in Nat
  BY <1>2 DEF Kept
<1>4. left \subseteq Addresses
  BY DEF Kept, Told, Sound
<1> QED
  BY <1>1, <1>3, <1>4

LEMMA InvIsKept ==
  ASSUME HeapInv, Intact
  PROVE  Kept(headers, Listed, live, available_bytes, untold, mistake)
<1>1. available_bytes = 32 + Bytes(headers, Unused(headers, Listed))
  BY DEF HeapInv, AvailableBytes, Header
<1> QED
  BY <1>1 DEF HeapInv, TypeOK, Headers, Kept

SetsFree(g, h, b) == g = [h EXCEPT ![b].is_used = FALSE]

(* Finds, of the blocks B. *)
FindsIn(B, h, p) == IF p \in B \cup {NULL} THEN {Free(h, p)} ELSE BOOLEAN

(* mem_free before it merges. *)
LEMMA Release ==
  ASSUME NEW h, NEW B, NEW L, NEW n, NEW left, NEW m, Kept(h, B, L, n, left, m),
         NEW p \in L, NEW g, SetsFree(g, h, p.at)
  PROVE  /\ p.at \in B /\ h[p.at].is_used /\ h[p.at].size \in Nat
         /\ g \in Headers /\ Sound(g, B) /\ Told(g, B, left) /\ Owned(g, B, L \ {p})
         /\ 32 + Bytes(g, Unused(g, B)) = n + h[p.at].size
         /\ ~ g[p.at].is_used
         /\ m = "none" => \A d \in Uncoalesced(g, B) : d = p.at \/ End(g, d) = p.at
<1> DEFINE b == p.at
<1>0. b = p.at /\ g = [h EXCEPT ![b].is_used = FALSE]
  BY DEF SetsFree
<1> HIDE DEF b
<1>1. b \in B /\ h[b].is_used /\ b \in Addresses
  BY <1>0 DEF Kept, Owned, Sound
<1>2. h \in [Addresses -> [size : 0..(UIntRange - 1), is_used : BOOLEAN,
                           next : Pointers, prev : Pointers]]
  BY DEF Kept, Headers
<1>3. g \in Headers
  BY <1>0, <1>1, <1>2 DEF Headers
<1>4. ASSUME NEW d \in Addresses
      PROVE  /\ g[d].is_used = (d # b /\ h[d].is_used) /\ g[d].size = h[d].size
             /\ g[d].next = h[d].next /\ g[d].prev = h[d].prev
  BY <1>0, <1>1, <1>2
<1>5. B \subseteq Addresses /\ h \in Headers /\ Sound(h, B) /\ Told(h, B, left)
  BY DEF Kept, Sound
<1>6. Sound(g, B) /\ Told(g, B, left) /\ \A d \in B : End(g, d) = End(h, d)
  <2>1. SameLinks(g, h, B)
    BY <1>4, <1>5 DEF SameLinks
  <2>2. h \in Headers /\ g \in Headers /\ Sound(h, B) /\ SameLinks(g, h, B)
    BY <1>3, <1>5, <2>1
  <2> QED
    BY <1>5, <2>2, SameList
<1>7. Owned(g, B, L \ {p})
  <2>1. ASSUME NEW q \in L \ {p}
        PROVE  q.at \in B /\ g[q.at].is_used /\ q.size \in 1..g[q.at].size
    <3>1. /\ q.at \in B /\ h[q.at].is_used /\ q.size \in 1..h[q.at].size
          /\ q.at # b
      BY <1>0 DEF Kept, Owned
    <3> QED
      BY <1>4, <1>5, <3>1
  <2>2. ASSUME NEW d \in B, g[d].is_used
        PROVE  \E q \in L \ {p} : q.at = d
    <3>1. d # b /\ h[d].is_used
      BY <1>4, <1>5, <2>2
    <3>2. PICK q \in L : q.at = d
      BY <3>1 DEF Kept, Owned
    <3> QED
      BY <1>0, <3>1, <3>2
  <2>3. \A q, r \in L \ {p} : q.at = r.at => q = r
    BY DEF Kept, Owned
  <2> QED
    BY <2>1, <2>2, <2>3 DEF Owned
<1>8. h[b].size \in Nat
  BY <1>1, <1>5, BlockFacts
<1>9. 32 + Bytes(g, Unused(g, B)) = n + h[b].size
  <2> DEFINE U == Unused(h, B)
             W == Unused(g, B)
  <2>1. /\ U \in SUBSET Addresses /\ W \in SUBSET Addresses
        /\ W \ {b} = U /\ b \in W /\ b \notin U
    BY <1>1, <1>4, <1>5 DEF Unused
  <2>2. n = 32 + Bytes(h, U)
    BY DEF Kept
  <2> HIDE DEF U, W
  <2>3. Bytes(g, W) = g[b].size + Bytes(g, U)
    <3>1. Bytes(g, W) = g[b].size + Bytes(g, W \ {b})
      BY <1>3, <2>1, BytesFacts
    <3> QED
      BY <2>1, <3>1
  <2>4. Bytes(g, U) = Bytes(h, U) /\ Bytes(h, U) \in Nat
    <3>1. \A x \in U : g[x].size = h[x].size
      BY <1>4, <2>1
    <3> QED
      BY <1>3, <1>5, <2>1, <3>1, BytesFacts
  <2>5. g[b].size = h[b].size
    BY <1>1, <1>4
  <2>6. 32 + Bytes(g, W) = n + h[b].size
    BY <1>8, <2>2, <2>3, <2>4, <2>5
  <2> QED
    BY <2>6 DEF W
<1>10. ASSUME m = "none", NEW d \in Uncoalesced(g, B)
       PROVE  d = b \/ End(g, d) = b
  <2> SUFFICES ASSUME d # b, End(g, d) # b
               PROVE  FALSE
    OBVIOUS
  <2>1. d \in B /\ ~ g[d].is_used /\ End(g, d) \in B /\ ~ g[End(g, d)].is_used
    BY DEF Uncoalesced
  <2>2. d \in B /\ ~ h[d].is_used /\ End(h, d) \in B /\ ~ h[End(h, d)].is_used
    BY <1>4, <1>5, <1>6, <2>1
  <2>3. d \in Uncoalesced(h, B)
    BY <2>2 DEF Uncoalesced
  <2> QED
    BY <1>10, <2>3 DEF Kept
<1> QED
  BY <1>1, <1>3, <1>4, <1>6, <1>7, <1>8, <1>9, <1>10 DEF b

(* The headers when block b is freed, when the block behind it is merged,  *)
(* and when the one before it is; the available bytes then, and the blocks *)
(* whose prev is still stale.                                              *)
Released(h, b) == [h EXCEPT ![b].is_used = FALSE]
MergesNext(h, b) == Free(Released(h, b), Released(h, b)[b].next)
Ahead(h, b) ==
  IF MergesNext(h, b) THEN Merge(Released(h, b), b, Released(h, b)[b].next) ELSE Released(h, b)
Behind(h, b, back) ==
  IF back THEN Merge(Ahead(h, b), Ahead(h, b)[b].prev, b) ELSE Ahead(h, b)
GivenBack(n, h, b, back) ==
  n + h[b].size + (IF MergesNext(h, b) THEN Header ELSE 0) + (IF back THEN Header ELSE 0)
StillStale(left, h, b, back) ==
  left \ (Settled(Released(h, b), Released(h, b)[b].next, MergesNext(h, b))
           \cup Settled(Ahead(h, b), b, back))

(* mem_free that merges no block through a stale prev. *)
LEMMA FreeKeeps ==
  ASSUME NEW h, NEW B, NEW L, NEW n, NEW left, NEW m, Kept(h, B, L, n, left, m),
         NEW p \in L, NEW back \in BOOLEAN, ~ (p.at \in left /\ back),
         back \in FindsIn(B, Ahead(h, p.at), Ahead(h, p.at)[p.at].prev)
  PROVE  \E C : Kept(Behind(h, p.at, back), C, L \ {p}, GivenBack(n, h, p.at, back),
                    StillStale(left, h, p.at, back),
                    IF p.at \notin left THEN m ELSE "apart")
<1> DEFINE b  == p.at
           h0 == [h EXCEPT ![b].is_used = FALSE]
           c  == h0[b].next
           h1 == IF Free(h0, c) THEN Merge(h0, b, c) ELSE h0
           a  == h1[b].prev
           h2 == IF back THEN Merge(h1, a, b) ELSE h1
           n1 == n + h[b].size + (IF Free(h0, c) THEN Header ELSE 0)
           n2 == n1 + (IF back THEN Header ELSE 0)
           l1 == left \ Settled(h0, c, Free(h0, c))
           l2 == left \ (Settled(h0, c, Free(h0, c)) \cup Settled(h1, b, back))
           m2 == IF b \notin left THEN m ELSE "apart"
           O  == L \ {p}
           before == h0[b].prev
<1>0. /\ h1 = Ahead(h, b) /\ h2 = Behind(h, b, back)
      /\ n2 = GivenBack(n, h, b, back) /\ l2 = StillStale(left, h, b, back)
  BY DEF Released, MergesNext, Ahead, Behind, GivenBack, StillStale
<1> SUFFICES \E C : Kept(h2, C, O, n2, l2, m2)
  <2> HIDE DEF h0, h1, h2, n2, l2
  <2> QED
    BY <1>0
<1>0a. ~ (b \in left /\ back) /\ back \in FindsIn(B, h1, a)
  <2> HIDE DEF h0, h1
  <2> QED
    BY <1>0
<1>1. /\ b \in B /\ h[b].is_used /\ h[b].size \in Nat
      /\ h0 \in Headers /\ Sound(h0, B) /\ Told(h0, B, left) /\ Owned(h0, B, O)
      /\ 32 + Bytes(h0, Unused(h0, B)) = n + h[b].size
      /\ ~ h0[b].is_used
      /\ m = "none" => \A d \in Uncoalesced(h0, B) : d = b \/ End(h0, d) = b
  <2> HIDE DEF h0
  <2>1. SetsFree(h0, h, p.at)
    BY DEF h0, SetsFree
  <2> QED
    BY <2>1, Release
<1>2. n \in Nat
  BY KeptFacts
<1>2a. l2 = l1 \ Settled(h1, b, back)
  <2> HIDE DEF h0, h1, c, b
  <2> QED
    OBVIOUS
<1> HIDE DEF b, h0, O, l2
<1>3. b \in Nat /\ b # NULL /\ \A d \in B : d \in Nat /\ d # NULL
  BY <1>1, BlockFacts
<1> DEFINE Only(S) == m = "none" /\ b \notin left => \A d \in S : d = before /\ d # b
<1>4. PICK C : /\ h1 \in Headers /\ Sound(h1, C) /\ Told(h1, C, l1) /\ Owned(h1, C, O)
               /\ 32 + Bytes(h1, Unused(h1, C)) = n1 /\ C \subseteq B
               /\ b \in C /\ ~ h1[b].is_used /\ h1[b].prev = before
               /\ Only(Uncoalesced(h1, C))
  <2>1. m = "none" /\ b \notin left =>
          \A d \in Uncoalesced(h0, B) : d = b \/ (d = before /\ d < b)
    <3>1. ASSUME m = "none", b \notin left, NEW d \in Uncoalesced(h0, B), d # b
          PROVE  d = before /\ d < b
      <4>1. d \in B /\ End(h0, d) = b
        BY <1>1, <3>1 DEF Uncoalesced
      <4>2. d < b
        BY <1>1, <4>1, BlockFacts
      <4>3. b # 0
        BY <1>3, <4>1, <4>2
      <4>4. before \in B /\ End(h0, before) = b
        BY <1>1, <3>1, <4>3 DEF Told
      <4> QED
        BY <1>1, <4>1, <4>2, <4>3, <4>4, PrevFacts
    <3> QED
      BY <3>1
  <2>2. CASE Free(h0, c)
    <3>1. c # NULL /\ ~ h0[c].is_used
      BY <2>2 DEF Free
    <3>2. c \in B /\ End(h0, b) = c /\ b < c
      BY <1>1, <3>1, NextFacts
    <3>3. m = "none" /\ b \notin left => c \notin Uncoalesced(h0, B)
      BY <1>3, <2>1, <3>2
    <3>4. /\ h1 = Merge(h0, b, c) /\ n1 = n + h[b].size + 32
          /\ l1 = left \ {c, h0[c].next}
      BY <2>2 DEF Header, Settled
    <3> HIDE DEF h1, n1, c, l1
    <3>5. /\ h1 \in Headers /\ Sound(h1, B \ {c}) /\ Owned(h1, B \ {c}, O)
          /\ c \notin Uncoalesced(h0, B) =>
               Uncoalesced(h1, B \ {c}) \subseteq Uncoalesced(h0, B) \ {b}
          /\ Bytes(h1, Unused(h1, B \ {c})) = Bytes(h0, Unused(h0, B)) + 32
          /\ b \in B \ {c} /\ ~ h1[b].is_used /\ h1[b].prev = before
      <4>1. /\ h0 \in Headers /\ Sound(h0, B) /\ Owned(h0, B, O)
            /\ b \in B /\ c \in B /\ End(h0, b) = c
            /\ ~ h0[b].is_used /\ ~ h0[c].is_used /\ h1 = Merge(h0, b, c)
        BY <1>1, <3>1, <3>2, <3>4
      <4> QED
        BY <4>1, FreeMerge
    <3>5a. Told(h1, B \ {c}, l1)
      BY <1>1, <3>2, <3>4, MergeSound
    <3>6. 32 + Bytes(h1, Unused(h1, B \ {c})) = n1
      <4>1. Bytes(h0, Unused(h0, B)) \in Nat
        <5>1. Unused(h0, B) \in SUBSET Addresses
          BY <1>1 DEF Unused, Sound
        <5> QED
          BY <1>1, <5>1, BytesFacts
      <4> QED
        BY <1>1, <1>2, <3>4, <3>5, <4>1
    <3>7. Only(Uncoalesced(h1, B \ {c}))
      BY <2>1, <3>3, <3>5
    <3> HIDE DEF Only
    <3> QED
      BY <3>5, <3>5a, <3>6, <3>7
  <2>3. CASE ~ Free(h0, c)
    <3>1. h1 = h0 /\ n1 = n + h[b].size /\ l1 = left
      BY <1>1, <1>2, <2>3 DEF Settled
    <3>2. b \notin Uncoalesced(h0, B)
      <4> SUFFICES ASSUME End(h0, b) \in B, ~ h0[End(h0, b)].is_used
                   PROVE  FALSE
        BY DEF Uncoalesced
      <4>1. c = End(h0, b) /\ c # NULL
        BY <1>1, NextFacts
      <4> QED
        BY <2>3, <4>1 DEF Free
    <3> HIDE DEF h1, n1, l1
    <3>3. Only(Uncoalesced(h1, B))
      BY <2>1, <3>1, <3>2
    <3> HIDE DEF Only
    <3> QED
      BY <1>1, <3>1, <3>3
  <2> QED
    BY <2>2, <2>3
<1>5. n1 \in Nat
  BY <1>1, <1>2 DEF Header
<1>6. b \in left \/ back = Free(h1, a)
  <2>1. b # 0 /\ b \notin left => before \in B
    BY <1>1 DEF Told
  <2>2. b = 0 => before = NULL
    BY <1>1 DEF Sound
  <2> QED
    BY <1>0a, <1>4, <2>1, <2>2 DEF FindsIn
<1>7. b \in l1 => b \in left
  OBVIOUS
<1> HIDE DEF h1, n1, l1, before
<1>8. CASE back
  <2>1. a # NULL /\ ~ h1[a].is_used /\ b \notin left
    BY <1>0a, <1>6, <1>8 DEF Free
  <2>2. a \in C /\ End(h1, a) = b
    <3>1. b # 0
      BY <1>4, <2>1 DEF Sound
    <3> QED
      BY <1>4, <1>7, <2>1, <3>1 DEF Told
  <2>3. m = "none" => b \notin Uncoalesced(h1, C)
    BY <1>4, <2>1
  <2>4. /\ h2 = Merge(h1, a, b) /\ n2 = n1 + 32 /\ a = before /\ m2 = m
        /\ l2 = l1 \ {b, h1[b].next}
    BY <1>2a, <1>4, <1>8, <2>1 DEF Header, Settled
  <2> HIDE DEF h2, n2, a, m2
  <2>5. /\ h2 \in Headers /\ Sound(h2, C \ {b}) /\ Owned(h2, C \ {b}, O)
        /\ b \notin Uncoalesced(h1, C) =>
             Uncoalesced(h2, C \ {b}) \subseteq Uncoalesced(h1, C) \ {a}
        /\ Bytes(h2, Unused(h2, C \ {b})) = Bytes(h1, Unused(h1, C)) + 32
    <3>1. /\ h1 \in Headers /\ Sound(h1, C) /\ Owned(h1, C, O)
          /\ a \in C /\ b \in C /\ End(h1, a) = b
          /\ ~ h1[a].is_used /\ ~ h1[b].is_used /\ h2 = Merge(h1, a, b)
      BY <1>4, <2>1, <2>2, <2>4
    <3> QED
      BY <3>1, FreeMerge, SMTT(30)
  <2>5a. Told(h2, C \ {b}, l2)
    <3> HIDE DEF Only
    <3> QED
      BY <1>4, <2>2, <2>4, MergeSound
  <2>6. m = "none" => Uncoalesced(h2, C \ {b}) = {}
    BY <1>4, <2>1, <2>3, <2>4, <2>5
  <2>7. n2 = 32 + Bytes(h2, Unused(h2, C \ {b}))
    <3>1. Bytes(h1, Unused(h1, C)) \in Nat
      <4>1. Unused(h1, C) \in SUBSET Addresses
        BY <1>4 DEF Unused, Sound
      <4> QED
        BY <1>4, <4>1, BytesFacts
    <3> QED
      BY <1>4, <2>4, <2>5, <3>1
  <2> QED
    BY <2>4, <2>5, <2>5a, <2>6, <2>7 DEF Kept
<1>9. CASE ~ back
  <2>1. h2 = h1 /\ n2 = n1 /\ l2 = l1
    BY <1>2a, <1>5, <1>9 DEF Settled
  <2>2. ASSUME m2 = "none", NEW d \in Uncoalesced(h1, C)
        PROVE  FALSE
    <3>1. m = "none" /\ b \notin left
      BY <2>2
    <3>2. d = a /\ d \in B /\ ~ h1[d].is_used
      BY <1>4, <2>2, <3>1 DEF Uncoalesced
    <3> QED
      BY <1>3, <1>6, <1>9, <3>1, <3>2 DEF Free
  <2> HIDE DEF h2, n2, m2, Only
  <2> QED
    BY <1>4, <2>1, <2>2 DEF Kept
<1> QED
  BY <1>8, <1>9

(* A free block b gets an owner o, and the rest of the blocks keep theirs. *)
LEMMA OwnerAdded ==
  ASSUME NEW h, NEW B, NEW L, Owned(h, B, L), NEW b \in B, ~ h[b].is_used,
         NEW g, NEW C, B \subseteq C, NEW o,
         o.at = b, g[b].is_used, o.size \in 1..g[b].size,
         \A d \in B : d # b => g[d].is_used = h[d].is_used /\ g[d].size = h[d].size,
         \A d \in C : d \notin B => ~ g[d].is_used
  PROVE  Owned(g, C, L \cup {o})
<1>1. \A p \in L : /\ p.at \in B /\ h[p.at].is_used /\ p.at # b
                   /\ p.size \in 1..h[p.at].size
  BY DEF Owned
<1>2. ASSUME NEW p \in L \cup {o}
      PROVE  p.at \in C /\ g[p.at].is_used /\ p.size \in 1..g[p.at].size
  BY <1>1
<1>3. ASSUME NEW p \in L \cup {o}, NEW q \in L \cup {o}, p.at = q.at
      PROVE  p = q
  <2>1. p \in L /\ q \in L => p = q
    BY <1>3 DEF Owned
  <2> QED
    BY <1>1, <1>3, <2>1
<1>4. ASSUME NEW d \in C, g[d].is_used
      PROVE  \E p \in L \cup {o} : p.at = d
  <2>1. CASE d = b
    BY <2>1
  <2>2. CASE d # b
    <3>1. d \in B /\ h[d].is_used
      BY <1>4, <2>2
    <3> QED
      BY <3>1 DEF Owned
  <2> QED
    BY <2>1, <2>2
<1> QED
  BY <1>2, <1>3, <1>4 DEF Owned

(* mem_alloc of a whole block. *)
LEMMA TakeKeeps ==
  ASSUME NEW h, NEW B, NEW L, NEW n, NEW left, NEW m, Kept(h, B, L, n, left, m),
         NEW b \in B, ~ h[b].is_used, NEW o, o.at = b, o.size \in 1..h[b].size
  PROVE  Kept([h EXCEPT ![b].is_used = TRUE], B, L \cup {o}, n - h[b].size, left, m)
<1> DEFINE g == [h EXCEPT ![b].is_used = TRUE]
<1>1. B \subseteq Addresses /\ b \in Addresses /\ h \in Headers /\ Sound(h, B)
  BY DEF Kept, Sound
<1>2. h \in [Addresses -> [size : 0..(UIntRange - 1), is_used : BOOLEAN,
                           next : Pointers, prev : Pointers]]
  BY <1>1 DEF Headers
<1>3. g \in Headers
  BY <1>1, <1>2 DEF Headers
<1>4. ASSUME NEW d \in Addresses
      PROVE  /\ g[d].is_used = IF d = b THEN TRUE ELSE h[d].is_used
             /\ g[d].size = h[d].size
             /\ g[d].next = h[d].next /\ g[d].prev = h[d].prev
  BY <1>1, <1>2
<1> HIDE DEF g
<1>5. Sound(g, B) /\ Told(g, B, left) /\ \A d \in B : End(g, d) = End(h, d)
  <2>1. SameLinks(g, h, B)
    BY <1>1, <1>4 DEF SameLinks
  <2>2. Told(h, B, left)
    BY DEF Kept
  <2> QED
    BY <1>1, <1>3, <2>1, <2>2, SameList
<1>6. m = "none" => Uncoalesced(g, B) = {}
  <2> SUFFICES ASSUME m = "none", NEW d \in Uncoalesced(g, B)
               PROVE  FALSE
    OBVIOUS
  <2>1. d \in B /\ ~ g[d].is_used /\ End(g, d) \in B /\ ~ g[End(g, d)].is_used
    BY DEF Uncoalesced
  <2>2. d \in B /\ ~ h[d].is_used /\ End(h, d) \in B /\ ~ h[End(h, d)].is_used
    BY <1>1, <1>4, <1>5, <2>1
  <2> QED
    BY <2>2 DEF Uncoalesced, Kept
<1>7. Owned(g, B, L \cup {o})
  <2>1. \A d \in B : d # b => g[d].is_used = h[d].is_used /\ g[d].size = h[d].size
    BY <1>1, <1>4
  <2>2. g[b].is_used /\ o.size \in 1..g[b].size
    BY <1>1, <1>4
  <2>3. Owned(h, B, L)
    BY DEF Kept
  <2> QED
    BY <2>1, <2>2, <2>3, OwnerAdded
<1>8. n - h[b].size = 32 + Bytes(g, Unused(g, B))
  <2> DEFINE U == Unused(h, B)
             W == Unused(g, B)
  <2>1. /\ U \in SUBSET Addresses /\ W \in SUBSET Addresses
        /\ U \ {b} = W /\ b \in U
    BY <1>1, <1>4 DEF Unused
  <2>2. n = 32 + Bytes(h, U)
    BY DEF Kept
  <2> HIDE DEF U, W
  <2>3. Bytes(h, U) = h[b].size + Bytes(h, W)
    <3>1. Bytes(h, U) = h[b].size + Bytes(h, U \ {b})
      BY <1>1, <2>1, BytesFacts
    <3> QED
      BY <2>1, <3>1
  <2>4. Bytes(g, W) = Bytes(h, W) /\ Bytes(h, W) \in Nat
    <3>1. \A x \in W : g[x].size = h[x].size
      BY <1>4, <2>1
    <3> QED
      BY <1>1, <1>3, <2>1, <3>1, BytesFacts
  <2>5. h[b].size \in Nat
    BY <1>1, BlockFacts
  <2>6. n - h[b].size = 32 + Bytes(g, W)
    BY <2>2, <2>3, <2>4, <2>5
  <2> QED
    BY <2>6 DEF W
<1>9. Kept(g, B, L \cup {o}, n - h[b].size, left, m)
  BY <1>3, <1>5, <1>6, <1>7, <1>8 DEF Kept
<1> QED
  BY <1>9 DEF g

(* mem_alloc of the first m bytes of a block. *)
LEMMA SplitKeeps ==
  ASSUME NEW h, NEW B, NEW L, NEW n, NEW stale, NEW mist, Kept(h, B, L, n, stale, mist),
         NEW b \in B, ~ h[b].is_used, NEW m \in Nat, m % 16 = 0, m + 48 <= h[b].size,
         NEW o, o.at = b, o.size \in 1..m
  PROVE  LET new == b + 32 + m
             g == [h EXCEPT ![b] = [@ EXCEPT !.is_used = TRUE, !.size = m, !.next = new],
                            ![new] = [size |-> h[b].size - m - 32, is_used |-> FALSE,
                                      next |-> h[b].next, prev |-> b]]
         IN  Kept(g, B \cup {new}, L \cup {o}, n - 32 - m,
                  stale \cup ({h[b].next} \ {NULL}), mist)
<1> DEFINE new == b + 32 + m
           rest == h[b].size - m - 32
           C == B \cup {new}
           taken == [h[b] EXCEPT !.is_used = TRUE, !.size = m, !.next = new]
           left == [size |-> rest, is_used |-> FALSE, next |-> h[b].next, prev |-> b]
           g == [h EXCEPT ![b] = taken, ![new] = left]
           stale2 == stale \cup ({h[b].next} \ {NULL})
<1>1. B \subseteq Addresses /\ b \in Addresses /\ h \in Headers /\ Sound(h, B)
  BY DEF Kept, Sound
<1>2. /\ b \in Nat /\ b % 16 = 0 /\ h[b].size \in Nat /\ h[b].size % 16 = 0
      /\ End(h, b) = b + 32 + h[b].size /\ \A c \in B : c \in Nat
      /\ End(h, b) <= HEAP_SIZE
  BY <1>1, BlockFacts
<1>3. \A c \in B : b < c => End(h, b) <= c
  BY <1>1, BlockFacts
<1>4. m >= 1 /\ m >= 16
  BY <1>2
<1>5. /\ new \in Nat /\ b < new /\ new % 16 = 0 /\ new < HEAP_SIZE /\ new \in Addresses
      /\ rest \in Nat /\ rest >= 16 /\ rest % 16 = 0 /\ new + 32 + rest = End(h, b)
      /\ new # b /\ new \notin B /\ rest < UIntRange /\ m < UIntRange /\ new < End(h, b)
  <2>1. /\ new \in Nat /\ b < new /\ new % 16 = 0 /\ new < HEAP_SIZE
        /\ rest \in Nat /\ rest >= 16 /\ rest % 16 = 0 /\ new + 32 + rest = End(h, b)
    BY <1>2, HeapFacts
  <2> HIDE DEF new, rest
  <2>2. new \in Addresses
    BY <2>1, HeapFacts DEF Addresses, Align
  <2>3. new < End(h, b)
    BY <2>1
  <2>4. new # b /\ new \notin B
    BY <1>2, <1>3, <2>1, <2>3
  <2>5. rest < UIntRange
    BY <1>2, <2>1, HeapFacts
  <2>6. m < UIntRange
    BY <1>2, HeapFacts
  <2> QED
    BY <2>1, <2>2, <2>3, <2>4, <2>5, <2>6
<1>6. h \in [Addresses -> [size : 0..(UIntRange - 1), is_used : BOOLEAN,
                           next : Pointers, prev : Pointers]]
  BY <1>1 DEF Headers
<1> HIDE DEF new, rest
<1>7. /\ taken \in [size : 0..(UIntRange - 1), is_used : BOOLEAN,
                    next : Pointers, prev : Pointers]
      /\ taken.is_used /\ taken.size = m /\ taken.next = new /\ taken.prev = h[b].prev
  <2>1. m \in 0..(UIntRange - 1) /\ new \in Pointers
    BY <1>5, HeapFacts DEF Pointers
  <2> QED
    BY <1>1, <1>6, <2>1
<1>8. /\ left \in [size : 0..(UIntRange - 1), is_used : BOOLEAN,
                   next : Pointers, prev : Pointers]
      /\ ~ left.is_used /\ left.size = rest /\ left.next = h[b].next /\ left.prev = b
  <2>1. rest \in 0..(UIntRange - 1) /\ b \in Pointers /\ h[b].next \in Pointers
    BY <1>1, <1>5, <1>6, HeapFacts DEF Pointers
  <2> QED
    BY <2>1
<1> HIDE DEF taken, left
<1>9. g \in Headers
  BY <1>1, <1>5, <1>6, <1>7, <1>8 DEF Headers
<1>10. /\ g[b] = taken /\ g[new] = left
       /\ \A d \in Addresses : d # b /\ d # new => g[d] = h[d]
  BY <1>1, <1>5, <1>6
<1> HIDE DEF g
<1>11. /\ End(g, b) = new /\ End(g, new) = End(h, b)
       /\ \A d \in B : d # b => End(g, d) = End(h, d)
  <2>1. End(g, b) = new
    BY <1>7, <1>10 DEF End, new, Header
  <2>2. End(g, new) = End(h, b)
    BY <1>5, <1>8, <1>10 DEF End, Header
  <2>3. ASSUME NEW d \in B, d # b
        PROVE  End(g, d) = End(h, d)
    <3>1. g[d] = h[d]
      BY <1>1, <1>5, <1>10, <2>3
    <3> QED
      BY <3>1 DEF End
  <2> QED
    BY <2>1, <2>2, <2>3
<1>12. Sound(g, C)
  <2>1. C \subseteq Addresses \ {HEAP_SIZE} /\ 0 \in C /\ g[0].prev = NULL
    <3>1. 0 \in B /\ h[0].prev = NULL /\ 0 # new /\ B \subseteq Addresses \ {HEAP_SIZE}
      BY <1>2, <1>5 DEF Sound, Kept
    <3>2. g[0].prev = h[0].prev
      BY <1>1, <1>7, <1>10, <3>1
    <3>3. new # HEAP_SIZE
      BY <1>5, HeapFacts
    <3> QED
      BY <1>1, <1>5, <3>1, <3>2, <3>3
  <2>2. ASSUME NEW d \in C
        PROVE  /\ g[d].size >= 16 /\ g[d].size % 16 = 0
               /\ IF End(g, d) = HEAP_SIZE
                    THEN g[d].next = NULL
                    ELSE End(g, d) \in C /\ g[d].next = End(g, d)
               /\ d # 0 => \E a \in C : End(g, a) = d
    <3>0. \A c \in B : \/ End(h, c) = HEAP_SIZE /\ h[c].next = NULL
                       \/ End(h, c) # HEAP_SIZE /\ End(h, c) \in B /\ h[c].next = End(h, c)
      BY <1>1 DEF Sound
    <3>1. CASE d = new
      <4>1. g[d].size >= 16 /\ g[d].size % 16 = 0
        BY <1>5, <1>8, <1>10, <3>1
      <4>2. g[d].next = h[b].next /\ End(g, d) = End(h, b)
        BY <1>8, <1>10, <1>11, <3>1
      <4>3. b \in C /\ End(g, b) = d
        BY <1>11, <3>1
      <4> QED
        BY <3>0, <4>1, <4>2, <4>3
    <3>2. CASE d = b
      <4>1. g[d].size >= 16 /\ g[d].size % 16 = 0
        BY <1>4, <1>7, <1>10, <3>2
      <4>2. End(g, d) # HEAP_SIZE /\ End(g, d) \in C /\ g[d].next = End(g, d)
        BY <1>5, <1>7, <1>10, <1>11, <3>2, HeapFacts
      <4>3. ASSUME d # 0
            PROVE  \E a \in C : End(g, a) = d
        <5>1. PICK a \in B : a \in Nat /\ a < b /\ End(h, a) = b
          BY <1>1, <3>2, <4>3, PrevFacts
        <5>2. a # b
          BY <1>2, <5>1
        <5> QED
          BY <1>11, <3>2, <5>1, <5>2
      <4> QED
        BY <4>1, <4>2, <4>3
    <3>3. CASE d \in B /\ d # b
      <4>1. g[d] = h[d] /\ End(g, d) = End(h, d)
        BY <1>1, <1>5, <1>10, <1>11, <3>3
      <4>2. h[d].size >= 16 /\ h[d].size % 16 = 0
        BY <1>1, <3>3, BlockFacts
      <4>3. ASSUME d # 0
            PROVE  \E a \in C : End(g, a) = d
        <5>1. PICK a \in B : End(h, a) = d
          BY <1>1, <3>3, <4>3, PrevFacts
        <5>2. CASE a = b
          BY <1>11, <5>1, <5>2
        <5>3. CASE a # b
          BY <1>11, <5>1, <5>3
        <5> QED
          BY <5>2, <5>3
      <4> QED
        BY <3>0, <3>3, <4>1, <4>2, <4>3
    <3> QED
      BY <3>1, <3>2, <3>3
  <2>3. ASSUME NEW d \in C, NEW f \in C, d < f
        PROVE  End(g, d) <= f
    <3>1. CASE d = new
      <4>1. f \in B /\ b < f
        BY <1>2, <1>5, <2>3, <3>1
      <4> QED
        BY <1>3, <1>11, <3>1, <4>1
    <3>2. CASE d = b
      <4>1. f \in B => End(h, b) <= f /\ f \in Nat
        BY <1>2, <1>3, <2>3, <3>2
      <4>2. new <= f
        BY <1>2, <1>5, <4>1
      <4> QED
        BY <1>11, <3>2, <4>2
    <3>3. CASE d \in B /\ d # b
      <4>1. /\ d \in Nat /\ End(h, d) \in Nat /\ End(g, d) = End(h, d)
            /\ \A c \in B : d < c => End(h, d) <= c
        BY <1>1, <1>11, <3>3, BlockFacts
      <4>2. CASE f = new
        <5>1. d < b
          BY <1>2, <1>3, <1>5, <2>3, <3>3, <4>1, <4>2
        <5>2. End(h, d) <= b
          BY <4>1, <5>1
        <5> QED
          BY <1>2, <1>5, <4>1, <4>2, <5>2
      <4>3. CASE f \in B
        BY <2>3, <4>1, <4>3
      <4> QED
        BY <4>2, <4>3
    <3> QED
      BY <3>1, <3>2, <3>3
  <2> HIDE DEF C
  <2> QED
    BY <2>1, <2>2, <2>3 DEF Sound, Align
<1>12a. Told(g, C, stale2)
  <2>1. Told(h, B, stale)
    BY DEF Kept
  <2>2. h[b].next # NULL => h[b].next = End(h, b) /\ End(h, b) \in B /\ End(h, b) # 0
    <3>1. End(h, b) # 0
      BY <1>2
    <3> QED
      BY <1>1, <3>1, NextFacts
  <2>3. stale2 \subseteq C \ {0}
    BY <2>1, <2>2 DEF Told
  <2>4. ASSUME NEW d \in C \ (stale2 \cup {0})
        PROVE  g[d].prev \in C /\ End(g, g[d].prev) = d
    <3>1. CASE d = new
      BY <1>8, <1>10, <1>11, <3>1
    <3>2. CASE d \in B
      <4>1. g[d].prev = h[d].prev
        BY <1>1, <1>5, <1>7, <1>10, <3>2
      <4>2. h[d].prev \in B /\ End(h, h[d].prev) = d
        BY <2>1, <2>4, <3>2 DEF Told
      <4>3. h[d].prev # b
        <5> SUFFICES ASSUME End(h, b) = d
                     PROVE  FALSE
          BY <4>2
        <5>1. h[b].next = d /\ d # NULL
          BY <1>1, <3>2, BlockFacts, NextFacts
        <5> QED
          BY <2>4, <5>1
      <4> QED
        BY <1>11, <4>1, <4>2, <4>3
    <3> QED
      BY <3>1, <3>2
  <2> HIDE DEF C, stale2
  <2> QED
    BY <2>3, <2>4 DEF Told
<1>13. mist = "none" => Uncoalesced(g, C) = {}
  <2> SUFFICES ASSUME mist = "none", NEW d \in Uncoalesced(g, C)
               PROVE  FALSE
    OBVIOUS
  <2>0. \A c \in B : c \in Uncoalesced(h, B) => FALSE
    BY DEF Kept
  <2>1. d \in C /\ ~ g[d].is_used /\ End(g, d) \in C /\ ~ g[End(g, d)].is_used
    BY DEF Uncoalesced
  <2>2. d # b /\ End(g, d) # b
    BY <1>7, <1>10, <2>1
  <2>3. CASE d = new
    <3>1. End(h, b) \in B /\ End(h, b) # b /\ End(h, b) # new /\ ~ g[End(h, b)].is_used
      BY <1>2, <1>5, <1>11, <2>1, <2>2, <2>3
    <3>2. ~ h[End(h, b)].is_used
      BY <1>1, <1>10, <3>1
    <3> QED
      BY <2>0, <3>1, <3>2 DEF Uncoalesced
  <2>4. CASE d \in B
    <3>1. End(g, d) = End(h, d) /\ d # new
      BY <1>5, <1>11, <2>2, <2>4
    <3>2. End(h, d) \in B
      <4>1. End(h, d) = HEAP_SIZE \/ End(h, d) \in B
        BY <1>1, <2>4 DEF Sound
      <4>2. HEAP_SIZE \notin C
        BY <1>12 DEF Sound
      <4> QED
        BY <2>1, <3>1, <4>1, <4>2
    <3>3. ~ h[d].is_used /\ ~ h[End(h, d)].is_used
      BY <1>1, <1>5, <1>10, <2>1, <2>2, <2>4, <3>1, <3>2
    <3> QED
      BY <2>0, <2>4, <3>2, <3>3 DEF Uncoalesced
  <2> QED
    BY <2>1, <2>3, <2>4
<1>14. Owned(g, C, L \cup {o})
  <2>1. \A d \in B : d # b => g[d].is_used = h[d].is_used /\ g[d].size = h[d].size
    BY <1>1, <1>5, <1>10
  <2>2. g[b].is_used /\ o.size \in 1..g[b].size
    BY <1>7, <1>10
  <2>3. Owned(h, B, L) /\ B \subseteq C
    BY DEF Kept
  <2>4. \A d \in C : d \notin B => ~ g[d].is_used
    BY <1>8, <1>10
  <2> HIDE DEF C
  <2> QED
    BY <2>1, <2>2, <2>3, <2>4, OwnerAdded
<1>15. n - 32 - m = 32 + Bytes(g, Unused(g, C))
  <2> DEFINE U == Unused(h, B)
             W == Unused(g, C)
             X == U \ {b}
  <2>1. /\ U \in SUBSET Addresses /\ b \in U
    BY <1>1 DEF Unused
  <2>2. W \in SUBSET Addresses /\ new \in W /\ W \ {new} = X /\ new \notin X /\ b \notin X
    <3>1. \A d \in B : d # b => g[d].is_used = h[d].is_used
      BY <1>1, <1>5, <1>10
    <3>2. g[b].is_used /\ ~ g[new].is_used
      BY <1>7, <1>8, <1>10
    <3> QED
      BY <1>1, <1>5, <3>1, <3>2 DEF Unused
  <2>3. n = 32 + Bytes(h, U)
    BY DEF Kept
  <2> HIDE DEF U, W
  <2>4. Bytes(h, U) = h[b].size + Bytes(h, X)
    BY <1>1, <2>1, BytesFacts
  <2>5. X \in SUBSET Addresses
    BY <2>1
  <2> HIDE DEF X
  <2>6. Bytes(g, W) = g[new].size + Bytes(g, X)
    <3>1. Bytes(g, W) = g[new].size + Bytes(g, W \ {new})
      BY <1>9, <2>2, BytesFacts
    <3> QED
      BY <2>2, <3>1
  <2>7. Bytes(g, X) = Bytes(h, X) /\ Bytes(h, X) \in Nat
    <3>1. \A x \in X : g[x].size = h[x].size
      BY <1>10, <2>2, <2>5
    <3> QED
      BY <1>1, <1>9, <2>5, <3>1, BytesFacts
  <2>8. g[new].size = h[b].size - m - 32
    BY <1>8, <1>10 DEF rest
  <2>9. Bytes(g, W) = (h[b].size - m - 32) + Bytes(h, X)
    BY <2>6, <2>7, <2>8
  <2>10. n = 32 + (h[b].size + Bytes(h, X))
    BY <2>3, <2>4
  <2>11. n - 32 - m = 32 + Bytes(g, W)
    BY <1>2, <2>7, <2>9, <2>10
  <2> QED
    BY <2>11 DEF W
<1> HIDE DEF C
<1>16. Kept(g, C, L \cup {o}, n - 32 - m, stale2, mist)
  <2> HIDE DEF stale2
  <2> QED
    BY <1>9, <1>12, <1>12a, <1>13, <1>14, <1>15 DEF Kept
<1> QED
  BY <1>16 DEF g, C, taken, left, rest, new

(***************************************************************************)
(* The steps.                                                              *)
(***************************************************************************)

LEMMA InitInv == Init => HeapInv
<1> SUFFICES ASSUME Init
             PROVE  HeapInv
  OBVIOUS
<1>1. /\ FirstBlock \in [size : 0..(UIntRange - 1), is_used : BOOLEAN,
                         next : Pointers, prev : Pointers]
      /\ FirstBlock.size = HEAP_SIZE - 32 /\ ~ FirstBlock.is_used
      /\ FirstBlock.next = NULL /\ FirstBlock.prev = NULL
  <2>1. HEAP_SIZE - 32 \in 0..(UIntRange - 1) /\ NULL \in Pointers
    BY HeapFacts DEF Pointers
  <2> QED
    BY <2>1 DEF FirstBlock, Header
<1>2. headers \in Headers /\ headers[0] = FirstBlock
  <2>1. [size |-> 0, is_used |-> FALSE, next |-> NULL, prev |-> NULL]
          \in [size : 0..(UIntRange - 1), is_used : BOOLEAN,
               next : Pointers, prev : Pointers]
    BY HeapFacts DEF Pointers
  <2> QED
    BY <1>1, <2>1, HeapFacts DEF Init, Headers
<1>3. End(headers, 0) = HEAP_SIZE
  BY <1>1, <1>2, HeapFacts DEF End, Header
<1>4. Sound(headers, {0})
  <2>1. HEAP_SIZE - 32 >= 16 /\ (HEAP_SIZE - 32) % 16 = 0
    BY HeapFacts
  <2> QED
    BY <1>1, <1>2, <1>3, <2>1, HeapFacts DEF Sound, Align
<1>5. Uncoalesced(headers, {0}) = {}
  BY <1>3, HeapFacts DEF Uncoalesced
<1>6. Owned(headers, {0}, live)
  BY <1>1, <1>2 DEF Owned, Init
<1>7. available_bytes = 32 + Bytes(headers, Unused(headers, {0}))
  <2>1. Unused(headers, {0}) = {0}
    BY <1>1, <1>2 DEF Unused
  <2>2. {0} \in SUBSET Addresses /\ {} \in SUBSET Addresses
    BY HeapFacts
  <2>3. Bytes(headers, {0}) = headers[0].size + Bytes(headers, {0} \ {0})
    BY <1>2, <2>2, BytesFacts
  <2>4. Bytes(headers, {}) = 0 /\ {0} \ {0} = {}
    BY <1>2, <2>2, BytesFacts
  <2>5. Bytes(headers, {0}) = (HEAP_SIZE - 32) + 0
    BY <1>1, <1>2, <2>3, <2>4
  <2>6. 32 + ((HEAP_SIZE - 32) + 0) = HEAP_SIZE
    BY HeapFacts
  <2> QED
    BY <2>1, <2>5, <2>6 DEF Init
<1>4a. Told(headers, {0}, untold)
  BY DEF Told, Init
<1>8. Kept(headers, {0}, live, available_bytes, untold, mistake)
  BY <1>2, <1>4, <1>4a, <1>5, <1>6, <1>7 DEF Kept
<1>9. Listed = {0} /\ available_bytes \in Nat
  BY <1>8, KeptFacts, ListedFacts
<1>10. TypeOK
  BY <1>2, <1>9 DEF TypeOK, Headers, Init
<1>11. AvailableBytes
  BY <1>7, <1>9 DEF AvailableBytes, Header
<1> QED
  BY <1>4, <1>4a, <1>5, <1>6, <1>9, <1>10, <1>11 DEF HeapInv

LEMMA KeptIsInv ==
  ASSUME NEW B, Kept(headers', B, live', available_bytes', untold', mistake'),
         live' \subseteq [at : Addresses, size : Nat],
         mistake' \in {"none", "apart", "broken"}
  PROVE  HeapInv'
<1>1. Listed' = B /\ available_bytes' \in Nat /\ untold' \subseteq Addresses
  BY KeptFacts, ListedFacts
<1>2. TypeOK'
  BY <1>1 DEF TypeOK, Kept, Headers
<1>3. AvailableBytes'
  <2>1. available_bytes' = 32 + Bytes(headers', Unused(headers', Listed'))
    BY <1>1 DEF Kept
  <2> QED
    BY <2>1 DEF AvailableBytes, Header
<1> QED
  BY <1>1, <1>2, <1>3 DEF HeapInv, Kept

LEMMA AlignedFacts ==
  ASSUME NEW size \in Nat, size > 0
  PROVE  Aligned(size) \in Nat /\ Aligned(size) % 16 = 0 /\ size \in 1..Aligned(size)
<1> DEFINE q == (size + 15) \div 16
<1>1. q \in Nat /\ 16 * q >= size
  OBVIOUS
<1>2. Aligned(size) = 16 * q
  BY DEF Aligned, Align
<1> HIDE DEF q
<1>3. (16 * q) % 16 = 0 /\ 16 * q \in Nat
  BY <1>1
<1> QED
  BY <1>1, <1>2, <1>3

(* A list that is broken keeps the types of its headers, and no more. *)
LEMMA BrokenIsInv ==
  ASSUME TypeOK', mistake' = "broken"
  PROVE  HeapInv'
BY DEF HeapInv, Intact

LEMMA SplitTyped ==
  ASSUME headers \in Headers, NEW b \in Addresses, NEW n \in Nat, n % 16 = 0,
         headers[b].size >= n, b + 32 + headers[b].size <= HEAP_SIZE
  PROVE  Split(b, n) \in Headers /\ Overwritten(b, n) \subseteq Headers
<1> DEFINE new == b + Header + n
           taken == [headers[b] EXCEPT !.is_used = TRUE, !.size = n, !.next = new]
           rest == [size |-> Rest(b, n), is_used |-> FALSE,
                    next |-> headers[b].next, prev |-> b]
           R == [size : 0..(UIntRange - 1), is_used : BOOLEAN,
                 next : Pointers, prev : Pointers]
<1>1. headers \in [Addresses -> R] /\ headers[b] \in R /\ headers[b].size \in Nat
  BY HeapFacts DEF Headers
<1>2. b \in Nat /\ b % 16 = 0 /\ b \in Pointers
  BY DEF Addresses, Align, Pointers
<1>3. new \in Addresses /\ new \in Pointers
  <2>1. new \in Nat /\ new % 16 = 0 /\ new <= HEAP_SIZE
    BY <1>1, <1>2, HeapFacts DEF Header
  <2> QED
    BY <2>1, HeapFacts DEF Addresses, Align, Pointers
<1>4. n \in 0..(UIntRange - 1)
  BY <1>1, <1>2, HeapFacts
<1>5. Rest(b, n) \in 0..(UIntRange - 1)
  <2> DEFINE z == headers[b].size - n - Header
  <2>1. z \in Int
    BY <1>1 DEF Header
  <2> HIDE DEF z
  <2>2. z % UIntRange \in 0..(UIntRange - 1)
    BY <2>1, HeapFacts
  <2> QED
    BY <2>2 DEF Rest, z
<1>6. taken \in R
  BY <1>1, <1>3, <1>4
<1>7. rest \in R
  BY <1>1, <1>2, <1>5
<1>8. Split(b, n) = [headers EXCEPT ![b] = taken, ![new] = rest]
  BY DEF Split
<1> HIDE DEF taken, rest, new
<1>9. Split(b, n) \in [Addresses -> R]
  BY <1>1, <1>6, <1>7, <1>8
<1>10. ASSUME NEW half \in {0, UIntRange - 1}, NEW flag \in BOOLEAN, NEW d
       PROVE  [Split(b, n) EXCEPT ![d] = [@ EXCEPT !.size = half, !.is_used = flag]]
                \in [Addresses -> R]
  <2> DEFINE f == Split(b, n)
             r == [f[d] EXCEPT !.size = half, !.is_used = flag]
  <2>1. [f EXCEPT ![d] = r] \in [Addresses -> R]
    <3>1. CASE d \in Addresses
      <4>1. f[d] \in R /\ half \in 0..(UIntRange - 1)
        BY <1>9, <3>1, HeapFacts
      <4> HIDE DEF f
      <4>2. r \in R
        BY <4>1
      <4> HIDE DEF r
      <4> QED
        BY <1>9, <4>2 DEF f
    <3>2. CASE d \notin Addresses
      <4>1. f \in [Addresses -> R]
        BY <1>9
      <4> HIDE DEF f, r, R
      <4>2. [f EXCEPT ![d] = r] = f
        BY <3>2, <4>1
      <4> QED
        BY <4>1, <4>2
    <3> QED
      BY <3>1, <3>2
  <2> QED
    BY <2>1
<1>11. Overwritten(b, n) \subseteq [Addresses -> R]
  <2>1. CASE headers[b].size = n
    BY <1>9, <2>1 DEF Overwritten
  <2>2. CASE headers[b].size # n
    <3> DEFINE at == b + Header + headers[b].size
               W(half, flag) == [Split(b, n) EXCEPT ![at] =
                                   [@ EXCEPT !.size = half, !.is_used = flag]]
    <3>1. \A half \in {0, UIntRange - 1}, flag \in BOOLEAN : W(half, flag) \in [Addresses -> R]
      BY <1>10
    <3>2. Overwritten(b, n) =
            {W(half, flag) : half \in {0, UIntRange - 1}, flag \in BOOLEAN}
      BY <2>2 DEF Overwritten
    <3> HIDE DEF W, at, R
    <3> QED
      BY <3>1, <3>2
  <2> QED
    BY <2>1, <2>2
<1> QED
  BY <1>9, <1>11 DEF Headers

LEMMA AllocInv ==
  ASSUME HeapInv, Intact, NEW size \in Sizes, Alloc(size)
  PROVE  HeapInv'
<1>1. size \in Nat /\ size > 0
  BY HeapAssumption DEF Alloc
<1> DEFINE n == Aligned(size)
<1>2. n \in Nat /\ n % 16 = 0 /\ size \in 1..n
  BY <1>1, AlignedFacts
<1>3. PICK b \in Listed :
        /\ FirstFit(b, n)
        /\ live' = live \cup {[at |-> b, size |-> size]}
        /\ IF Rest(b, n) >= Align
             THEN /\ available_bytes' = available_bytes - Header - n
                  /\ untold' = untold \cup ({headers[b].next} \ {NULL})
                  /\ IF Tight(b, n)
                       THEN headers' \in Overwritten(b, n) /\ mistake' = "broken"
                       ELSE headers' = Split(b, n) /\ UNCHANGED mistake
             ELSE /\ headers' = [headers EXCEPT ![b].is_used = TRUE]
                  /\ available_bytes' = available_bytes - headers[b].size
                  /\ UNCHANGED <<untold, mistake>>
  BY DEF Alloc
<1> HIDE DEF n
<1> DEFINE o == [at |-> b, size |-> size]
<1>4. Kept(headers, Listed, live, available_bytes, untold, mistake)
  BY InvIsKept
<1>5. /\ ~ headers[b].is_used /\ headers[b].size >= n /\ headers[b].size \in Nat
      /\ b \in Addresses /\ b \in Nat /\ headers[b].size % 16 = 0
      /\ b + 32 + headers[b].size <= HEAP_SIZE
  <2>1. ~ headers[b].is_used /\ headers[b].size >= n
    BY <1>3 DEF FirstFit
  <2>2. headers \in Headers /\ Sound(headers, Listed)
    BY <1>4 DEF Kept
  <2>3. /\ b \in Addresses /\ b \in Nat /\ headers[b].size \in Nat
        /\ headers[b].size % 16 = 0 /\ b + 32 + headers[b].size <= HEAP_SIZE
    <3>1. End(headers, b) = b + 32 + headers[b].size /\ End(headers, b) <= HEAP_SIZE
      BY <2>2, BlockFacts
    <3> QED
      BY <2>2, <3>1, BlockFacts
  <2> QED
    BY <2>1, <2>3
<1>6. /\ o.at = b /\ o.size = size /\ live' = live \cup {o}
      /\ live' \subseteq [at : Addresses, size : Nat]
      /\ mistake \in {"none", "apart", "broken"}
  BY <1>1, <1>3, <1>5 DEF HeapInv, TypeOK
<1> HIDE DEF o
<1>7. CASE ~ (Rest(b, n) >= Align)
  <2>1. /\ headers' = [headers EXCEPT ![b].is_used = TRUE]
        /\ available_bytes' = available_bytes - headers[b].size
        /\ untold' = untold /\ mistake' = mistake
    BY <1>3, <1>7
  <2>2. o.size \in 1..headers[b].size
    BY <1>2, <1>5, <1>6
  <2>3. Kept(headers', Listed, live', available_bytes', untold', mistake')
    BY <1>4, <1>5, <1>6, <2>1, <2>2, TakeKeeps
  <2> QED
    BY <1>6, <2>1, <2>3, KeptIsInv
<1>8. CASE Rest(b, n) >= Align /\ Tight(b, n)
  <2>1. /\ available_bytes' = available_bytes - Header - n
        /\ untold' = untold \cup ({headers[b].next} \ {NULL})
        /\ headers' \in Overwritten(b, n) /\ mistake' = "broken"
    BY <1>3, <1>8
  <2>2. available_bytes' \in Nat
    <3> DEFINE U == Unused(headers, Listed)
    <3>1. U \in SUBSET Addresses /\ b \in U /\ headers \in Headers
      BY <1>4, <1>5 DEF Kept, Sound, Unused
    <3>2. U \ {b} \in SUBSET Addresses
      BY <3>1
    <3>3. available_bytes = 32 + Bytes(headers, U)
      BY <1>4 DEF Kept
    <3> HIDE DEF U
    <3>4. Bytes(headers, U) = headers[b].size + Bytes(headers, U \ {b})
      BY <3>1, BytesFacts
    <3>5. Bytes(headers, U \ {b}) \in Nat
      BY <3>1, <3>2, BytesFacts
    <3> QED
      BY <1>2, <1>5, <2>1, <3>3, <3>4, <3>5 DEF Header
  <2>3. headers' \in Headers
    <3>1. headers \in Headers
      BY <1>4 DEF Kept
    <3> QED
      BY <1>2, <1>5, <2>1, <3>1, SplitTyped
  <2>4. untold' \subseteq Addresses
    <3>1. headers[b].next \in Pointers
      BY <1>4, <1>5 DEF Kept, Headers
    <3>2. untold \subseteq Addresses
      BY DEF HeapInv, TypeOK
    <3> QED
      BY <2>1, <3>1, <3>2 DEF Pointers
  <2>5. TypeOK'
    BY <1>6, <2>1, <2>2, <2>3, <2>4 DEF TypeOK, Headers
  <2> QED
    BY <2>1, <2>5, BrokenIsInv
<1>9. CASE Rest(b, n) >= Align /\ ~ Tight(b, n)
  <2> DEFINE new == b + 32 + n
  <2>1. Rest(b, n) = headers[b].size - n - 32
    <3> DEFINE z == headers[b].size - n - Header
    <3>1. z \in Nat /\ z < UIntRange /\ z = headers[b].size - n - 32
      BY <1>2, <1>5, <1>9, HeapFacts DEF Tight, Header
    <3> HIDE DEF z
    <3>2. z % UIntRange = z
      BY <3>1, HeapFacts
    <3> QED
      BY <3>1, <3>2 DEF Rest, z
  <2>2. n + 48 <= headers[b].size
    BY <1>2, <1>5, <1>9, <2>1 DEF Align
  <2>3. /\ headers' = [headers EXCEPT
               ![b] = [@ EXCEPT !.is_used = TRUE, !.size = n, !.next = new],
               ![new] = [size |-> headers[b].size - n - 32, is_used |-> FALSE,
                         next |-> headers[b].next, prev |-> b]]
        /\ available_bytes' = available_bytes - 32 - n
        /\ untold' = untold \cup ({headers[b].next} \ {NULL}) /\ mistake' = mistake
    BY <1>3, <1>9, <2>1 DEF Header, Split
  <2>4. Kept(headers', Listed \cup {new}, live', available_bytes', untold', mistake')
    BY <1>2, <1>4, <1>5, <1>6, <2>2, <2>3, SplitKeeps
  <2> QED
    BY <1>6, <2>3, <2>4, KeptIsInv
<1> QED
  BY <1>7, <1>8, <1>9

LEMMA MergeTyped ==
  ASSUME NEW h \in Headers, NEW a \in Addresses, NEW c \in Addresses
  PROVE  Merge(h, a, c) \in Headers
<1> DEFINE sum == (h[a].size + Header + h[c].size) % UIntRange
           e == h[c].next
           R == [size : 0..(UIntRange - 1), is_used : BOOLEAN,
                 next : Pointers, prev : Pointers]
           m == [h EXCEPT ![a].size = sum, ![a].next = e]
<1>1. h \in [Addresses -> R] /\ h[a].size \in Nat /\ h[c].size \in Nat /\ e \in Pointers
  BY HeapFacts DEF Headers
<1>2. sum \in 0..(UIntRange - 1)
  <2> DEFINE z == h[a].size + Header + h[c].size
  <2>1. z \in Int
    BY <1>1 DEF Header
  <2> HIDE DEF z
  <2>2. z % UIntRange \in 0..(UIntRange - 1)
    BY <2>1, HeapFacts
  <2> QED
    BY <2>2 DEF z
<1>3. Merge(h, a, c) = IF e = NULL THEN m ELSE [m EXCEPT ![e].prev = a]
  BY DEF Merge
<1> HIDE DEF sum, e
<1>4. m \in [Addresses -> R]
  BY <1>1, <1>2
<1> HIDE DEF m
<1>5. e # NULL => e \in Addresses
  BY <1>1 DEF Pointers
<1>6. e # NULL => [m EXCEPT ![e].prev = a] \in [Addresses -> R]
  BY <1>4, <1>5 DEF Pointers
<1> QED
  BY <1>3, <1>4, <1>6 DEF Headers

LEMMA MemFreeInv ==
  ASSUME HeapInv, Intact, NEW p \in live, MemFree(p)
  PROVE  HeapInv'
<1> DEFINE b  == p.at
           h0 == [headers EXCEPT ![b].is_used = FALSE]
           c  == h0[b].next
           h1 == IF Free(h0, c) THEN Merge(h0, b, c) ELSE h0
           a  == h1[b].prev
<1>1. Kept(headers, Listed, live, available_bytes, untold, mistake)
  BY InvIsKept
<1>2. PICK back \in Finds(h1, a) :
        /\ headers' = IF back THEN Merge(h1, a, b) ELSE h1
        /\ available_bytes' = available_bytes + headers[b].size
                                + (IF Free(h0, c) THEN Header ELSE 0)
                                + (IF back THEN Header ELSE 0)
        /\ untold' = untold \ (Settled(h0, c, Free(h0, c)) \cup Settled(h1, b, back))
        /\ mistake' = Mistake(b, back)
  BY DEF MemFree
<1>3. live' = live \ {p} /\ b \in Listed
  BY DEF MemFree
<1>4. live' \subseteq [at : Addresses, size : Nat] /\ mistake \in {"none", "apart", "broken"}
  BY <1>3 DEF HeapInv, TypeOK
<1>5. h0 \in Headers /\ b \in Addresses /\ headers[b].size \in Nat
  <2>1. b \in Addresses /\ headers \in Headers
    BY <1>1, <1>3 DEF Kept, Sound
  <2>2. headers \in [Addresses -> [size : 0..(UIntRange - 1), is_used : BOOLEAN,
                                  next : Pointers, prev : Pointers]]
    BY <2>1 DEF Headers
  <2> HIDE DEF b
  <2>3. h0 \in Headers
    BY <2>1, <2>2 DEF Headers
  <2> QED
    BY <2>1, <2>3, HeapFacts DEF Headers
<1>6. back \in BOOLEAN /\ back \in FindsIn(Listed, h1, a)
  <2>1. Free(h1, a) \in BOOLEAN
    <3> HIDE DEF h1, a
    <3>1. a \in Pointers /\ h1 \in Headers
      <4>1. h0[b].next \in Pointers
        BY <1>5 DEF Headers
      <4>2. h1 \in Headers
        BY <1>5, <4>1, MergeTyped DEF h1, Free, Pointers
      <4> QED
        BY <1>5, <4>2 DEF a, Headers
    <3> QED
      BY <3>1 DEF Free, Headers, Pointers
  <2> HIDE DEF h1, a
  <2> QED
    BY <2>1 DEF Finds, FindsIn
<1>7. CASE b \in untold /\ back
  <2>1. mistake' = "broken"
    BY <1>2, <1>7 DEF Mistake
  <2>2. h1 \in Headers
    <3>1. h0[b].next \in Pointers
      BY <1>5 DEF Headers
    <3> HIDE DEF h0, b
    <3> QED
      BY <1>5, <3>1, MergeTyped DEF Free, Pointers
  <2> HIDE DEF h1
  <2>3. a \in Addresses
    <3>1. a \in Pointers
      BY <1>5, <2>2 DEF Headers
    <3>2. a # NULL
      <4> SUFFICES ASSUME a = NULL
                   PROVE  FALSE
        OBVIOUS
      <4>1. back = Free(h1, NULL)
        BY <1>6 DEF FindsIn
      <4> QED
        BY <1>7, <4>1 DEF Free
    <3> QED
      BY <3>1, <3>2 DEF Pointers
  <2>4. headers' = Merge(h1, a, b)
    BY <1>2, <1>7
  <2>5. headers' \in Headers
    BY <1>5, <2>2, <2>3, <2>4, MergeTyped
  <2>6. available_bytes' \in Nat
    <3>1. available_bytes \in Nat
      BY DEF HeapInv, TypeOK
    <3> HIDE DEF h0, b, c
    <3> QED
      BY <1>2, <1>5, <3>1 DEF Header
  <2>7. untold' \subseteq Addresses
    BY <1>2 DEF HeapInv, TypeOK
  <2>8. TypeOK'
    BY <1>4, <2>1, <2>5, <2>6, <2>7 DEF TypeOK, Headers
  <2> QED
    BY <2>1, <2>8, BrokenIsInv
<1>8. CASE ~ (b \in untold /\ back)
  <2> DEFINE h2 == Behind(headers, b, back)
             n2 == GivenBack(available_bytes, headers, b, back)
             l2 == StillStale(untold, headers, b, back)
             m2 == IF b \notin untold THEN mistake ELSE "apart"
  <2>1. \E C : Kept(h2, C, live \ {p}, n2, l2, m2)
    <3>1. h1 = Ahead(headers, b)
      BY DEF Released, MergesNext, Ahead
    <3>2. /\ back \in BOOLEAN
          /\ back \in FindsIn(Listed, Ahead(headers, b), Ahead(headers, b)[b].prev)
      <4> HIDE DEF h1
      <4> QED
        BY <1>6, <3>1
    <3> QED
      BY <1>1, <1>8, <3>2, FreeKeeps
  <2>2. mistake' = m2
    BY <1>2, <1>8 DEF Mistake
  <2>3. headers' = h2 /\ available_bytes' = n2 /\ untold' = l2
    BY <1>2 DEF Released, MergesNext, Ahead, Behind, GivenBack, StillStale
  <2> HIDE DEF h2, n2, l2
  <2>4. PICK C : Kept(headers', C, live', available_bytes', untold', mistake')
    BY <1>3, <2>1, <2>2, <2>3
  <2>5. mistake' \in {"none", "apart", "broken"}
    BY <1>4, <2>2
  <2> QED
    BY <1>4, <2>4, <2>5, KeptIsInv
<1> QED
  BY <1>7, <1>8

LEMMA StutterInv ==
  ASSUME HeapInv, UNCHANGED vars
  PROVE  HeapInv'
<1>1. /\ headers' = headers /\ available_bytes' = available_bytes /\ live' = live
      /\ untold' = untold /\ mistake' = mistake
  BY DEF vars
<1>2. Listed' = Listed
  BY <1>1, ListedFacts
<1> QED
  BY <1>1, <1>2 DEF HeapInv, TypeOK, AvailableBytes, Intact

LEMMA Safe == Spec => []HeapInv
<1>1. HeapInv /\ [Next]_vars => HeapInv'
  BY AllocInv, MemFreeInv, StutterInv DEF Next
<1> QED
  BY <1>1, InitInv, PTL DEF Spec

(***************************************************************************)
(* The theorems.                                                           *)
(***************************************************************************)

(* Every header keeps its type and mem_avail stays a number of bytes,      *)
(* whatever is allocated and freed, the step that breaks the list included.*)
THEOREM TypeCorrect == Spec => []TypeOK
<1>1. HeapInv => TypeOK
  BY DEF HeapInv
<1> QED
  BY <1>1, Safe, PTL

LEMMA DisjointFromInv == HeapInv => LiveDisjoint
<1> SUFFICES ASSUME HeapInv, Intact
             PROVE  LiveDisjoint
  BY DEF LiveDisjoint
<1>1. headers \in Headers /\ Sound(headers, Listed)
  BY DEF HeapInv, TypeOK, Headers
<1>2. ASSUME NEW p \in live
      PROVE  /\ p.at \in Listed /\ p.at \in Nat /\ End(headers, p.at) <= HEAP_SIZE
             /\ End(headers, p.at) \in Nat
             /\ \A x \in Extent(p) : x \in Nat /\ p.at <= x /\ x < End(headers, p.at)
  <2>1. p.at \in Listed /\ p.size \in 1..headers[p.at].size
    BY DEF HeapInv, Owned
  <2>2. /\ p.at \in Nat /\ headers[p.at].size \in Nat /\ End(headers, p.at) \in Nat
        /\ End(headers, p.at) = p.at + 32 + headers[p.at].size
        /\ End(headers, p.at) <= HEAP_SIZE
    BY <1>1, <2>1, BlockFacts
  <2>3. ASSUME NEW x \in Extent(p)
        PROVE  x \in Nat /\ p.at <= x /\ x < End(headers, p.at)
    BY <2>1, <2>2 DEF Extent, Header
  <2> QED
    BY <2>1, <2>2, <2>3
<1>3. ASSUME NEW p \in live
      PROVE  Extent(p) \subseteq 0..(HEAP_SIZE - 1)
  <2> SUFFICES ASSUME NEW x \in Extent(p)
               PROVE  x \in 0..(HEAP_SIZE - 1)
    OBVIOUS
  <2>1. x \in Nat /\ x < End(headers, p.at) /\ End(headers, p.at) <= HEAP_SIZE
        /\ End(headers, p.at) \in Nat
    BY <1>2
  <2> QED
    BY <2>1, HeapFacts
<1>4. ASSUME NEW p \in live, NEW q \in live, p # q
      PROVE  Extent(p) \cap Extent(q) = {}
  <2> SUFFICES ASSUME NEW x \in Extent(p), x \in Extent(q)
               PROVE  FALSE
    OBVIOUS
  <2>1. p.at # q.at
    BY <1>4 DEF HeapInv, Owned
  <2>2. /\ p.at \in Listed /\ p.at \in Nat /\ p.at <= x /\ x < End(headers, p.at)
        /\ q.at \in Listed /\ q.at \in Nat /\ q.at <= x /\ x < End(headers, q.at)
        /\ x \in Nat /\ End(headers, p.at) \in Nat /\ End(headers, q.at) \in Nat
    BY <1>2
  <2>3. p.at < q.at => End(headers, p.at) <= q.at
    BY <1>1, <2>2, BlockFacts
  <2>4. q.at < p.at => End(headers, q.at) <= p.at
    BY <1>1, <2>2, BlockFacts
  <2> QED
    BY <2>1, <2>2, <2>3, <2>4
<1>5. ASSUME NEW p \in live, NEW b \in Listed, b # p.at
      PROVE  Extent(p) \cap (b..(b + Header - 1)) = {}
  <2> SUFFICES ASSUME NEW x \in Extent(p), x \in b..(b + Header - 1)
               PROVE  FALSE
    OBVIOUS
  <2>1. /\ p.at \in Listed /\ p.at \in Nat /\ p.at <= x /\ x < End(headers, p.at)
        /\ x \in Nat /\ End(headers, p.at) \in Nat
    BY <1>2
  <2>2. /\ b \in Nat /\ headers[b].size \in Nat
        /\ End(headers, b) = b + 32 + headers[b].size
    BY <1>1, BlockFacts
  <2>3. b <= x /\ x < b + 32
    BY <2>1, <2>2 DEF Header
  <2>4. p.at < b => End(headers, p.at) <= b
    BY <1>1, <2>1, BlockFacts
  <2>5. b < p.at => End(headers, b) <= p.at
    BY <1>1, <2>1, BlockFacts
  <2> QED
    BY <1>5, <2>1, <2>2, <2>3, <2>4, <2>5
<1> QED
  BY <1>3, <1>4, <1>5 DEF LiveDisjoint

(* Until the list is broken no two owners of memory share a byte, none of  *)
(* them shares one with a header, and all are inside the heap.             *)
THEOREM OwnersAreDisjoint == Spec => []LiveDisjoint
BY DisjointFromInv, Safe, PTL

(* Until the list is broken, whatever mem_alloc handed out can be freed:   *)
(* the list leads to it, after a merge that left blocks apart as well.     *)
THEOREM OwnersAreListed == Spec => []LiveKept
<1>1. HeapInv => LiveKept
  BY DEF HeapInv, Owned, LiveListed, LiveKept
<1> QED
  BY <1>1, Safe, PTL

LEMMA NoLeakFromInv == HeapInv => NoLeak
<1> SUFFICES ASSUME HeapInv, mistake = "none", live = {}
             PROVE  headers[0] = FirstBlock /\ available_bytes = HEAP_SIZE
  BY DEF NoLeak
<1>0. Intact
  BY DEF Intact
<1>1. headers \in Headers /\ Sound(headers, Listed)
  BY <1>0 DEF HeapInv, TypeOK, Headers
<1>2. 0 \in Listed /\ headers[0].prev = NULL /\ 0 \in Addresses
  BY <1>1 DEF Sound
<1>3. \A b \in Listed : ~ headers[b].is_used
  BY <1>0 DEF HeapInv, Owned
<1>4. End(headers, 0) \notin Listed
  BY <1>2, <1>3 DEF HeapInv, Uncoalesced
<1>5. End(headers, 0) = HEAP_SIZE /\ headers[0].next = NULL /\ \A c \in Listed : c <= 0
  BY <1>1, <1>2, <1>4, NextFacts
<1>6. /\ End(headers, 0) = 0 + 32 + headers[0].size /\ headers[0].size \in Nat
      /\ \A c \in Listed : c \in Nat
  BY <1>1, <1>2, BlockFacts
<1>7. headers[0].size = HEAP_SIZE - 32
  BY <1>5, <1>6, HeapFacts
<1>8. headers[0] = FirstBlock
  <2>1. headers[0] \in [size : 0..(UIntRange - 1), is_used : BOOLEAN,
                        next : Pointers, prev : Pointers]
    BY <1>1, <1>2 DEF Headers
  <2>2. headers[0].is_used = FALSE
    BY <1>2, <1>3, <2>1
  <2> QED
    BY <1>2, <1>5, <1>7, <2>1, <2>2 DEF FirstBlock, Header
<1>9. Unused(headers, Listed) = {0}
  <2>1. \A c \in Listed : c = 0
    BY <1>5, <1>6
  <2> QED
    BY <1>2, <1>3, <2>1 DEF Unused
<1>10. Bytes(headers, {0}) = HEAP_SIZE - 32
  <2>1. {0} \in SUBSET Addresses /\ {} \in SUBSET Addresses
    BY HeapFacts
  <2>2. Bytes(headers, {0}) = headers[0].size + Bytes(headers, {0} \ {0})
    BY <1>1, <2>1, BytesFacts
  <2>3. Bytes(headers, {}) = 0 /\ {0} \ {0} = {}
    BY <1>1, <2>1, BytesFacts
  <2>4. Bytes(headers, {0}) = headers[0].size + 0
    BY <2>2, <2>3
  <2> QED
    BY <1>6, <1>7, <2>4
<1>11. available_bytes = 32 + (HEAP_SIZE - 32)
  BY <1>0, <1>9, <1>10 DEF HeapInv, AvailableBytes, Header
<1> QED
  BY <1>8, <1>11, HeapFacts

(* Freed blocks come together again: when nothing is handed out the heap   *)
(* is the one block that mem_init made, in whatever order they were freed, *)
(* unless one of them was freed whose prev a split had left behind.        *)
THEOREM NothingLeaks == Spec => []NoLeak
BY NoLeakFromInv, Safe, PTL

(* Until the list is broken mem_avail is the sum of the free blocks, and a *)
(* header more, through every split and merge.                             *)
THEOREM AvailableIsCounted == Spec => []AvailableBytes
<1>1. HeapInv => AvailableBytes
  BY DEF HeapInv, AvailableBytes
<1> QED
  BY <1>1, Safe, PTL
=============================================================================
