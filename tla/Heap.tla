-------------------------------- MODULE Heap --------------------------------
(***************************************************************************)
(* kernel/memory.c: first-fit allocation over headers that live in the     *)
(* heap itself, in front of the bytes they describe.  An address is an     *)
(* offset into the heap, a call is one step, and a pointer handed out is   *)
(* named by the address of its header.                                     *)
(*                                                                         *)
(* The code breaks its own list in two ways: a fit that leaves less than a *)
(* header passes the test for a split and writes the new header over the   *)
(* next one, and a split of a block that has a successor leaves the        *)
(* successor's prev at the wrong block, through which mem_free may merge.  *)
(* `untold' and `mistake' are a history of it.  What a broken list leads   *)
(* to is written and read as headers by one and as data by another: the    *)
(* model goes no further than the step that breaks it.                     *)
(***************************************************************************)
EXTENDS Integers, FiniteSets, FiniteSetsExt

CONSTANTS NULL,
          HEAP_SIZE,     \* in bytes, a multiple of 16
          UIntRange,     \* 2 to the width of an unsigned int
          Sizes,         \* arguments of mem_alloc
          TightFits      \* may a fit leave less than a header over?

Header == 32             \* sizeof(block_header)
Align  == 16

ASSUME HeapAssumption ==
  /\ NULL \notin Nat
  /\ HEAP_SIZE \in Nat /\ HEAP_SIZE % Align = 0 /\ HEAP_SIZE >= Header + Align
  /\ UIntRange \in Nat /\ UIntRange > HEAP_SIZE
  /\ Sizes \subseteq Nat
  /\ TightFits \in BOOLEAN

VARIABLES
  headers,           \* the header read at each address
  available_bytes,
  live,              \* history: blocks handed out and not freed, with the
                     \* bytes their owner may use
  untold,            \* history: blocks whose prev a split has left behind
  mistake            \* history: "none"; "apart", one of them was freed; "broken",
                     \* so is the list

vars == <<headers, available_bytes, live, untold, mistake>>

(* Where a header may be written: the first byte behind the heap included. *)
Addresses == {a \in 0..HEAP_SIZE : a % Align = 0}
Pointers  == Addresses \cup {NULL}

TypeOK ==
  /\ headers \in [Addresses -> [size : 0..(UIntRange - 1), is_used : BOOLEAN,
                                next : Pointers, prev : Pointers]]
  /\ available_bytes \in Nat
  /\ live \subseteq [at : Addresses, size : Nat]
  /\ untold \subseteq Addresses
  /\ mistake \in {"none", "apart", "broken"}

FirstBlock == [size |-> HEAP_SIZE - Header, is_used |-> FALSE, next |-> NULL, prev |-> NULL]

(* mem_init; the array is static, so the rest of it is 0. *)
Init ==
  /\ headers = [a \in Addresses |->
                  IF a = 0 THEN FirstBlock
                  ELSE [size |-> 0, is_used |-> FALSE, next |-> NULL, prev |-> NULL]]
  /\ available_bytes = HEAP_SIZE
  /\ live = {}
  /\ untold = {}
  /\ mistake = "none"

MaxBlocks == HEAP_SIZE \div (Header + Align)

(* The blocks in the order the list leads to them, NULL after the last. *)
Chain ==
  LET c[k \in 0..MaxBlocks] ==
        IF k = 0 THEN 0 ELSE IF c[k - 1] = NULL THEN NULL ELSE headers[c[k - 1]].next
  IN  c

Listed == {Chain[k] : k \in 0..MaxBlocks} \ {NULL}

(* Mutant: the size is not rounded up. *)
Unaligned(size) == size

(* ((size - 1) | 15) + 1 *)
Aligned(size) == ((size + Align - 1) \div Align) * Align

(* Mutant: a block in use is taken as well. *)
FirstLarge(b, n) ==
  \E k \in 0..MaxBlocks :
    /\ b # NULL /\ b = Chain[k] /\ headers[b].size >= n
    /\ \A j \in 0..(k - 1) : headers[Chain[j]].size < n

(* Block b is the first free one that is large enough. *)
FirstFit(b, n) ==
  LET fits(k) == Chain[k] # NULL /\ ~ headers[Chain[k]].is_used /\ headers[Chain[k]].size >= n
  IN  \E k \in 0..MaxBlocks : /\ b = Chain[k]
                              /\ fits(k)
                              /\ \A j \in 0..(k - 1) : ~ fits(j)

(* What a split would leave to the new block, in unsigned arithmetic. *)
Rest(b, n) == (headers[b].size - n - Header) % UIntRange

(* The list after a split of block b; its successor's prev stays at b. *)
Split(b, n) ==
  LET new == b + Header + n
  IN  [headers EXCEPT
         ![b] = [@ EXCEPT !.is_used = TRUE, !.size = n, !.next = new],
         ![new] = [size |-> Rest(b, n), is_used |-> FALSE,
                   next |-> headers[b].next, prev |-> b]]

(* A fit that leaves less than a header. *)
Tight(b, n) == headers[b].size - n < Header

(* The new header covers the next one, or its first half: a pointer's two  *)
(* halves are then read as a size and as a flag.                           *)
Overwritten(b, n) ==
  IF headers[b].size = n
    THEN {Split(b, n)}
    ELSE {[Split(b, n) EXCEPT ![b + Header + headers[b].size] =
             [@ EXCEPT !.size = half, !.is_used = flag]] :
            half \in {0, UIntRange - 1}, flag \in BOOLEAN}

(* mem_alloc returns a block; a call that returns NULL changes nothing. *)
Alloc(size) ==
  /\ size > 0
  /\ available_bytes >= size
  /\ \E b \in Listed :
       LET n == Aligned(size)
       IN  /\ FirstFit(b, n)
           /\ Tight(b, n) => TightFits
           /\ live' = live \cup {[at |-> b, size |-> size]}
           /\ IF Rest(b, n) >= Align
                THEN /\ available_bytes' = available_bytes - Header - n
                     /\ untold' = untold \cup ({headers[b].next} \ {NULL})
                     /\ IF Tight(b, n)
                          THEN headers' \in Overwritten(b, n) /\ mistake' = "broken"
                          ELSE headers' = Split(b, n) /\ UNCHANGED mistake
                ELSE /\ headers' = [headers EXCEPT ![b].is_used = TRUE]
                     /\ available_bytes' = available_bytes - headers[b].size
                     /\ UNCHANGED <<untold, mistake>>

(* Mutant: the block after the merged ones is not told. *)
MergeKeepsPrev(h, a, b) ==
  [h EXCEPT ![a].size = (@ + Header + h[b].size) % UIntRange, ![a].next = h[b].next]

(* Block b becomes part of block a, in the headers h. *)
Merge(h, a, b) ==
  LET m == [h EXCEPT ![a].size = (@ + Header + h[b].size) % UIntRange,
                     ![a].next = h[b].next]
  IN  IF h[b].next = NULL THEN m ELSE [m EXCEPT ![h[b].next].prev = a]

(* Mutant: the neighbour may be in use. *)
Present(h, p) == p # NULL

(* There is a block at p, and it is not in use. *)
Free(h, p) == p # NULL /\ ~ h[p].is_used

(* Whether mem_free finds a free block at p: where there is no block any   *)
(* more, the flag it reads is somebody's data.                             *)
Finds(h, p) == IF p \in Listed \cup {NULL} THEN {Free(h, p)} ELSE BOOLEAN

(* What a merge, or its absence, of block b into its prev makes of the list. *)
Mistake(b, back) == IF b \notin untold THEN mistake ELSE IF back THEN "broken" ELSE "apart"

(* A merge of block b takes it away and corrects the prev of the next one. *)
Settled(h, b, merged) == IF merged THEN {b, h[b].next} ELSE {}

(* Mutant: a merge does not give the bytes of a header back. *)
FreeForgetsHeaders(p) ==
  /\ p \in live
  /\ available_bytes < HEAP_SIZE /\ p.at \in Listed /\ headers[p.at].is_used
  /\ LET b    == p.at
         h0   == [headers EXCEPT ![b].is_used = FALSE]
         next == h0[b].next
         h1   == IF Free(h0, next) THEN Merge(h0, b, next) ELSE h0
     IN  \E back \in Finds(h1, h1[b].prev) :
           /\ headers' = IF back THEN Merge(h1, h1[b].prev, b) ELSE h1
           /\ untold' = untold \ (Settled(h0, next, Free(h0, next)) \cup Settled(h1, b, back))
           /\ mistake' = Mistake(b, back)
  /\ available_bytes' = available_bytes + headers[p.at].size
  /\ live' = live \ {p}

(* mem_free of a pointer that is live for its owner: the block is merged   *)
(* with the free ones around it.  A pointer the list does not lead to is   *)
(* refused.                                                                *)
MemFree(p) ==
  /\ p \in live
  /\ available_bytes < HEAP_SIZE /\ p.at \in Listed /\ headers[p.at].is_used
  /\ LET b    == p.at
         h0   == [headers EXCEPT ![b].is_used = FALSE]
         next == h0[b].next
         h1   == IF Free(h0, next) THEN Merge(h0, b, next) ELSE h0
     IN  \E back \in Finds(h1, h1[b].prev) :
           /\ headers' = IF back THEN Merge(h1, h1[b].prev, b) ELSE h1
           /\ available_bytes' = available_bytes + headers[b].size
                                   + (IF Free(h0, next) THEN Header ELSE 0)
                                   + (IF back THEN Header ELSE 0)
           /\ untold' = untold \ (Settled(h0, next, Free(h0, next)) \cup Settled(h1, b, back))
           /\ mistake' = Mistake(b, back)
  /\ live' = live \ {p}

(* Neither of the two ways to break the list has been taken. *)
Intact == mistake # "broken"

(* The last step stands for whatever a program on a broken heap does. *)
Next ==
  \/ Intact /\ \E size \in Sizes : Alloc(size)
  \/ Intact /\ \E p \in live : MemFree(p)
  \/ ~ Intact /\ UNCHANGED vars

Spec == Init /\ [][Next]_vars

(***************************************************************************)
(* Correctness.                                                            *)
(***************************************************************************)

(* The bytes of a block and of its header. *)
Extent(p) == p.at..(p.at + Header + p.size - 1)

(* No two owners share a byte, no owner shares one with a header, and all  *)
(* of them are inside the heap, until the list is broken.                  *)
LiveDisjoint ==
  Intact =>
    /\ \A p \in live : Extent(p) \subseteq 0..(HEAP_SIZE - 1)
    /\ \A p, q \in live : p # q => Extent(p) \cap Extent(q) = {}
    /\ \A p \in live, b \in Listed :
         b # p.at => Extent(p) \cap (b..(b + Header - 1)) = {}

(* "libera um bloco de memoria previamente alocado" (memory.h): the list   *)
(* leads to every block that was handed out, so that mem_free takes it.    *)
LiveListed == \A p \in live : p.at \in Listed /\ headers[p.at].is_used

(* So it does until one of the two mistakes breaks it.                     *)
LiveKept == Intact => LiveListed

(* Freed blocks come together again: when nothing is handed out the heap   *)
(* is the one block mem_init made, unless one was freed whose prev a split *)
(* had left behind.                                                        *)
NoLeak ==
  mistake = "none" /\ live = {} => headers[0] = FirstBlock /\ available_bytes = HEAP_SIZE

Bytes(h, blocks)  == MapThenSumSet(LAMBDA b : h[b].size, blocks)
Unused(h, blocks) == {b \in blocks : ~ h[b].is_used}

(* mem_avail: the bytes of the free blocks and, because mem_init does not  *)
(* count it, one header more.                                              *)
AvailableBytes ==
  Intact => available_bytes = Header + Bytes(headers, Unused(headers, Listed))

(***************************************************************************)
(* The inductive invariant.                                                *)
(***************************************************************************)

(* The byte after block b, in the headers h. *)
End(h, b) == b + Header + h[b].size

(* The blocks lie one after the other from the first byte of the heap to   *)
(* the last, and each leads to the next.                                   *)
Sound(h, blocks) ==
  /\ blocks \subseteq Addresses \ {HEAP_SIZE} /\ 0 \in blocks /\ h[0].prev = NULL
  /\ \A b \in blocks :
       /\ h[b].size >= Align /\ h[b].size % Align = 0
       /\ IF End(h, b) = HEAP_SIZE
            THEN h[b].next = NULL
            ELSE End(h, b) \in blocks /\ h[b].next = End(h, b)
       /\ b # 0 => \E a \in blocks : End(h, a) = b
  /\ \A b, c \in blocks : b < c => End(h, b) <= c

(* The free blocks with a free one behind them: mem_free leaves none where *)
(* no block is freed through a stale prev.                                 *)
Uncoalesced(h, blocks) ==
  {b \in blocks : ~ h[b].is_used /\ End(h, b) \in blocks /\ ~ h[End(h, b)].is_used}

(* Each block but the first names the one before it, where no split has    *)
(* come between them.                                                      *)
Told(h, blocks, left) ==
  /\ left \subseteq blocks \ {0}
  /\ \A b \in blocks \ (left \cup {0}) : h[b].prev \in blocks /\ End(h, h[b].prev) = b

(* Each block in use has the one owner that mem_alloc gave it. *)
Owned(h, blocks, owners) ==
  /\ \A p \in owners : /\ p.at \in blocks /\ h[p.at].is_used
                       /\ p.size \in 1..h[p.at].size
  /\ \A p, q \in owners : p.at = q.at => p = q
  /\ \A b \in blocks : h[b].is_used => \E p \in owners : p.at = b

HeapInv ==
  /\ TypeOK
  /\ Intact => /\ Sound(headers, Listed)
               /\ Told(headers, Listed, untold)
               /\ Owned(headers, Listed, live)
               /\ AvailableBytes
  /\ mistake = "none" => Uncoalesced(headers, Listed) = {}
=============================================================================
