---------------------------- MODULE BoundedFifo ----------------------------
(***************************************************************************)
(* What a buffer of messages promises: a first-in first-out sequence of at *)
(* most Capacity items.                                                    *)
(***************************************************************************)
EXTENDS Sequences, Naturals

CONSTANTS Items, Capacity

VARIABLES
  contents,   \* the stored items, oldest first
  out         \* the item the last removal delivered

vars == <<contents, out>>

Init == contents = << >> /\ out \in Items

Put(x) ==
  /\ Len(contents) < Capacity
  /\ contents' = Append(contents, x)
  /\ UNCHANGED out

Get ==
  /\ contents # << >>
  /\ out' = Head(contents)
  /\ contents' = Tail(contents)

Next == Get \/ \E x \in Items : Put(x)

Spec == Init /\ [][Next]_vars
=============================================================================
