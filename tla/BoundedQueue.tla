---------------------------- MODULE BoundedQueue ----------------------------
(***************************************************************************)
(* What the ring buffer promises its users: a first-in first-out queue of  *)
(* at most Capacity items, that one call empties.  Putting and taking are  *)
(* atomic here; RingBuffer, whose calls are not, implements this module.   *)
(***************************************************************************)
EXTENDS Integers, Sequences

CONSTANTS Items, Capacity

VARIABLE queue

Init == queue = <<>>

Put(x) == Len(queue) < Capacity /\ queue' = Append(queue, x)

Take == queue # <<>> /\ queue' = Tail(queue)

Clear == queue' = <<>>

Next == (\E x \in Items : Put(x)) \/ Take \/ Clear

Spec == Init /\ [][Next]_queue
=============================================================================
