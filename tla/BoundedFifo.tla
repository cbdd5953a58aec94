----------------------------- MODULE BoundedFifo -----------------------------
(***************************************************************************)
(* What the blocking queue provides while it is not overfilled: at most    *)
(* QUEUE_CAPACITY blocks, first in first out.  Push waits while it is full *)
(* and peek while it is empty; peek returns the first block and leaves it. *)
(***************************************************************************)
EXTENDS Naturals, Sequences

CONSTANTS Blocks, QUEUE_CAPACITY, NoBlock

VARIABLES
  q,     \* the blocks in the queue, oldest first
  seen   \* what the consumer's last peek returned

Init == q = <<>> /\ seen = NoBlock

Push(b) ==
  /\ Len(q) < QUEUE_CAPACITY
  /\ q' = Append(q, b)
  /\ UNCHANGED seen

Peek ==
  /\ q # <<>>
  /\ seen' = Head(q)
  /\ UNCHANGED q

Pop ==
  /\ q # <<>>
  /\ q' = Tail(q)
  /\ UNCHANGED seen

Next == (\E b \in Blocks : Push(b)) \/ Peek \/ Pop

Spec == Init /\ [][Next]_<<q, seen>>
=============================================================================
