------------------------------ MODULE FifoQueue ------------------------------
(* What buffer_queue promises: a first-in first-out queue.                  *)
EXTENDS Sequences

CONSTANT Value

VARIABLE items

QInit == items = <<>>

Push(v) == items' = Append(items, v)

Pop ==
  /\ items # <<>>
  /\ items' = Tail(items)

Clear == items' = <<>>

QNext == Pop \/ Clear \/ \E v \in Value : Push(v)

QSpec == QInit /\ [][QNext]_items
==============================================================================
