----------------------------- MODULE FifoQueue -----------------------------
(***************************************************************************)
(* What a ring buffer promises: elements leave in the order they came.     *)
(***************************************************************************)
EXTENDS Sequences

CONSTANT Elements

VARIABLE queue

Init == queue = <<>>

Push(x) == queue' = Append(queue, x)
Pop == queue # <<>> /\ queue' = Tail(queue)
Empty == queue' = <<>>

Next == (\E x \in Elements : Push(x)) \/ Pop \/ Empty

Spec == Init /\ [][Next]_queue
=============================================================================
