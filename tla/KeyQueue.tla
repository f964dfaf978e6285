------------------------------ MODULE KeyQueue ------------------------------
(***************************************************************************)
(* What the keyboard driver promises its readers: a queue of at most       *)
(* Capacity characters that loses a character only when it is full.        *)
(***************************************************************************)
EXTENDS Naturals, Sequences

CONSTANTS Capacity, Chars

VARIABLE queue

Init == queue = <<>>

Push(c) == queue' = IF Len(queue) < Capacity THEN Append(queue, c) ELSE queue

Pop == queue # <<>> /\ queue' = Tail(queue)

Next == Pop \/ \E c \in Chars : Push(c)

Spec == Init /\ [][Next]_queue
=============================================================================
