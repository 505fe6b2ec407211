----------------------------- MODULE BoundedQueue -----------------------------
(****************************************************************************)
(* What the queue of examples/english/std/fifo.mimz promises at each clock  *)
(* edge: data comes out in the order it went in, a push when full and a pop *)
(* when empty are ignored, both at once are served together, and the three  *)
(* outputs describe the contents.                                           *)
(****************************************************************************)
EXTENDS Integers, Sequences

CONSTANTS Item, Capacity

VARIABLES queue, full, empty, dout

vars == <<queue, full, empty, dout>>

Outputs ==
  /\ full <=> Len(queue) = Capacity
  /\ empty <=> Len(queue) = 0
  /\ queue # <<>> => dout = Head(queue)

Init == queue = <<>> /\ Outputs

Popped == IF empty THEN queue ELSE Tail(queue)

Push == \E x \in Item : queue' = IF full THEN queue ELSE Append(queue, x)

Pop == queue' = Popped

\* The space a pop makes is not yet there for the push of the same edge.
PushPop == \E x \in Item : queue' = IF full THEN Popped ELSE Append(Popped, x)

Keep == queue' = queue

Reset == queue' = <<>>

Next == (Push \/ Pop \/ PushPop \/ Keep \/ Reset) /\ Outputs'

Spec == Init /\ [][Next]_vars
=============================================================================
