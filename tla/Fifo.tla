--------------------------------- MODULE Fifo ---------------------------------
(****************************************************************************)
(* The ring buffer of the standard library, examples/english/std/fifo.mimz. *)
(* One action is one edge of its clock, atomic as module Kernel shows: the  *)
(* right-hand sides read the registers as they were before the edge.        *)
(****************************************************************************)
EXTENDS Integers, Sequences, ConstEval

CONSTANTS
  Item,          \* bits[WIDTH]
  DEPTH,         \* the cells of the ring
  PtrWords,      \* values of bits[clog2(DEPTH)]
  CountWords     \* values of bits[clog2(DEPTH) + 1]

ASSUME FifoAssumption ==
  /\ DEPTH \in Nat \ {0} /\ PtrWords \in Nat /\ CountWords \in Nat
  /\ DEPTH <= PtrWords /\ DEPTH < CountWords

\* The widths the module declares.
ClogPtrWords == WordsOf(Clog2(DEPTH))
ClogCountWords == WordsOf(Clog2(DEPTH) + 1)

Cells == 0..(DEPTH - 1)

VARIABLES data, head, tail, count

regs == <<head, tail, count>>
vars == <<data, regs>>

Init ==
  /\ \E zero \in Item : data = [c \in Cells |-> zero]
  /\ head = 0 /\ tail = 0 /\ count = 0

\* Fault: the pointers wrap one cell too late.
NextCellLate(p) == IF p = DEPTH THEN 0 ELSE (p + 1) % PtrWords

NextCell(p) == IF p = DEPTH - 1 THEN 0 ELSE (p + 1) % PtrWords

Pops(pop) == pop /\ count # 0

\* Fault: a push with a pop at the same edge counts as a push.
CountAfterPushAlone(pop) == (count + 1) % CountWords

CountAfterPush(pop) == IF Pops(pop) THEN count ELSE (count + 1) % CountWords

Advance(pop) == head' = IF Pops(pop) THEN NextCell(head) ELSE head

Enqueue(din, pop) ==
  /\ count # DEPTH
  /\ data' = [data EXCEPT ![tail] = din] /\ tail' = NextCell(tail)
  /\ Advance(pop) /\ count' = CountAfterPush(pop)

\* Neither input is high, or only a pop, or a push the queue has no room for.
NoEnqueue(push, pop) ==
  /\ push => count = DEPTH
  /\ Advance(pop)
  /\ count' = IF Pops(pop) THEN (count - 1) % CountWords ELSE count
  /\ UNCHANGED <<data, tail>>

Edge ==
  \E pop \in BOOLEAN :
    \/ \E din \in Item : Enqueue(din, pop)
    \/ \E push \in BOOLEAN : NoEnqueue(push, pop)

\* A reset edge: the registers return to their reset values, a mem keeps its cells.
ResetEdge == head' = 0 /\ tail' = 0 /\ count' = 0 /\ UNCHANGED data

Next == Edge \/ ResetEdge

Spec == Init /\ [][Next]_vars
-----------------------------------------------------------------------------
\* The i-th cell from p on, around the ring.
Ahead(p, i) == IF p + i < DEPTH THEN p + i ELSE p + i - DEPTH

\* Type invariant.  The pointers address cells that exist, and the tail is where
\* the contents end.
TypeOK ==
  /\ data \in [Cells -> Item] /\ head \in Cells /\ tail \in Cells
  /\ count \in 0..DEPTH
  /\ tail = Ahead(head, count)

Contents == [i \in 1..count |-> data[Ahead(head, i - 1)]]

Queue == INSTANCE BoundedQueue WITH
  Capacity <- DEPTH, queue <- Contents,
  full <- (count = DEPTH), empty <- (count = 0), dout <- data[head]

\* The ring is the queue its header comment describes: order kept, nothing lost
\* or repeated, an impossible push or pop ignored, for any depth.
QueueSpec == Queue!Spec
=============================================================================
