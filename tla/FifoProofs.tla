------------------------------ MODULE FifoProofs ------------------------------
(****************************************************************************)
(* The ring of fifo.mimz is a bounded queue for every depth and data width. *)
(* The invariant is TypeOK itself: its last conjunct, tail = head + count   *)
(* around the ring, makes the cell a push writes the one past the contents. *)
(****************************************************************************)
EXTENDS Fifo, SequenceTheorems, TLAPS

\* Around the ring, one cell on from the i-th is the (i+1)-th.
LEMMA AheadNext ==
  ASSUME NEW p \in Cells, NEW i \in 0..(DEPTH - 1)
  PROVE  /\ Ahead(p, i) \in Cells
         /\ NextCell(Ahead(p, i)) = Ahead(p, i + 1)
         /\ NextCell(p) \in Cells
         /\ Ahead(NextCell(p), i) = Ahead(p, i + 1)
<1>1. Ahead(p, i) \in Cells BY FifoAssumption DEF Cells, Ahead
<1>2. \A q \in Cells : NextCell(q) = IF q = DEPTH - 1 THEN 0 ELSE q + 1
  <2> SUFFICES ASSUME NEW q \in Cells PROVE NextCell(q) = IF q = DEPTH - 1 THEN 0 ELSE q + 1
    OBVIOUS
  <2>1. q # DEPTH - 1 => q + 1 \in 0..(PtrWords - 1) BY FifoAssumption DEF Cells
  <2>2. q # DEPTH - 1 => (q + 1) % PtrWords = q + 1 BY <2>1, FifoAssumption
  <2> QED BY <2>2 DEF NextCell
<1> QED BY <1>1, <1>2, FifoAssumption DEF Cells, Ahead

\* No two of DEPTH consecutive cells coincide, so a push spares the contents.
LEMMA AheadDistinct ==
  ASSUME NEW p \in Cells, NEW i \in 0..(DEPTH - 1), NEW j \in 0..(DEPTH - 1), i # j
  PROVE  Ahead(p, i) # Ahead(p, j)
BY FifoAssumption DEF Cells, Ahead

ContentsFit == Contents \in Seq(Item) /\ Len(Contents) = count

\* The cells from head on, as many as count says, are a sequence of items.
LEMMA ContentsSeq == ASSUME TypeOK PROVE ContentsFit
<1>1. \A i \in 1..count : data[Ahead(head, i - 1)] \in Item
  <2> SUFFICES ASSUME NEW i \in 1..count PROVE data[Ahead(head, i - 1)] \in Item OBVIOUS
  <2>1. i - 1 \in 0..(DEPTH - 1) BY FifoAssumption DEF TypeOK
  <2> QED BY <2>1, AheadNext DEF TypeOK
<1>2. Contents \in [1..count -> Item] BY <1>1 DEF Contents
<1>3. count \in Nat BY FifoAssumption DEF TypeOK
<1> QED BY <1>2, <1>3, FifoAssumption DEF Contents, ContentsFit

\* A count of at most DEPTH is not truncated by the register that holds it.
LEMMA CountFits ==
  ASSUME NEW n \in Nat, n <= DEPTH PROVE n % CountWords = n
<1>1. n \in 0..(CountWords - 1) BY FifoAssumption
<1> QED BY <1>1, FifoAssumption

\* What a push writes, and what it leaves alone, whatever pops with it.
LEMMA EnqueueEffect ==
  ASSUME TypeOK, NEW din \in Item, NEW pop \in BOOLEAN, Enqueue(din, pop)
  PROVE  /\ count \in 0..(DEPTH - 1)
         /\ head' = (IF Pops(pop) THEN NextCell(head) ELSE head)
         /\ count' = (IF Pops(pop) THEN count ELSE count + 1)
         /\ data' \in [Cells -> Item]
         /\ data'[Ahead(head, count)] = din
         /\ \A i \in 0..(count - 1) : data'[Ahead(head, i)] = data[Ahead(head, i)]
         /\ tail' = Ahead(head, count + 1)
<1>1. count \in 0..(DEPTH - 1) /\ tail = Ahead(head, count) /\ head \in Cells /\ tail \in Cells
  BY FifoAssumption DEF TypeOK, Enqueue
<1>2. (count + 1) % CountWords = count + 1 BY <1>1, CountFits, FifoAssumption
<1>3. data' = [data EXCEPT ![Ahead(head, count)] = din] /\ Ahead(head, count) \in Cells
  BY <1>1 DEF Enqueue
<1>4. \A i \in 0..(count - 1) : Ahead(head, i) \in Cells /\ Ahead(head, i) # Ahead(head, count)
  <2> SUFFICES ASSUME NEW i \in 0..(count - 1)
               PROVE Ahead(head, i) \in Cells /\ Ahead(head, i) # Ahead(head, count)
    OBVIOUS
  <2>1. i \in 0..(DEPTH - 1) /\ i # count BY <1>1, FifoAssumption
  <2> QED BY <1>1, <2>1, AheadNext, AheadDistinct
<1>5. tail' = Ahead(head, count + 1) BY <1>1, AheadNext DEF Enqueue
<1>6. data \in [Cells -> Item] BY DEF TypeOK
<1> QED BY <1>1, <1>2, <1>3, <1>4, <1>5, <1>6 DEF Enqueue, Advance, CountAfterPush

\* An edge that stores nothing moves head and count only, as `pop` says.
LEMMA NoEnqueueEffect ==
  ASSUME TypeOK, NEW push \in BOOLEAN, NEW pop \in BOOLEAN, NoEnqueue(push, pop)
  PROVE  /\ head' = (IF Pops(pop) THEN NextCell(head) ELSE head)
         /\ count' = (IF Pops(pop) THEN count - 1 ELSE count)
         /\ UNCHANGED <<data, tail>>
<1>1. count \in 0..DEPTH BY DEF TypeOK
<1>2. Pops(pop) => count - 1 \in Nat /\ count - 1 <= DEPTH
  BY <1>1, FifoAssumption DEF Pops
<1>3. Pops(pop) => (count - 1) % CountWords = count - 1 BY <1>2, CountFits
<1> QED BY <1>3 DEF NoEnqueue, Advance

\* The pointers are well placed at power-up.
LEMMA InitHolds == Init => TypeOK
BY FifoAssumption DEF Init, TypeOK, Cells, Ahead

\* Every edge keeps the pointers well placed.
LEMMA StepHolds == ASSUME TypeOK, [Next]_vars PROVE TypeOK'
<1>0. head \in Cells /\ tail \in Cells /\ count \in 0..DEPTH /\ tail = Ahead(head, count)
  BY DEF TypeOK
<1>1. ASSUME NEW din \in Item, NEW pop \in BOOLEAN, Enqueue(din, pop) PROVE TypeOK'
  <2>1. PICK c \in 0..(DEPTH - 1) : c = count BY <1>1, EnqueueEffect
  <2>2. NextCell(head) \in Cells /\ Ahead(NextCell(head), count) = Ahead(head, count + 1)
        /\ NextCell(tail) \in Cells /\ NextCell(tail) = Ahead(head, count + 1)
    BY <1>0, <2>1, AheadNext
  <2>3. /\ head' = (IF Pops(pop) THEN NextCell(head) ELSE head)
        /\ count' = (IF Pops(pop) THEN count ELSE count + 1)
        /\ data' \in [Cells -> Item]
        /\ tail' = Ahead(head, count + 1)
    BY <1>1, EnqueueEffect
  <2>4. tail' = Ahead(head', count') BY <2>2, <2>3
  <2>5. head' \in Cells /\ tail' \in Cells BY <1>0, <2>2, <2>3
  <2>6. count' \in 0..DEPTH BY <2>1, <2>3, FifoAssumption
  <2> QED BY <2>3, <2>4, <2>5, <2>6 DEF TypeOK, Ahead
<1>2. ASSUME NEW push \in BOOLEAN, NEW pop \in BOOLEAN, NoEnqueue(push, pop) PROVE TypeOK'
  <2>1. /\ head' = (IF Pops(pop) THEN NextCell(head) ELSE head)
        /\ count' = (IF Pops(pop) THEN count - 1 ELSE count)
        /\ UNCHANGED <<data, tail>>
    BY <1>2, NoEnqueueEffect
  <2>2. CASE Pops(pop)
    <3>1. count - 1 \in 0..(DEPTH - 1) BY <1>0, <2>2, FifoAssumption DEF Pops
    <3>2. NextCell(head) \in Cells /\ Ahead(NextCell(head), count - 1) = Ahead(head, count)
      BY <1>0, <3>1, AheadNext
    <3> QED BY <1>0, <2>1, <2>2, <3>1, <3>2, FifoAssumption DEF TypeOK, Ahead
  <2>3. CASE ~Pops(pop)
    BY <2>1, <2>3 DEF TypeOK, Ahead
  <2> QED BY <2>2, <2>3
<1>3. CASE ResetEdge
  BY <1>3, FifoAssumption DEF ResetEdge, TypeOK, Cells, Ahead
<1>4. CASE UNCHANGED vars
  BY <1>4 DEF vars, regs, TypeOK, Ahead
<1> QED BY <1>1, <1>2, <1>3, <1>4 DEF Next, Edge

\* For every depth and width the pointers stay in the ring, the count within the
\* depth, and the tail where the contents end (examples/english/std/fifo.mimz).
THEOREM FifoTyped == Spec => []TypeOK
BY InitHolds, StepHolds, PTL DEF Spec

\* The outputs describe the contents.
LEMMA OutputsHold == TypeOK => Queue!Outputs
<1> SUFFICES ASSUME TypeOK PROVE Queue!Outputs OBVIOUS
<1>1. Contents \in Seq(Item) /\ Len(Contents) = count BY ContentsSeq DEF ContentsFit
<1>2. head \in Cells /\ count \in 0..DEPTH BY DEF TypeOK
<1>3. ASSUME Contents # <<>> PROVE data[head] = Head(Contents)
  <2>1. count \in 1..DEPTH BY <1>1, <1>2, <1>3, EmptySeq, FifoAssumption
  <2>2. Contents[1] = data[Ahead(head, 0)] BY <2>1, FifoAssumption DEF Contents
  <2>3. Ahead(head, 0) = head BY <1>2, FifoAssumption DEF Ahead, Cells
  <2>4. Head(Contents) = Contents[1] BY <1>1, <1>3
  <2> QED BY <2>2, <2>3, <2>4
<1> QED BY <1>1, <1>3 DEF Queue!Outputs

\* An element of the contents, before and after the step.
LEMMA ContentsAt ==
  /\ \A i \in 1..count : Contents[i] = data[Ahead(head, i - 1)]
  /\ \A i \in 1..count' : Contents'[i] = data'[Ahead(head', i - 1)]
BY DEF Contents, Ahead

\* What a pop leaves is the contents without their first item.
LEMMA PoppedSeq ==
  ASSUME TypeOK
  PROVE  /\ Queue!Popped \in Seq(Item)
         /\ Len(Queue!Popped) = IF count = 0 THEN 0 ELSE count - 1
         /\ count # 0 => \A i \in 1..(count - 1) : Queue!Popped[i] = Contents[i + 1]
<1>1. Contents \in Seq(Item) /\ Len(Contents) = count /\ count \in Nat
  BY ContentsSeq, FifoAssumption DEF TypeOK, ContentsFit
<1>2. CASE count = 0 BY <1>1, <1>2 DEF Queue!Popped
<1>3. CASE count # 0
  <2>1. Contents # <<>> BY <1>1, <1>3, EmptySeq
  <2>2. Queue!Popped = Tail(Contents) BY <1>3 DEF Queue!Popped
  <2> QED BY <1>1, <1>3, <2>1, <2>2, HeadTailProperties
<1> QED BY <1>2, <1>3

\* A push, with or without a pop, appends its datum to what the pop leaves.
LEMMA EnqueueImplements ==
  ASSUME TypeOK, TypeOK', ContentsFit',
         NEW din \in Item, NEW pop \in BOOLEAN, Enqueue(din, pop)
  PROVE  Queue!Push \/ Queue!PushPop
<1>1. Contents \in Seq(Item) /\ Len(Contents) = count /\ head \in Cells
  BY ContentsSeq DEF TypeOK, ContentsFit
<1>2. /\ count \in 0..(DEPTH - 1)
      /\ head' = (IF Pops(pop) THEN NextCell(head) ELSE head)
      /\ count' = (IF Pops(pop) THEN count ELSE count + 1)
      /\ data'[Ahead(head, count)] = din
      /\ \A i \in 0..(count - 1) : data'[Ahead(head, i)] = data[Ahead(head, i)]
  BY EnqueueEffect
<1>3. count # DEPTH BY DEF Enqueue
<1>4. CASE ~Pops(pop)
  <2>1. Append(Contents, din) \in Seq(Item) /\ Len(Append(Contents, din)) = count + 1
    BY <1>1, AppendProperties
  <2>2. ASSUME NEW i \in 1..count' PROVE Contents'[i] = Append(Contents, din)[i]
    <3>1. Contents'[i] = data'[Ahead(head, i - 1)] BY <1>2, <1>4, ContentsAt
    <3>2. CASE i = count + 1
      BY <1>1, <1>2, <3>1, <3>2, AppendProperties
    <3>3. CASE i # count + 1
      <4>1. i \in 1..count /\ i - 1 \in 0..(count - 1) BY <1>2, <1>4, <3>3
      <4>2. Contents'[i] = data[Ahead(head, i - 1)] BY <1>2, <1>4, <3>1, <4>1
      <4>3. Contents[i] = data[Ahead(head, i - 1)] BY <4>1, ContentsAt
      <4>4. Append(Contents, din)[i] = Contents[i] BY <1>1, <4>1, AppendProperties
      <4> QED BY <4>2, <4>3, <4>4
    <3> QED BY <3>2, <3>3
  <2>3. Contents' = Append(Contents, din) BY <1>2, <1>4, <2>1, <2>2, SeqEqual DEF ContentsFit
  <2> QED BY <1>3, <2>3 DEF Queue!Push
<1>5. CASE Pops(pop)
  <2>1. count # 0 BY <1>5 DEF Pops
  <2>2. Append(Queue!Popped, din) \in Seq(Item) /\ Len(Append(Queue!Popped, din)) = count
        /\ Len(Queue!Popped) = count - 1
    BY <1>2, <2>1, PoppedSeq, AppendProperties
  <2>3. ASSUME NEW i \in 1..count' PROVE Contents'[i] = Append(Queue!Popped, din)[i]
    <3>1. i \in 1..count /\ i - 1 \in 0..(DEPTH - 1) BY <1>2, <1>5, FifoAssumption
    <3>2. Contents'[i] = data'[Ahead(head, i)]
      <4>1. Contents'[i] = data'[Ahead(NextCell(head), i - 1)] BY <1>2, <1>5, ContentsAt
      <4>2. Ahead(NextCell(head), i - 1) = Ahead(head, (i - 1) + 1) BY <1>1, <3>1, AheadNext
      <4> QED BY <3>1, <4>1, <4>2
    <3>3. CASE i = count
      BY <1>2, <2>2, <3>2, <3>3, PoppedSeq, AppendProperties
    <3>4. CASE i # count
      <4>1. i \in 1..(count - 1) /\ i + 1 \in 1..count /\ i \in 0..(count - 1)
        BY <1>2, <3>1, <3>4
      <4>2. Append(Queue!Popped, din)[i] = Queue!Popped[i]
        BY <2>2, <4>1, PoppedSeq, AppendProperties
      <4>3. Queue!Popped[i] = data[Ahead(head, (i + 1) - 1)]
        BY <2>1, <4>1, PoppedSeq, ContentsAt
      <4> QED BY <1>2, <3>2, <4>1, <4>2, <4>3
    <3> QED BY <3>3, <3>4
  <2>4. Contents' = Append(Queue!Popped, din) BY <1>2, <1>5, <2>2, <2>3, SeqEqual DEF ContentsFit
  <2> QED BY <1>3, <2>4 DEF Queue!PushPop
<1> QED BY <1>4, <1>5

\* An edge that stores nothing is a pop of the queue, or leaves it alone.
LEMMA NoEnqueueImplements ==
  ASSUME TypeOK, TypeOK', ContentsFit',
         NEW push \in BOOLEAN, NEW pop \in BOOLEAN, NoEnqueue(push, pop)
  PROVE  Queue!Pop \/ Queue!Keep
<1>1. Contents \in Seq(Item) /\ Len(Contents) = count /\ head \in Cells /\ count \in 0..DEPTH
  BY ContentsSeq DEF TypeOK, ContentsFit
<1>2. /\ head' = (IF Pops(pop) THEN NextCell(head) ELSE head)
      /\ count' = (IF Pops(pop) THEN count - 1 ELSE count)
      /\ data' = data
  BY NoEnqueueEffect
<1>3. CASE ~Pops(pop)
  <2>1. Contents' = Contents BY <1>2, <1>3 DEF Contents, Ahead
  <2> QED BY <2>1 DEF Queue!Keep
<1>4. CASE Pops(pop)
  <2>1. count # 0 BY <1>4 DEF Pops
  <2>2. ASSUME NEW i \in 1..count' PROVE Contents'[i] = Queue!Popped[i]
    <3>1. i \in 1..(count - 1) /\ i + 1 \in 1..count /\ i - 1 \in 0..(DEPTH - 1)
      BY <1>1, <1>2, <1>4, FifoAssumption
    <3>2. Contents'[i] = data[Ahead(NextCell(head), i - 1)] BY <1>2, <1>4, ContentsAt
    <3>3. Ahead(NextCell(head), i - 1) = Ahead(head, (i - 1) + 1) BY <1>1, <3>1, AheadNext
    <3>4. Queue!Popped[i] = data[Ahead(head, (i + 1) - 1)] BY <2>1, <3>1, PoppedSeq, ContentsAt
    <3> QED BY <3>1, <3>2, <3>3, <3>4
  <2>3. Contents' = Queue!Popped BY <1>1, <1>2, <1>4, <2>1, <2>2, PoppedSeq, SeqEqual DEF ContentsFit
  <2> QED BY <2>3 DEF Queue!Pop
<1> QED BY <1>3, <1>4

\* Every step of the ring is a step of the queue, or stutters.
LEMMA QueueStep ==
  ASSUME TypeOK, TypeOK', ContentsFit',
         Queue!Outputs', [Next]_vars
  PROVE  [Queue!Next]_Queue!vars
<1>1. ASSUME NEW din \in Item, NEW pop \in BOOLEAN, Enqueue(din, pop) PROVE Queue!Next
  BY <1>1, EnqueueImplements DEF Queue!Next
<1>2. ASSUME NEW push \in BOOLEAN, NEW pop \in BOOLEAN, NoEnqueue(push, pop) PROVE Queue!Next
  BY <1>2, NoEnqueueImplements DEF Queue!Next
<1>3. CASE ResetEdge
  <2>1. count' = 0 BY <1>3 DEF ResetEdge
  <2>2. Contents' = <<>> BY <2>1, EmptySeq DEF ContentsFit
  <2> QED BY <2>2 DEF Queue!Reset, Queue!Next
<1>4. CASE UNCHANGED vars
  BY <1>4 DEF vars, regs, Queue!vars, Contents, Ahead
<1> QED BY <1>1, <1>2, <1>3, <1>4 DEF Next, Edge

\* The ring begins as an empty queue.
LEMMA QueueInit == Init => Queue!Init
<1> SUFFICES ASSUME Init PROVE Queue!Init OBVIOUS
<1>1. TypeOK BY InitHolds
<1>2. Contents = <<>> BY <1>1, ContentsSeq, EmptySeq DEF Init, ContentsFit
<1> QED BY <1>1, <1>2, OutputsHold DEF Queue!Init

\* For every depth and width the ring implements the bounded queue that the
\* header of examples/english/std/fifo.mimz describes, its outputs included.
THEOREM FifoImplementsQueue == Spec => QueueSpec
<1>1. TypeOK => ContentsFit BY ContentsSeq
<1> QED BY <1>1, FifoTyped, OutputsHold, QueueInit, QueueStep, PTL
        DEF Spec, QueueSpec, Queue!Spec
=============================================================================
