---------------------------- MODULE SyncLoopProofs ----------------------------
(****************************************************************************)
(* A `sync loop` over any non-empty range implements the loop service: the  *)
(* counter register is the position in the range, the accumulator is the    *)
(* loop over the samples so far, and the run stops before either can leave  *)
(* its range.  Lo < Hi is a hypothesis of the theorems: without it the      *)
(* first test for the last iteration comes too late (run sync_loop_empty).  *)
(****************************************************************************)
EXTENDS SyncLoop, SequenceTheorems, TLAPS

\* The registers of a run in progress follow from what it has sampled.
Progress ==
  running = 1 => /\ cnt = Lo + Len(seen)
                 /\ Len(seen) < Hi - Lo
                 /\ acc = Loop[seen]

Typed ==
  /\ cnt \in 0..(Counts - 1) /\ running \in {0, 1} /\ done \in {0, 1}
  /\ acc \in Value /\ seen \in Seq(Input)

IInv == Typed /\ Progress

\* A value below the modulus is left alone: the counter does not wrap in a run.
LEMMA Unwrapped == ASSUME NEW n \in Nat, NEW x \in 0..(n - 1) PROVE x % n = x
  OBVIOUS

\* The samples of a run in progress are among those LoopAssumption speaks of.
LEMMA SeenIsRun == ASSUME NEW s \in Seq(Input), Len(s) <= Hi - Lo, Lo < Hi PROVE s \in Runs
<1>1. s \in [1..Len(s) -> Input] OBVIOUS
<1>2. Len(s) \in 0..(Hi - Lo) BY SyncLoopAssumption, LenProperties
<1> QED BY <1>1, <1>2 DEF Runs

\* One more body extends the loop by one sample.
LEMMA BodyExtends ==
  ASSUME IInv, running = 1, Lo < Hi, NEW x \in Input
  PROVE  /\ Body(acc, cnt, x) \in Value
         /\ Append(seen, x) \in Seq(Input)
         /\ Len(Append(seen, x)) = Len(seen) + 1
         /\ Body(acc, cnt, x) = Loop[Append(seen, x)]
<1>1. seen \in Seq(Input) /\ cnt = Lo + Len(seen) /\ Len(seen) < Hi - Lo /\ acc = Loop[seen]
  BY DEF IInv, Typed, Progress
<1>2. seen \in Runs BY <1>1, SeenIsRun, LenProperties, SyncLoopAssumption
<1>3. Body(acc, cnt, x) \in Value BY SyncLoopAssumption DEF IInv, Typed
<1>4. Append(seen, x) \in Seq(Input) /\ Len(Append(seen, x)) = Len(seen) + 1
  BY <1>1, AppendProperties
<1>5. Loop[Append(seen, x)] = Body(Loop[seen], Lo + Len(seen), x) BY <1>1, <1>2, LoopAssumption
<1> QED BY <1>1, <1>3, <1>4, <1>5

\* An empty history is a history, and its loop has the initial value.
LEMMA EmptyStart == Lo < Hi => <<>> \in Seq(Input) /\ Len(<<>>) = 0 /\ Loop[<<>>] = InitVal
  BY LoopAssumption

\* The initial states satisfy the invariant.
LEMMA InitHolds == Init => IInv
<1> SUFFICES ASSUME Init PROVE IInv OBVIOUS
<1>1. 0 \in 0..(Counts - 1) BY SyncLoopAssumption
<1> QED BY <1>1, SyncLoopAssumption DEF Init, IInv, Typed, Progress

\* Every edge keeps the invariant.
LEMMA StepHolds == ASSUME Lo < Hi, IInv, [Next]_vars PROVE IInv'
<1>1. CASE Start
  <2>1. Lo % Counts = Lo /\ Lo \in 0..(Counts - 1) BY SyncLoopAssumption, Unwrapped
  <2> QED BY <1>1, <2>1, EmptyStart, SyncLoopAssumption
          DEF Start, StartAcc, IInv, Typed, Progress
<1>2. CASE Idle
  BY <1>2 DEF Idle, IInv, Typed, Progress
<1>3. CASE Iterate
  <2>1. PICK x \in Input : acc' = Body(acc, cnt, x) /\ seen' = Append(seen, x)
    BY <1>3 DEF Iterate
  <2>2. running = 1 BY <1>3 DEF Iterate
  <2>3. /\ acc' \in Value /\ seen' \in Seq(Input)
        /\ Len(seen') = Len(seen) + 1 /\ acc' = Loop[seen']
    BY <2>1, <2>2, BodyExtends
  <2>4. CASE LastIteration
    BY <1>3, <2>3, <2>4 DEF Iterate, IInv, Typed, Progress
  <2>5. CASE ~LastIteration
    <3>1. cnt \in Nat /\ cnt + 1 \in 0..(Counts - 1) /\ Len(seen) + 1 < Hi - Lo
          /\ cnt + 1 = Lo + (Len(seen) + 1)
      BY <2>2, <2>5, SyncLoopAssumption, LenProperties DEF LastIteration, IInv, Typed, Progress
    <3>2. cnt' = cnt + 1 BY <1>3, <2>5, <3>1, Unwrapped, SyncLoopAssumption DEF Iterate
    <3> QED BY <1>3, <2>2, <2>3, <2>5, <3>1, <3>2 DEF Iterate, IInv, Typed, Progress
  <2> QED BY <2>4, <2>5
<1>4. CASE ResetEdge
  <2>1. 0 \in 0..(Counts - 1) BY SyncLoopAssumption
  <2> QED BY <1>4, <2>1, SyncLoopAssumption DEF ResetEdge, IInv, Typed, Progress
<1>5. CASE UNCHANGED vars
  BY <1>5 DEF vars, IInv, Typed, Progress
<1> QED BY <1>1, <1>2, <1>3, <1>4, <1>5 DEF Next, Edge

\* The invariant holds of every execution over a non-empty range.
LEMMA Inductive == ASSUME Lo < Hi PROVE Spec => []IInv
  BY InitHolds, StepHolds, PTL DEF Spec

\* For every non-empty range the loop variable stays inside it while the body
\* runs, and the counter inside its register (ast/sync_loop_lower.rs).
THEOREM LoopTyped == ASSUME Lo < Hi PROVE Spec => []TypeOK
<1>1. IInv => TypeOK
  BY SyncLoopAssumption, LenProperties DEF IInv, Typed, Progress, TypeOK
<1> QED BY <1>1, Inductive, PTL

\* The registers begin as an idle service.
LEMMA ServiceInit == Init => Service!Init
  BY DEF Init, Service!Init

\* Every edge is a step of the service, or stutters.
LEMMA ServiceStep == ASSUME Lo < Hi, IInv, [Next]_vars PROVE [Service!Next]_Service!vars
<1>1. CASE Start
  BY <1>1 DEF Start, Accepts, StartAcc, Service!Next, Service!Begin
<1>2. CASE Idle
  BY <1>2 DEF Idle, Service!Next, Service!Rest
<1>3. CASE Iterate
  <2>1. PICK x \in Input : acc' = Body(acc, cnt, x) /\ seen' = Append(seen, x)
    BY <1>3 DEF Iterate
  <2>2. running = 1 /\ cnt = Lo + Len(seen) /\ Len(seen) \in Nat
    BY <1>3, LenProperties DEF Iterate, IInv, Typed, Progress
  <2>3. Len(seen') = Len(seen) + 1 /\ acc' = Loop[seen']
    BY <2>1, <2>2, BodyExtends
  <2>4. LastIteration <=> Len(seen') = Hi - Lo
    BY <2>2, <2>3, SyncLoopAssumption DEF LastIteration
  <2>5. CASE LastIteration
    BY <1>3, <2>1, <2>2, <2>3, <2>4, <2>5 DEF Iterate, Service!Next, Service!Work
  <2>6. CASE ~LastIteration
    BY <1>3, <2>1, <2>2, <2>4, <2>6 DEF Iterate, Service!Next, Service!Work
  <2> QED BY <2>5, <2>6
<1>4. CASE ResetEdge
  BY <1>4 DEF ResetEdge, Service!Next, Service!Reset
<1>5. CASE UNCHANGED vars
  BY <1>5 DEF vars, Service!vars
<1> QED BY <1>1, <1>2, <1>3, <1>4, <1>5 DEF Next, Edge

\* The registers of a lowered `sync loop` implement the promise of spec/02
\* section 1.15b for every non-empty range, body, input and accumulator.
THEOREM LoopImplementsService == ASSUME Lo < Hi PROVE Spec => ServiceSpec
  BY Inductive, ServiceInit, ServiceStep, PTL DEF Spec, ServiceSpec, Service!Spec
=============================================================================
