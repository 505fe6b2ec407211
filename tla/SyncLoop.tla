------------------------------- MODULE SyncLoop -------------------------------
(****************************************************************************)
(* The state machine that ast/sync_loop_lower.rs synthesises for            *)
(*     sync loop NAME on rise(clk) (i: Lo..Hi) -> result: T = InitVal { .. }*)
(* One action is one edge of its clock, atomic as module Kernel shows.  The *)
(* body is Body(acc, cnt, x), where x is everything else it reads.          *)
(****************************************************************************)
EXTENDS Integers, Sequences

CONSTANTS
  Lo, Hi,             \* the range of the loop variable
  Counts,             \* the values of the counter register: 2^clog2(Hi)
  Input, Value,       \* what the body reads, what the accumulator holds
  InitVal,            \* the accumulator's reset value
  Body(_, _, _),      \* the accumulator after one run of the body
  Loop                \* the loop over a sequence of inputs, for the properties

Runs == UNION {[1..n -> Input] : n \in 0..(Hi - Lo)}

ASSUME SyncLoopAssumption ==
  /\ Lo \in Nat /\ Hi \in Nat \ {0} /\ Counts \in Nat /\ Hi <= Counts
  /\ InitVal \in Value
  /\ \A v \in Value, i \in 0..(Counts - 1), x \in Input : Body(v, i, x) \in Value

\* Loop is the body folded over the samples, one value of the range each.
ASSUME LoopAssumption ==
  /\ Loop[<<>>] = InitVal
  /\ \A s \in Runs, x \in Input :
       Len(s) < Hi - Lo => Loop[Append(s, x)] = Body(Loop[s], Lo + Len(s), x)

VARIABLES
  cnt, running, acc, done,   \* NAME_cnt, NAME_running_r, NAME_acc, NAME_done_r
  seen                       \* history: what the bodies of the last run read

regs == <<cnt, running, acc, done>>
vars == <<cnt, running, acc, done, seen>>

\* Power-on and a reset edge give every register its reset value.
Init == cnt = 0 /\ running = 0 /\ acc = InitVal /\ done = 0 /\ seen = <<>>

ResetEdge == cnt' = 0 /\ running' = 0 /\ acc' = InitVal /\ done' = 0 /\ seen' = <<>>

\* Fault: the last value of the range is taken to be Hi.
LastIterationPast == cnt = Hi

LastIteration == cnt = Hi - 1

\* Fault: a run starts from the result of the one before.
StartAccKept == acc

StartAcc == InitVal

\* Fault: NAME_start is also sampled during a run.
AcceptsAlways == running \in {0, 1}

\* NAME_start is sampled only while idle.
Accepts == running = 0

Start ==
  /\ Accepts
  /\ done' = 0 /\ running' = 1 /\ cnt' = Lo % Counts /\ acc' = StartAcc
  /\ seen' = <<>>

Idle ==
  /\ running = 0
  /\ done' = 0 /\ UNCHANGED <<running, cnt, acc, seen>>

\* The two assignments of `last_iter`, then the body.
Iterate ==
  /\ running = 1
  /\ \E x \in Input : acc' = Body(acc, cnt, x) /\ seen' = Append(seen, x)
  /\ IF LastIteration
     THEN running' = 0 /\ done' = 1 /\ UNCHANGED cnt
     ELSE cnt' = (cnt + 1) % Counts /\ done' = 0 /\ UNCHANGED running

Edge == Start \/ Idle \/ Iterate

Next == Edge \/ ResetEdge

Spec == Init /\ [][Next]_vars

\* The clock does not stop in the middle of a run.
FairSpec == Spec /\ WF_vars(Iterate)
-----------------------------------------------------------------------------
\* Type invariant.  The loop variable stays in its range for the whole run, so
\* a body that indexes with it stays in bounds.
TypeOK ==
  /\ cnt \in 0..(Counts - 1) /\ running \in {0, 1} /\ done \in {0, 1} /\ acc \in Value
  /\ running = 1 => cnt \in Lo..(Hi - 1)

\* The registers implement the promise of spec/02 section 1.15b: duration, one
\* pulse of `done`, never together with `running`, result of exactly the
\* samples of this run, nothing re-triggered.
Service == INSTANCE LoopService WITH
  Length <- Hi - Lo, busy <- (running = 1), done <- (done = 1),
  result <- IF running = 1 THEN InitVal ELSE acc

ServiceSpec == Service!Spec

\* A run comes to its end, however many values its range has.
RunEnds == (running = 1) ~> (running = 0)
=============================================================================
