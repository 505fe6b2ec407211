----------------------------- MODULE LoopService -----------------------------
(****************************************************************************)
(* What a `sync loop` promises (spec/02 section 1.15b): a start taken while *)
(* idle begins a run; the run samples its inputs once per value of the      *)
(* range, on consecutive edges; then `done` is high for exactly one cycle   *)
(* and the result is the loop over those samples, kept until the next run.  *)
(****************************************************************************)
EXTENDS Integers, Sequences

CONSTANTS Length,    \* how many values the range has
          Input,     \* what the body can sample at an edge
          InitVal,   \* the accumulator before the first value
          Loop       \* the whole loop, as a function of the samples

VARIABLES busy, seen, done, result

vars == <<busy, seen, done, result>>

Init == busy = FALSE /\ seen = <<>> /\ done = FALSE /\ result = InitVal

Begin == ~busy /\ busy' = TRUE /\ seen' = <<>> /\ done' = FALSE /\ result' = InitVal

Rest == ~busy /\ done' = FALSE /\ UNCHANGED <<busy, seen, result>>

Work ==
  /\ busy
  /\ \E x \in Input : seen' = Append(seen, x)
  /\ IF Len(seen') = Length
     THEN busy' = FALSE /\ done' = TRUE /\ result' = Loop[seen']
     ELSE busy' = TRUE /\ done' = FALSE /\ result' = InitVal

Reset == busy' = FALSE /\ seen' = <<>> /\ done' = FALSE /\ result' = InitVal

Next == Begin \/ Rest \/ Work \/ Reset

Spec == Init /\ [][Next]_vars
=============================================================================
