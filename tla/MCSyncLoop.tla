------------------------------ MODULE MCSyncLoop ------------------------------
(* A `sync loop` that keeps the last index at which the input is high, plus one: *)
(* its result tells apart the samples, their order and the starting value.       *)
EXTENDS SyncLoop, ConstEval

MCCounts == WordsOf(Clog2(Hi))
MCValue == 0..(Hi + 1)
MCBody(v, i, x) == IF x = 1 THEN (i + 1) % (Hi + 2) ELSE v

LastHigh(s) == {k \in DOMAIN s : s[k] = 1}
MCLoop == [s \in Runs |->
  IF LastHigh(s) = {} THEN 0 ELSE Lo + CHOOSE k \in LastHigh(s) : \A j \in LastHigh(s) : j <= k]
=============================================================================
