------------------------------ MODULE ByteStream ------------------------------
(****************************************************************************)
(* What a UART link promises: a lossless, ordered stream of bytes.  Every   *)
(* byte handed over is delivered unchanged, in order, and at most once.     *)
(****************************************************************************)
EXTENDS Integers, Sequences

CONSTANT Payload

VARIABLES sent, delivered

IsPrefix(s, t) == Len(s) <= Len(t) /\ s = SubSeq(t, 1, Len(s))

Init == sent \in Seq(Payload) /\ delivered = <<>>

Send ==
  /\ sent' \in Seq(Payload)
  /\ IsPrefix(sent, sent')
  /\ UNCHANGED delivered

\* The oldest byte not delivered yet.
Deliver ==
  /\ Len(delivered) < Len(sent)
  /\ delivered' = Append(delivered, sent[Len(delivered) + 1])
  /\ UNCHANGED sent

Next == Send \/ Deliver

Spec == Init /\ [][Next]_<<sent, delivered>>
=============================================================================
