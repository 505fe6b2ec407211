---------------------------- MODULE MCCheckedDesign ----------------------------
(****************************************************************************)
(* Instance of CheckedDesign for TLC: three wires over one leaf.            *)
(****************************************************************************)
EXTENDS CheckedDesign

CONSTANT x

MCLeaf == {x}

\* Every pair of operands with and without a bundle, and every pair of branches
\* under a condition that is a leaf, a bundle's field or another wire.
MCDriver ==
  {d \in [op : {"xor"}, arg : [1..3 -> 1..3 \union {x}], field : {{}, {2}}] :
     d.arg[3] = x /\ d.arg[1] # d.arg[2]}
  \union
  {d \in [op : {"if"}, arg : [1..3 -> 1..3 \union {x}], field : {{}, {3}}] :
     d.arg[1] = x /\ d.arg[2] # d.arg[3]}

MCDesigns ==
  {c \in [1..3 -> MCDriver] : c[2].op = "if" /\ c[3].op = "if" /\ c[3].field = {}}
=============================================================================
