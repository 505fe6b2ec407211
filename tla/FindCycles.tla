----------------------------- MODULE FindCycles ------------------------------
(****************************************************************************)
(* The combinational layer of one module: wires and outputs, each with the  *)
(* expression that drives it.  What an expression computes is cut down to   *)
(* two shapes: `if` reads its condition and then one of two branches, `xor` *)
(* reads both of its operands.                                              *)
(*                                                                          *)
(* Checker::find_cycles: the three-colour depth-first search, on a stack of *)
(* its own, that rejects combinational cycles (E0504).                      *)
(****************************************************************************)
EXTENDS Integers, FiniteSets, Sequences, SequencesExt

CONSTANTS
  N,          \* the number of wires, numbered in the order of their declarations
  Leaf,       \* registers and input ports: known before anything is evaluated
  Designs     \* the driver tables to consider

Wire == 1..N
Node == Wire \union Leaf
Position == 1..3
Bit == {0, 1}

\* `field` holds the positions that are read as a field of a bundle, `a.data`.
Driver == [op : {"if", "xor"}, arg : [Position -> Node], field : SUBSET Position]

NetlistAssumption ==
  /\ N \in Nat
  /\ Leaf \intersect Int = {}
  /\ Designs \subseteq [Wire -> Driver]

ASSUME NetlistAssumptionHolds == NetlistAssumption

VARIABLE comb      \* Design.comb: the driver of every wire; never changes

\* The positions the expression d can read.
Reads(d) == IF d.op = "if" THEN Position ELSE {1, 2}

\* Fault: only the branch taken when the condition holds is walked.
ExprReadsThen(d) == {d.arg[p] : p \in {1, 2} \ d.field} \intersect Wire

\* The wires that the checker finds in d.  An ExprKind::Field adds an edge only
\* when its base is an instance, so a field of a bundle adds none.
ExprReads(d) == {d.arg[p] : p \in Reads(d) \ d.field} \intersect Wire

Edges(w) == ExprReads(comb[w])
-----------------------------------------------------------------------------
VARIABLES
  root,       \* the next root to look at; N + 1 when there is none left
  stack,      \* nodes to enter, and nodes to leave
  path,       \* the grey nodes, in the order they were entered
  color,
  cycles,     \* the cycles reported, each as a path
  finish,     \* history: in which order the nodes were left
  left        \* history: how many were

dfsVars == <<root, stack, path, color, cycles, finish, left>>

Entry(w) == [node |-> w, leaving |-> FALSE]
Leaving(w) == [node |-> w, leaving |-> TRUE]

DfsInit ==
  /\ root = 1 /\ stack = <<>> /\ path = <<>>
  /\ color = [w \in Wire |-> "white"] /\ cycles = {}
  /\ finish = [w \in Wire |-> 0] /\ left = 0

Walked == root > N /\ stack = <<>>
Accepted == Walked /\ cycles = {}

\* S in the order of the declarations.
Sorted(S) ==
  {q \in [1..Cardinality(S) -> S] :
     /\ \A w \in S : \E i \in DOMAIN q : q[i] = w
     /\ \A i, j \in DOMAIN q : i < j => q[i] < q[j]}

NextRoot ==
  /\ stack = <<>> /\ root <= N
  /\ stack' = IF color[root] = "white" THEN <<Entry(root)>> ELSE <<>>
  /\ root' = root + 1
  /\ UNCHANGED <<path, color, cycles, finish, left>>

\* What every step of the inner loop starts with.
Popped(w, leaving) == stack # <<>> /\ Last(stack) = [node |-> w, leaving |-> leaving]

\* Fault: the path keeps the node.
LeaveKeepingPath(w) ==
  /\ Popped(w, TRUE) /\ stack' = Front(stack)
  /\ color' = [color EXCEPT ![w] = "black"]
  /\ finish' = [finish EXCEPT ![w] = left + 1] /\ left' = left + 1
  /\ UNCHANGED <<root, path, cycles>>

Leave(w) ==
  /\ Popped(w, TRUE) /\ stack' = Front(stack)
  /\ color' = [color EXCEPT ![w] = "black"] /\ path' = Front(path)
  /\ finish' = [finish EXCEPT ![w] = left + 1] /\ left' = left + 1
  /\ UNCHANGED <<root, cycles>>

\* Fault: a grey node is skipped like a black one.
BackEdgeSilent(w) ==
  /\ Popped(w, FALSE) /\ color[w] = "grey" /\ stack' = Front(stack)
  /\ UNCHANGED <<root, path, color, cycles, finish, left>>

\* The cycle is the path from w onward, and w again.
BackEdge(w) ==
  /\ Popped(w, FALSE) /\ color[w] = "grey" /\ stack' = Front(stack)
  /\ \E i \in DOMAIN path :
       path[i] = w /\ cycles' = cycles \union {SubSeq(path, i, Len(path)) \o <<w>>}
  /\ UNCHANGED <<root, path, color, finish, left>>

Skip(w) ==
  /\ Popped(w, FALSE) /\ color[w] = "black" /\ stack' = Front(stack)
  /\ UNCHANGED <<root, path, color, cycles, finish, left>>

Enter(w) ==
  /\ Popped(w, FALSE) /\ color[w] = "white"
  /\ \E q \in Sorted(Edges(w)) :
       stack' = Front(stack) \o <<Leaving(w)>> \o [i \in DOMAIN q |-> Entry(q[i])]
  /\ color' = [color EXCEPT ![w] = "grey"] /\ path' = Append(path, w)
  /\ UNCHANGED <<root, cycles, finish, left>>

Search ==
  \/ NextRoot
  \/ \E w \in Wire : Leave(w) \/ BackEdge(w) \/ Skip(w) \/ Enter(w)
-----------------------------------------------------------------------------
DfsTypeOK ==
  /\ root \in 1..(N + 1)
  /\ stack \in Seq([node : Wire, leaving : BOOLEAN])
  /\ path \in Seq(Wire)
  /\ color \in [Wire -> {"white", "grey", "black"}]
  /\ finish \in [Wire -> 0..left] /\ left \in Nat
  /\ \A c \in cycles : c \in Seq(Wire)

\* Every cycle reported is one: each node reads the next and the last is the first.
CyclesReal ==
  \A c \in cycles :
    /\ Len(c) > 1 /\ c[1] = c[Len(c)]
    /\ \A i \in 1..(Len(c) - 1) : c[i + 1] \in Edges(c[i])

\* A module without a report has its wires in an order in which each is
\* finished after all that it reads: no cycle of recorded reads was missed,
\* whatever order the search met them in.
Ordered == Accepted => \A w \in Wire : \A v \in Edges(w) : finish[v] < finish[w]
=============================================================================
