--------------------------- MODULE MCExpressions -----------------------------
(****************************************************************************)
(* Every expression of one operator over three signals and two literals, and *)
(* every one of two operators over a smaller choice of operands, in every    *)
(* state of the inputs.                                                      *)
(****************************************************************************)
EXTENDS Expressions

MCDecls   == [n \in {"a", "s", "c"} |->
                IF n = "a" THEN Kind(2, FALSE) ELSE IF n = "s" THEN Kind(2, TRUE) ELSE Kind(1, FALSE)]
MCTargets == {Kind(1, FALSE), Kind(3, TRUE)}
MCInputs  == [a : 0..3, s : 0..3, c : 0..1]
MaxWidth  == 8

A == Sig("a")
S == Sig("s")
C == Sig("c")
Signals == {A, S, C}
Atoms   == Signals \cup {Lit(1), Lit(3)}

OneOf(x) ==
  {Un(o, x) : o \in UnOps \cup Casts \cup NegReds \cup {"abs"}}
    \cup {Resize("extend", x, 4), Resize("trunc", x, 1), Index(x, Lit(1)), Slice(x, 1, 0)}

TwoOf(x, y) ==
  {Bin(o, x, y) : o \in BinOps \cup Extrema}
    \cup {If(C, x, y), Match(A, <<Arm({0, 2}, FALSE, x), Arm({}, TRUE, y)>>)}

One == UNION {OneOf(x) : x \in Atoms} \cup UNION {TwoOf(x, y) : x, y \in Atoms}
         \cup {Cat(<<x, y>>) : x, y \in Signals} \cup {Rep(2, <<x>>) : x \in Signals}

\* The operands of the outer operator.
Inner ==
  {x \in UNION {OneOf(x) : x \in {A, S}} \cup TwoOf(A, A) \cup TwoOf(A, Lit(3)) \cup TwoOf(Lit(1), A)
           \cup TwoOf(S, S) \cup TwoOf(S, Lit(1)) \cup {Cat(<<A, C>>), Rep(2, <<C>>), Un("neg", Lit(1)), Bin("*", C, Lit(3))} :
     TypeOf(x) # Ill}

Around(x) ==
  OneOf(x) \cup TwoOf(x, A) \cup TwoOf(A, x) \cup TwoOf(x, Lit(1))
    \cup {Cat(<<C, x>>), Rep(2, <<x>>), If(x, A, Lit(1)), Index(x, C)}

\* Three deep: a select of a result, in a concatenation.
Selects == {Cat(<<C, Index(x, Lit(0))>>) : x \in Inner}

MCPrograms ==
  {p \in One \cup UNION {Around(x) : x \in Inner} \cup Selects :
     TypeOf(p) # Ill /\ \A x \in Subexpressions(p) : TypeOf(x).w <= MaxWidth}

-----------------------------------------------------------------------------
(* Where the three computations are known to part.  An expression with none *)
(* of these in it is settled; the README tells what each one costs.         *)
-----------------------------------------------------------------------------
\* The kind a constant has in the simulator, which no sibling changes.
OwnKind(x) == IF IsBareInt(x) THEN Kind(NaturalWidth(x.n), FALSE) ELSE KindOf(TypeOf(x))

\* A constant operand whose own kind gives another result than its type.
ConstantKeepsItsKind(x) ==
  \/ x.op \in Lossless
     /\ LosslessResult(OwnKind(x.x), OwnKind(x.y), x.op = "*") # KindOf(TypeOf(x))
  \/ x.op \in Extrema /\ \E y \in {x.x, x.y} : OwnKind(y) # KindOf(TypeOf(x))
  \/ x.op \in {"if", "match"} /\ \E i \in DOMAIN Branches(x) : OwnKind(Branches(x)[i]) # KindOf(TypeOf(x))

\* An unsized literal as a branch, where Verilog gives it its full width.
LiteralBranch(x) ==
  \/ x.op \in Extrema /\ IsBareInt(x.x) # IsBareInt(x.y)
  \/ x.op \in {"if", "match"} /\ \E i \in DOMAIN Branches(x) : IsBareInt(Branches(x)[i])

\* A literal sized to its sibling loses the sibling's sign, or its own bits.
LiteralSized(x) ==
  x.op \in Wrapping \cup Bitwise2
    /\ \/ IsBareInt(x.x) /\ (TypeOf(x.y).s \/ TypeOf(x.y).ct)
       \/ IsBareInt(x.y) /\ (TypeOf(x.x).s \/ TypeOf(x.x).ct)

\* An operand whose bits depend on the width around it, left in place.
Bends(x) == x.op \in Wrapping \cup {"not", ">>"}
ContextEscapes(x) ==
  \/ x.op \in Comparisons /\ \/ IsBareInt(x.x) /\ Bends(x.y)
                             \/ IsBareInt(x.y) /\ Bends(x.x)
  \/ x.op \in {"if", "match"} /\ LiteralBranch(x) /\ \E i \in DOMAIN Branches(x) : Branches(x)[i].op = ">>"
  \/ x.op \in BinOps \cup Extrema \cup {"if", "match", "extend", "neg", "abs"}
     /\ \E i \in DOMAIN Children(x) : Children(x)[i].op = "not"

\* `infer_kind` passes a unary operator by, and gives a literal its sibling's
\* width even when the literal is wider.
KindMissed(x) ==
  \/ x.op \in Reductions \cup {"neg"} /\ InferKind(x) # KindOf(TypeOf(x))
  \/ x.op \in Lossless /\ \/ IsBareInt(x.x) /\ NaturalWidth(x.x.n) > TypeOf(x.y).w
                          \/ IsBareInt(x.y) /\ NaturalWidth(x.y.n) > TypeOf(x.x).w

\* A bit of a result, and a bit picked at run time.
SelectUnsupported(x) == x.op = "index" /\ (x.x.op # "ident" \/ ~ConstFold(x.i).is)

\* At the root, where the target gives the width, some of them cost nothing.
Settled(e) ==
  /\ \A x \in Subexpressions(e) : ~(LiteralSized(x) \/ ContextEscapes(x) \/ SelectUnsupported(x))
  /\ \A x \in Subexpressions(e) \ {e} : ~(ConstantKeepsItsKind(x) \/ LiteralBranch(x) \/ KindMissed(x))
  /\ ConstantKeepsItsKind(e) => e.op \notin Lossless \/ ~TypeOf(e).s

-----------------------------------------------------------------------------
\* What the checker accepts the simulator evaluates, and to the checked kind.
SimulatedAsTyped ==
  phase = "run" /\ Settled(expr) =>
    /\ simulated # Fault
    /\ TypeOf(expr).ct \/ ConstantKeepsItsKind(expr) \/ ValKind(simulated) = KindOf(TypeOf(expr))

\* The emitted assignment gives y the value the simulator gives it.
HardwareAgrees ==
  phase = "run" /\ Settled(expr) => hardware = ResizeToWidth(simulated, target)

\* Where the emitter knows the width of an operand, it is the checker's.
KindsAgree ==
  phase = "checked" /\ Settled(expr) =>
    \A x \in Subexpressions(expr) \ {expr} :
      TypeOf(x).ct \/ InferKind(x) \in {NoKind, KindOf(TypeOf(x))}

\* What the checker accepts the emitter can write.
NothingRefused == phase = "refused" => ~Settled(expr)
=============================================================================
