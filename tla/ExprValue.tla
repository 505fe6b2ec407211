----------------------------- MODULE ExprValue -------------------------------
(****************************************************************************)
(* The simulator's evaluator: sim/value/mod.rs, binary.rs and fn_eval.rs.    *)
(*                                                                           *)
(* A value is its bits, its width and whether it is signed; the narrow       *)
(* (u128) and the wide (limb) representations of a width are one.  Fault     *)
(* stands for any of the S02xx diagnostics.                                  *)
(****************************************************************************)
EXTENDS WidthCheck

Val(n, w, s) == [bits |-> n % 2^w, w |-> w, s |-> s]
Fault        == [bits |-> 0, w |-> 0, s |-> FALSE]
ValKind(v)   == Kind(v.w, v.s)

\* `as_i128`
AsInt(v) == IF v.s /\ v.bits >= 2^(v.w - 1) THEN v.bits - 2^v.w ELSE v.bits
Lsb(v)   == v.bits % 2

\* `extend_bits`: raw bits at width w, sign-extended when v is signed.
ExtendBits(v, w) == IF w > v.w THEN AsInt(v) % 2^w ELSE v.bits

\* `resize_to_width`: what an assignment does with its right-hand side.
ResizeToWidth(v, k) == Val(ExtendBits(v, k.w), k.w, k.s)

Ones(n, w) == Cardinality({i \in 0..w - 1 : (n \div 2^i) % 2 = 1})
Parity(v)  == Ones(v.bits, v.w) % 2

\* Fault: a negation keeps the width of its operand.
UnaryValNoGrowth(o, v) ==
  CASE o = "neg"  -> Val(-AsInt(v), v.w, TRUE)
    [] o = "not"  -> Val(2^v.w - 1 - v.bits, v.w, v.s)
    [] o = "lnot" -> Val(1 - Lsb(v), 1, FALSE)
    [] o = "rand" -> Val(Truth(v.bits = 2^v.w - 1), 1, FALSE)
    [] o = "ror"  -> Val(Truth(v.bits # 0), 1, FALSE)
    [] o = "rxor" -> Val(Parity(v), 1, FALSE)

UnaryVal(o, v) ==
  CASE o = "neg"  -> Val(-AsInt(v), v.w + 1, TRUE)
    [] o = "not"  -> Val(2^v.w - 1 - v.bits, v.w, v.s)
    [] o = "lnot" -> Val(1 - Lsb(v), 1, FALSE)
    [] o = "rand" -> Val(Truth(v.bits = 2^v.w - 1), 1, FALSE)
    [] o = "ror"  -> Val(Truth(v.bits # 0), 1, FALSE)
    [] o = "rxor" -> Val(Parity(v), 1, FALSE)

LosslessVal(o, l, r) ==
  LET k == LosslessResult(ValKind(l), ValKind(r), o = "*")
  IN  IF k = NoKind THEN Fault ELSE Val(Arith(o, AsInt(l), AsInt(r)), k.w, k.s)

\* The wrapping and bitwise family, both operands widened to the larger.
SameWidthVal(o, l, r) ==
  LET w == Larger(l.w, r.w)
      m == ExtendBits(l, w)
      n == ExtendBits(r, w)
  IN  Val(IF o \in Wrapping THEN Arith(o, m, n) ELSE BitsOp(o, m, n), w, l.s \/ r.s)

\* `cmp_lt` and `cmp_eq` read both as numbers of their own sign.
CompareVal(o, l, r) == Val(Truth(Compare(o, AsInt(l), AsInt(r))), 1, FALSE)

BinaryVal(o, l, r) ==
  CASE l = Fault \/ r = Fault          -> Fault
    [] o \in Lossless                  -> LosslessVal(o, l, r)
    [] o \in Wrapping \cup Bitwise2    -> SameWidthVal(o, l, r)
    [] o \in Comparisons               -> CompareVal(o, l, r)
    [] o = "&&"                        -> Val(Lsb(l) * Lsb(r), 1, FALSE)
    [] o = "||"                        -> Val(Larger(Lsb(l), Lsb(r)), 1, FALSE)

ConcatVal(vs) ==
  LET w == SumOf([i \in 1..Len(vs) |-> vs[i].w])
      acc[i \in 0..Len(vs)] == IF i = 0 THEN 0 ELSE acc[i - 1] * 2^vs[i].w + vs[i].bits
  IN  IF \E i \in 1..Len(vs) : vs[i] = Fault THEN Fault ELSE Val(acc[Len(vs)], w, FALSE)

ReplicateVal(n, vs) == ConcatVal([i \in 1..n * Len(vs) |-> vs[((i - 1) % Len(vs)) + 1]])

\* The index must fold to a constant.
IndexVal(v, i) ==
  LET c == ConstFold(i)
  IN  IF v = Fault \/ ~c.is \/ c.v \notin 0..v.w - 1 THEN Fault
      ELSE Val(v.bits \div 2^c.v, 1, FALSE)

SliceVal(v, hi, lo) ==
  LET k == SliceResult(v.w, hi, lo)
  IN  IF v = Fault \/ k = NoKind THEN Fault ELSE Val(v.bits \div 2^lo, k.w, FALSE)

ResizeVal(o, v, n) ==
  CASE v = Fault      -> Fault
    [] o = "extend"   -> IF n < v.w THEN Fault ELSE Val(ExtendBits(v, n), n, v.s)
    [] o = "trunc"    -> Val(v.bits, n, v.s)

CallVal(o, v) ==
  CASE v = Fault        -> Fault
    [] o = "signed"     -> Val(v.bits, v.w, TRUE)
    [] o = "unsigned"   -> Val(v.bits, v.w, FALSE)
    [] o = "abs"        -> Val(IF AsInt(v) < 0 THEN -AsInt(v) ELSE AsInt(v), v.w + 1, TRUE)
    [] o = "nand"       -> Val(Truth(v.bits # 2^v.w - 1), 1, FALSE)
    [] o = "nor"        -> Val(Truth(v.bits = 0), 1, FALSE)
    [] o = "xnor"       -> Val(1 - Parity(v), 1, FALSE)

ExtremumVal(o, l, r) ==
  CASE l = Fault \/ r = Fault -> Fault
    [] o = "min" -> IF AsInt(l) < AsInt(r) THEN l ELSE r
    [] o = "max" -> IF AsInt(l) < AsInt(r) THEN r ELSE l

\* `collect_shift_chain`: the base of a run of shifts and the shifts, the
\* innermost first.
RECURSIVE ShiftBase(_)
ShiftBase(e) == IF e.op \in Shifts THEN ShiftBase(e.x) ELSE e
RECURSIVE ShiftSteps(_)
ShiftSteps(e) == IF e.op \in Shifts THEN Append(ShiftSteps(e.x), [op |-> e.op, amount |-> e.y]) ELSE <<>>

\* `eval_shift_chain`: the final kind first, then every shift at its width.
ShiftChain(base, steps, amounts) ==
  LET n == Len(steps)
      kind[i \in 0..n] ==
        IF i = 0 THEN ValKind(base)
        ELSE IF kind[i - 1] = NoKind \/ amounts[i] = Fault THEN NoKind
        ELSE LET c == ConstFold(steps[i].amount)
             IN  ShiftResult(kind[i - 1], ValKind(amounts[i]),
                             IF c.is THEN c.v ELSE NoAmount, steps[i].op = "<<")
      k == kind[n]
      by(i) == 2^(IF amounts[i].bits < k.w THEN amounts[i].bits ELSE k.w)
      acc[i \in 0..n] ==
        IF i = 0 THEN ExtendBits(base, k.w)
        ELSE IF steps[i].op = "<<" THEN (acc[i - 1] * by(i)) % 2^k.w
        ELSE acc[i - 1] \div by(i)
  IN  IF base = Fault \/ k = NoKind THEN Fault ELSE Val(acc[n], k.w, k.s)

\* `eval` in the environment env, which gives every signal its bits.
RECURSIVE Eval(_, _)
Eval(e, env) ==
  LET Parts == [i \in 1..Len(e.parts) |-> Eval(e.parts[i], env)]
      Hit(v, arm) == arm.wild \/ v.bits \in arm.pats
      MatchVal(v) ==
        IF v = Fault \/ \A i \in 1..Len(e.arms) : ~Hit(v, e.arms[i]) THEN Fault
        ELSE LET first == CHOOSE i \in 1..Len(e.arms) :
                            Hit(v, e.arms[i]) /\ \A j \in 1..i - 1 : ~Hit(v, e.arms[j])
             IN  Eval(e.arms[first].val, env)
      IfVal(c) == IF c = Fault THEN Fault
                  ELSE IF Lsb(c) = 1 THEN Eval(e.x, env) ELSE Eval(e.y, env)
  IN  CASE e.op = "int"                           -> Val(e.n, NaturalWidth(e.n), FALSE)
        [] e.op = "ident"                         -> Val(env[e.name], Decls[e.name].w, Decls[e.name].s)
        [] e.op = "neg" /\ e.x.op = "int"         -> Val(-e.x.n, NaturalWidth(e.x.n) + 1, TRUE)
        [] e.op \in UnOps /\ ~(e.op = "neg" /\ e.x.op = "int") ->
             LET v == Eval(e.x, env) IN IF v = Fault THEN Fault ELSE UnaryVal(e.op, v)
        [] e.op \in Shifts ->
             LET steps == ShiftSteps(e)
             IN  ShiftChain(Eval(ShiftBase(e), env), steps,
                            [i \in 1..Len(steps) |-> Eval(steps[i].amount, env)])
        [] e.op \in BinOps \ Shifts               -> BinaryVal(e.op, Eval(e.x, env), Eval(e.y, env))
        [] e.op = "if"                            -> IfVal(Eval(e.c, env))
        [] e.op = "match"                         -> MatchVal(Eval(e.x, env))
        [] e.op = "concat"                        -> ConcatVal(Parts)
        [] e.op = "replicate"                     -> ReplicateVal(e.n, Parts)
        [] e.op = "index"                         -> IndexVal(Eval(e.x, env), e.i)
        [] e.op = "slice"                         -> SliceVal(Eval(e.x, env), e.hi, e.lo)
        [] e.op \in Resizes                       -> ResizeVal(e.op, Eval(e.x, env), e.n)
        [] e.op \in Extrema                       -> ExtremumVal(e.op, Eval(e.x, env), Eval(e.y, env))
        [] e.op \in Casts \cup NegReds \cup {"abs"} -> CallVal(e.op, Eval(e.x, env))
=============================================================================
