----------------------------- MODULE WidthCheck ------------------------------
(****************************************************************************)
(* The value expressions of the language (ast/mod.rs), the width rules that *)
(* the checker, the simulator and the emitter share (width_rules.rs) and the*)
(* constant folder (checker/consteval.rs).                                  *)
(*                                                                          *)
(* An expression is a record whose `op` names the ExprKind.  Enum values,   *)
(* bundles, memories and calls of user functions are left out: the widths   *)
(* of a scalar expression do not depend on them.                            *)
(*                                                                          *)
(* The width checker of one expression: checker/widths/ops, checker/widths/ *)
(* expr and checker/widths/patterns.rs.                                     *)
(*                                                                          *)
(* A type is a sized kind or an untyped integer that still adapts.  Every   *)
(* diagnostic makes the program refused, so one value, Ill, stands for a    *)
(* type under which a diagnostic was reported.                              *)
(****************************************************************************)
EXTENDS Integers, Sequences, FiniteSets, Bitwise, ConstEval

(* Constructors, one per ExprKind. *)
Lit(n)            == [op |-> "int", n |-> n]
Sig(name)         == [op |-> "ident", name |-> name]
Un(o, x)          == [op |-> o, x |-> x]
Bin(o, x, y)      == [op |-> o, x |-> x, y |-> y]
If(c, x, y)       == [op |-> "if", c |-> c, x |-> x, y |-> y]
Match(x, arms)    == [op |-> "match", x |-> x, arms |-> arms]
Cat(parts)        == [op |-> "concat", parts |-> parts]
Rep(n, parts)     == [op |-> "replicate", n |-> n, parts |-> parts]
Index(x, i)       == [op |-> "index", x |-> x, i |-> i]
Slice(x, hi, lo)  == [op |-> "slice", x |-> x, hi |-> hi, lo |-> lo]
Resize(o, x, n)   == [op |-> o, x |-> x, n |-> n]

\* A match arm: the numbers it lists, whether `_` is among its patterns, and
\* its value.
Arm(pats, wild, val) == [pats |-> pats, wild |-> wild, val |-> val]

Reductions  == {"rand", "ror", "rxor"}
UnOps       == {"neg", "not", "lnot"} \cup Reductions
Lossless    == {"+", "-", "*"}
Wrapping    == {"+%", "-%", "*%"}
Bitwise2    == {"&", "|", "^"}
Shifts      == {"<<", ">>"}
Comparisons == {"==", "!=", "<", "<=", ">", ">="}
Logic       == {"&&", "||"}
BinOps      == Lossless \cup Wrapping \cup Bitwise2 \cup Shifts
                 \cup Comparisons \cup Logic
Resizes     == {"extend", "trunc"}
Casts       == {"signed", "unsigned"}
NegReds     == {"nand", "nor", "xnor"}
Extrema     == {"min", "max"}

\* The sub-expressions of e that carry values, in the order they are written.
Children(e) ==
  CASE e.op \in {"int", "ident"}          -> <<>>
    [] e.op \in BinOps \cup Extrema       -> <<e.x, e.y>>
    [] e.op = "if"                        -> <<e.c, e.x, e.y>>
    [] e.op = "match"                     -> <<e.x>> \o [i \in 1..Len(e.arms) |-> e.arms[i].val]
    [] e.op \in {"concat", "replicate"}   -> e.parts
    [] e.op = "index"                     -> <<e.x, e.i>>
    [] OTHER                              -> <<e.x>>

RECURSIVE Subexpressions(_)
Subexpressions(e) ==
  {e} \cup UNION {Subexpressions(Children(e)[i]) : i \in 1..Len(Children(e))}

-----------------------------------------------------------------------------
(* Kinds.  A width of zero stands for "no kind": the rule refuses.          *)
-----------------------------------------------------------------------------
Kind(w, s) == [w |-> w, s |-> s]
NoKind     == Kind(0, FALSE)
Larger(m, n) == IF m >= n THEN m ELSE n

\* `natural_width`: the bits of the magnitude, never none.
NaturalWidth(n) == Larger(1, BitLength(n))

\* The width of a folded constant: a negative one is as tight as two's
\* complement allows.
ConstWidth(v) == IF v >= 0 THEN NaturalWidth(v) ELSE BitLength(-v - 1) + 1

NoAmount == -1
ShiftResult(l, amount, const, grows) ==
  IF amount.s THEN NoKind
  ELSE IF ~grows THEN l
  ELSE Kind(l.w + (IF const # NoAmount THEN const ELSE 2^amount.w - 1), l.s)

SliceResult(base, hi, lo) ==
  IF lo <= hi /\ hi < base THEN Kind(hi - lo + 1, FALSE) ELSE NoKind

LosslessResult(a, b, mul) ==
  IF a.s # b.s THEN NoKind
  ELSE Kind(IF mul THEN a.w + b.w ELSE Larger(a.w, b.w) + 1, a.s)

MatchedResult(a, b) == IF a = b THEN a ELSE NoKind

-----------------------------------------------------------------------------
(* Constant folding: exact integers, no width.                              *)
-----------------------------------------------------------------------------
NotConst == [is |-> FALSE, v |-> 0]
Const(v) == [is |-> TRUE, v |-> v]
Truth(p) == IF p THEN 1 ELSE 0

Compare(o, l, r) ==
  CASE o = "==" -> l = r
    [] o = "!=" -> l # r
    [] o = "<"  -> l < r
    [] o = "<=" -> l <= r
    [] o = ">"  -> l > r
    [] o = ">=" -> l >= r

Arith(o, l, r) ==
  CASE o \in {"+", "+%"} -> l + r
    [] o \in {"-", "-%"} -> l - r
    [] o \in {"*", "*%"} -> l * r

BitsOp(o, m, n) ==
  CASE o = "&" -> m & n
    [] o = "|" -> m | n
    [] o = "^" -> m ^^ n

\* Two's complement at a width with room for either operand's sign.
ConstBits(o, l, r) ==
  LET w == Larger(ConstWidth(l), ConstWidth(r)) + 1
      n == BitsOp(o, l % 2^w, r % 2^w)
  IN  IF n >= 2^(w - 1) THEN n - 2^w ELSE n

FoldBinary(o, l, r) ==
  CASE o \in Lossless    -> Const(Arith(o, l, r))
    [] o \in Bitwise2    -> Const(ConstBits(o, l, r))
    [] o \in Comparisons -> Const(Truth(Compare(o, l, r)))
    [] o = "&&"          -> Const(Truth(l # 0 /\ r # 0))
    [] o = "||"          -> Const(Truth(l # 0 \/ r # 0))
    [] o = "<<"          -> IF r < 0 THEN NotConst ELSE Const(l * 2^r)
    [] o = ">>"          -> IF r < 0 THEN NotConst ELSE Const(l \div 2^r)
    [] o \in Wrapping    -> NotConst

RECURSIVE ConstFold(_)
ConstFold(e) ==
  CASE e.op = "int" -> Const(e.n)
    [] e.op \in {"neg", "lnot"} ->
         LET x == ConstFold(e.x)
         IN  IF ~x.is THEN NotConst
             ELSE IF e.op = "neg" THEN Const(-x.v) ELSE Const(Truth(x.v = 0))
    [] e.op \in BinOps ->
         LET x == ConstFold(e.x)
             y == ConstFold(e.y)
         IN  IF x.is /\ y.is THEN FoldBinary(e.op, x.v, y.v) ELSE NotConst
    [] e.op = "if" ->
         LET c == ConstFold(e.c)
         IN  IF ~c.is THEN NotConst
             ELSE IF c.v # 0 THEN ConstFold(e.x) ELSE ConstFold(e.y)
    [] OTHER -> NotConst
-----------------------------------------------------------------------------
CONSTANT Decls    \* signal name -> its declared kind

Ty(w, s)   == [ct |-> FALSE, v |-> 0, w |-> w, s |-> s]
CtInt(v)   == [ct |-> TRUE, v |-> v, w |-> ConstWidth(v), s |-> v < 0]
Ill        == Ty(0, FALSE)
TyOf(k)    == Ty(k.w, k.s)
KindOf(t)  == Kind(t.w, t.s)
Sized(t)   == ~t.ct /\ t # Ill
Bit        == Ty(1, FALSE)
IsBits(t)  == Sized(t) /\ ~t.s

\* `fit`: does the constant c fit a context of type t?
Fit(c, t) ==
  \/ t.ct
  \/ ~t.s /\ ~c.s /\ c.w <= t.w
  \/ t.s /\ (IF c.s THEN c.w ELSE c.w + 1) <= t.w

Folded(e) == LET c == ConstFold(e) IN IF c.is THEN CtInt(c.v) ELSE Ill

UnaryTy(e, t) ==
  CASE t = Ill                 -> Ill
    [] t.ct                    -> Folded(e)
    [] e.op = "neg"            -> IF t.s THEN Ty(t.w + 1, TRUE) ELSE Ill
    [] e.op = "not"            -> t
    [] e.op = "lnot"           -> IF t = Bit THEN Bit ELSE Ill
    [] e.op \in Reductions     -> IF t.s THEN Ill ELSE Bit

\* A constant operand of a lossless operator takes its sibling's width, or
\* its own when that is larger.
AdaptLossless(c, t) ==
  IF ~t.s THEN IF c.s THEN Ill ELSE Ty(Larger(t.w, c.w), FALSE)
  ELSE Ty(Larger(t.w, IF c.s THEN c.w ELSE c.w + 1), TRUE)

LosslessTy(o, l, r) ==
  LET a == IF l.ct THEN AdaptLossless(l, r) ELSE l
      b == IF r.ct THEN AdaptLossless(r, l) ELSE r
  IN  IF a = Ill \/ b = Ill THEN Ill
      ELSE TyOf(LosslessResult(KindOf(a), KindOf(b), o = "*"))

\* Both sides the same kind; a constant adapts to the sized side and must fit.
MatchedTy(l, r) ==
  CASE l.ct  -> IF Fit(l, r) THEN r ELSE Ill
    [] r.ct  -> IF Fit(r, l) THEN l ELSE Ill
    [] OTHER -> TyOf(MatchedResult(KindOf(l), KindOf(r)))

ShiftTy(o, l, r) ==
  IF l.ct \/ r.s THEN Ill
  ELSE TyOf(ShiftResult(KindOf(l), Kind(r.w, FALSE), IF r.ct THEN r.v ELSE NoAmount, o = "<<"))

LogicTy(l, r) ==
  LET Single(t) == t = Bit \/ (t.ct /\ t.v \in {0, 1})
  IN  IF Single(l) /\ Single(r) THEN Bit ELSE Ill

BinaryTy(e, l, r) ==
  CASE l = Ill \/ r = Ill                   -> Ill
    [] l.ct /\ r.ct                         -> Folded(e)
    [] e.op \in Lossless                    -> LosslessTy(e.op, l, r)
    [] e.op \in Wrapping \cup Bitwise2      -> MatchedTy(l, r)
    [] e.op \in Shifts                      -> ShiftTy(e.op, l, r)
    [] e.op \in Comparisons                 -> IF MatchedTy(l, r) = Ill THEN Ill ELSE Bit
    [] e.op \in Logic                       -> LogicTy(l, r)

SumOf(ws) ==
  LET sum[i \in 0..Len(ws)] == IF i = 0 THEN 0 ELSE sum[i - 1] + ws[i]
  IN  sum[Len(ws)]

ConcatTy(ts) ==
  IF \A i \in 1..Len(ts) : IsBits(ts[i])
  THEN Ty(SumOf([i \in 1..Len(ts) |-> ts[i].w]), FALSE) ELSE Ill

ReplicateTy(n, ts) ==
  LET inner == ConcatTy(ts)
  IN  IF inner = Ill \/ n < 1 THEN Ill ELSE Ty(n * inner.w, FALSE)

\* A constant index is range-checked; a signal passes.
IndexTy(t, i) ==
  IF Sized(t) /\ i # Ill /\ (IF i.ct THEN i.v \in 0..t.w - 1 ELSE ~i.s) THEN Bit ELSE Ill

SliceTy(t, hi, lo) == IF Sized(t) THEN TyOf(SliceResult(t.w, hi, lo)) ELSE Ill

ResizeTy(o, t, n) ==
  CASE t = Ill \/ n < 1               -> Ill
    [] t.ct                           -> IF o = "extend" /\ Fit(t, Ty(n, FALSE))
                                         THEN Ty(n, FALSE) ELSE Ill
    [] o = "extend" /\ n < t.w        -> Ill
    [] o = "trunc" /\ n > t.w         -> Ill
    [] OTHER                          -> Ty(n, t.s)

CastTy(o, t) ==
  CASE t = Ill \/ t.ct  -> Ill
    [] o = "signed"     -> IF t.s THEN Ill ELSE Ty(t.w, TRUE)
    [] o = "unsigned"   -> IF t.s THEN Ty(t.w, FALSE) ELSE Ill

AbsTy(t)       == IF Sized(t) /\ t.s THEN Ty(t.w + 1, TRUE) ELSE Ill
NegRedTy(t)    == IF IsBits(t) THEN Bit ELSE Ill
ExtremumTy(l, r) == IF l = Ill \/ r = Ill \/ (l.ct /\ r.ct) THEN Ill ELSE MatchedTy(l, r)

\* `unify_arms`: one sized type among the arms, the constants fit it.
UnifyArms(ts) ==
  LET all   == {ts[i] : i \in 1..Len(ts)}
      sized == {t \in all : ~t.ct}
  IN  IF Ill \in all \/ Cardinality(sized) # 1 THEN Ill
      ELSE LET t == CHOOSE t \in sized : TRUE
           IN  IF \A c \in all \ sized : Fit(c, t) THEN t ELSE Ill

CondOk(t) == t = Bit \/ (t.ct /\ t.v \in {0, 1})

\* `check_patterns`: every value covered, nothing twice, no arm after `_`.
PatternsOk(t, arms) ==
  LET n     == Len(arms)
      Seen(i) == UNION {arms[j].pats : j \in 1..i - 1}
  IN  /\ IsBits(t)
      /\ \A i \in 1..n : \A p \in arms[i].pats : NaturalWidth(p) <= t.w /\ p \notin Seen(i)
      /\ \A i \in 1..n - 1 : ~arms[i].wild
      /\ arms[n].wild \/ UNION {arms[i].pats : i \in 1..n} = 0..2^t.w - 1

RECURSIVE TypeOf(_)
TypeOf(e) ==
  LET Parts == [i \in 1..Len(e.parts) |-> TypeOf(e.parts[i])]
      Vals  == [i \in 1..Len(e.arms) |-> TypeOf(e.arms[i].val)]
  IN  CASE e.op = "int"           -> CtInt(e.n)
        [] e.op = "ident"         -> TyOf(Decls[e.name])
        [] e.op \in UnOps         -> UnaryTy(e, TypeOf(e.x))
        [] e.op \in BinOps        -> BinaryTy(e, TypeOf(e.x), TypeOf(e.y))
        [] e.op = "if"            -> IF CondOk(TypeOf(e.c))
                                     THEN UnifyArms(<<TypeOf(e.x), TypeOf(e.y)>>) ELSE Ill
        [] e.op = "match"         -> IF PatternsOk(TypeOf(e.x), e.arms)
                                     THEN UnifyArms(Vals) ELSE Ill
        [] e.op = "concat"        -> ConcatTy(Parts)
        [] e.op = "replicate"     -> ReplicateTy(e.n, Parts)
        [] e.op = "index"         -> IndexTy(TypeOf(e.x), TypeOf(e.i))
        [] e.op = "slice"         -> SliceTy(TypeOf(e.x), e.hi, e.lo)
        [] e.op \in Resizes       -> ResizeTy(e.op, TypeOf(e.x), e.n)
        [] e.op \in Casts         -> CastTy(e.op, TypeOf(e.x))
        [] e.op = "abs"           -> AbsTy(TypeOf(e.x))
        [] e.op \in NegReds       -> NegRedTy(TypeOf(e.x))
        [] e.op \in Extrema       -> ExtremumTy(TypeOf(e.x), TypeOf(e.y))

\* `check_expr`: e against the type its context declares.  The expectation
\* goes into the arms of an `if` or a `match`.
RECURSIVE Accepts(_, _)
Accepts(e, t) ==
  CASE e.op = "if"    -> CondOk(TypeOf(e.c)) /\ Accepts(e.x, t) /\ Accepts(e.y, t)
    [] e.op = "match" -> /\ PatternsOk(TypeOf(e.x), e.arms)
                         /\ \A i \in 1..Len(e.arms) : Accepts(e.arms[i].val, t)
    [] OTHER          -> LET got == TypeOf(e)
                         IN  got # Ill /\ (IF got.ct THEN Fit(got, t) ELSE got = t)
=============================================================================
