----------------------------- MODULE ExprVerilog -----------------------------
(****************************************************************************)
(* The emitter's rendering of an expression (emit_verilog/expr.rs, kinds.rs, *)
(* self_determined.rs and the hoists of module/ports.rs).                    *)
(****************************************************************************)
EXTENDS Verilog

IsPlainIdentifier(t) == t.v \in {"id", "wire"}

-----------------------------------------------------------------------------
(* kinds.rs: the width of an expression read off the tree again, this time  *)
(* without constant folding.                                                *)
-----------------------------------------------------------------------------
IsBareInt(e)   == e.op = "int"
IsCtIntLike(e) == IsBareInt(e) \/ (e.op = "neg" /\ IsBareInt(e.x))

RECURSIVE InferKind(_)

\* A bare literal takes its sibling's kind.
AdaptedOperands(e, l, r) ==
  CASE IsBareInt(e.x) /\ ~IsBareInt(e.y) -> <<r, r>>
    [] IsBareInt(e.y) /\ ~IsBareInt(e.x) -> <<l, l>>
    [] OTHER                             -> <<l, r>>

\* The kind of the sibling of an operand that adapts, or the common one.
SiblingKind(l, r, lAdapts, rAdapts) ==
  CASE lAdapts /\ ~rAdapts -> r
    [] rAdapts /\ ~lAdapts -> l
    [] OTHER               -> MatchedResult(l, r)

InferLossless(ops, mul) ==
  IF NoKind \in {ops[1], ops[2]} THEN NoKind ELSE LosslessResult(ops[1], ops[2], mul)

\* The operands have kinds l and r.
InferBinary(e, l, r) ==
  CASE e.op \in Comparisons \cup Logic -> Kind(1, FALSE)
    [] e.op \in Shifts ->
         IF NoKind \in {l, r} THEN NoKind
         ELSE ShiftResult(l, r, IF IsBareInt(e.y) THEN e.y.n ELSE NoAmount, e.op = "<<")
    [] e.op \in Lossless -> InferLossless(AdaptedOperands(e, l, r), e.op = "*")
    [] e.op \in Wrapping \cup Bitwise2 -> SiblingKind(l, r, IsBareInt(e.x), IsBareInt(e.y))
    [] e.op \in Extrema -> SiblingKind(l, r, IsCtIntLike(e.x), IsCtIntLike(e.y))

\* Fault: a replication is counted once.
InferPartsOnce(n, ks) ==
  IF \E i \in 1..Len(ks) : ks[i] = NoKind THEN NoKind
  ELSE Kind(SumOf([i \in 1..Len(ks) |-> ks[i].w]), FALSE)

\* The parts have kinds ks.
InferParts(n, ks) ==
  IF \E i \in 1..Len(ks) : ks[i] = NoKind THEN NoKind
  ELSE Kind(n * SumOf([i \in 1..Len(ks) |-> ks[i].w]), FALSE)

\* Fault: there is no rule for the negated reductions.
InferCallNoReduction(e, k) ==
  CASE e.op \in NegReds \/ k = NoKind -> NoKind
    [] e.op \in Resizes   -> Kind(e.n, k.s)
    [] e.op = "signed"    -> Kind(k.w, TRUE)
    [] e.op = "unsigned"  -> Kind(k.w, FALSE)
    [] e.op = "abs"       -> Kind(k.w + 1, TRUE)

\* The argument has kind k.
InferCall(e, k) ==
  CASE e.op \in NegReds   -> Kind(1, FALSE)
    [] e.op \notin NegReds /\ k = NoKind -> NoKind
    [] e.op \in Resizes /\ k # NoKind    -> Kind(e.n, k.s)
    [] e.op = "signed" /\ k # NoKind     -> Kind(k.w, TRUE)
    [] e.op = "unsigned" /\ k # NoKind   -> Kind(k.w, FALSE)
    [] e.op = "abs" /\ k # NoKind        -> Kind(k.w + 1, TRUE)

\* The first known kind of a branch.
FirstKnown(ks) ==
  LET known == {i \in 1..Len(ks) : ks[i] # NoKind}
  IN  IF known = {} THEN NoKind ELSE ks[CHOOSE i \in known : \A j \in known : i <= j]

Branches(e) == IF e.op = "if" THEN <<e.x, e.y>> ELSE [i \in 1..Len(e.arms) |-> e.arms[i].val]

\* The sub-expressions that an expression of more than one takes its kind from.
KindParts(e) == IF e.op \in {"concat", "replicate"} THEN e.parts ELSE Branches(e)

\* From the kinds of those.
InferMany(e, ks) ==
  CASE e.op = "concat"          -> InferParts(1, ks)
    [] e.op = "replicate"       -> InferParts(e.n, ks)
    [] e.op \in {"if", "match"} -> FirstKnown(ks)

InferKind(e) ==
  CASE e.op = "int"                -> Kind(NaturalWidth(e.n), FALSE)
    [] e.op = "ident"              -> Decls[e.name]
    [] e.op = "slice"              -> Kind(e.hi - e.lo + 1, FALSE)
    [] e.op = "index"              -> IF e.x.op = "ident" THEN Kind(1, FALSE) ELSE NoKind
    [] e.op \in UnOps              -> InferKind(e.x)
    [] e.op \in BinOps \cup Extrema -> InferBinary(e, InferKind(e.x), InferKind(e.y))
    [] e.op \in {"concat", "replicate", "if", "match"} ->
         InferMany(e, [i \in 1..Len(KindParts(e)) |-> InferKind(KindParts(e)[i])])
    [] OTHER                       -> InferCall(e, InferKind(e.x))

-----------------------------------------------------------------------------
(* self_determined.rs: the width Verilog gives the text where no context    *)
(* reaches it.  NoKind: no rule differs from the language's own.            *)
-----------------------------------------------------------------------------
RECURSIVE SelfDeterminedKind(_)

\* `self_determined_operand_width`
SelfDeterminedWidth(own, inferred) == IF own = NoKind THEN inferred.w ELSE own.w

\* As wide as the widest of ws, with the sign of k; unknown as soon as one is.
WidestOf(ws, k) ==
  IF 0 \in ws \/ k = NoKind THEN NoKind ELSE Kind(CHOOSE w \in ws : \A u \in ws : u <= w, k.s)

\* The operands whose text Verilog widens to the widest.
ContextOperands(e) ==
  CASE e.op \in (BinOps \ Comparisons) \cup Extrema -> <<e.x, e.y>>
    [] e.op \in {"if", "match"}                     -> Branches(e)
    [] OTHER                                        -> <<e.x>>

SelfDeterminedKind(e) ==
  CASE e.op \in Casts -> SelfDeterminedKind(e.x)
    [] e.op \in {"int", "ident", "trunc", "concat", "replicate", "slice", "index"}
                  \cup Comparisons \cup NegReds \cup Reductions -> NoKind
    [] e.op \in {"extend", "abs", "if", "match"} \cup Extrema
                  \cup (UnOps \ Reductions) \cup (BinOps \ Comparisons) ->
         WidestOf({SelfDeterminedWidth(SelfDeterminedKind(x), InferKind(x)) :
                     x \in {ContextOperands(e)[i] : i \in DOMAIN ContextOperands(e)}},
                  InferKind(e))

-----------------------------------------------------------------------------
(* Hoisting.                                                                *)
-----------------------------------------------------------------------------
\* `hoist_slice_base_if_needed`: a name of kind k, whatever the text.
Named(t, k) == IF IsPlainIdentifier(t) THEN t ELSE VWire(t, k)

\* `hoist_unresolved`: a diagnostic, so no Verilog is written.
HoistUnresolved(t) == IF IsPlainIdentifier(t) THEN t ELSE VRefused

\* `hoist_if_needed`: e has kind k and its text, to Verilog, kind v; only where
\* they differ.
HoistIfNeeded(t, k, v) == IF v \in {NoKind, k} THEN t ELSE Named(t, k)

\* A self-determined position: hoist, or refuse when no width is known.
SelfDetermined(t, k, v) == IF k = NoKind THEN HoistUnresolved(t) ELSE HoistIfNeeded(t, k, v)

\* The base of a select must be a name; a select is unsigned.
SelectBase(t, k) == IF k = NoKind THEN HoistUnresolved(t) ELSE Named(t, Kind(k.w, FALSE))

IsWidthEffect(e) == e.op \in Lossless \cup Wrapping

\* Fault: a wrapping operand is left where it is written.
WidthEffectNever(e, t, shift) == t

\* `hoist_width_effect_operand`
WidthEffect(e, t, shift) ==
  IF (IsWidthEffect(e) \/ (shift /\ e.op \in Shifts)) /\ InferKind(e) # NoKind
  THEN Named(t, InferKind(e)) ELSE t

-----------------------------------------------------------------------------
(* Rendering.                                                               *)
-----------------------------------------------------------------------------
\* `resolve_const_value`: a literal under `extend` and `trunc` only.
RECURSIVE ResolveConst(_)
ResolveConst(e) ==
  CASE e.op = "int"         -> Const(e.n)
    [] e.op = "extend"      -> ResolveConst(e.x)
    [] e.op = "trunc"       -> LET x == ResolveConst(e.x)
                               IN  IF x.is THEN Const(x.v % 2^e.n) ELSE NotConst
    [] OTHER                -> NotConst

RECURSIVE Render(_), RenderContext(_, _)

RECURSIVE AnyPattern(_, _)
AnyPattern(s, pats) ==
  LET p == CHOOSE p \in pats : \A q \in pats : p <= q
      test == VBin("==", s, VNum(p))
  IN  IF Cardinality(pats) = 1 THEN test ELSE VBin("||", test, AnyPattern(s, pats \ {p}))

\* Nested ternaries over the texts ts; the last arm, or the wild one, is the
\* default.
RECURSIVE RenderArms(_, _, _, _)
RenderArms(s, arms, ts, i) ==
  IF i = Len(arms) \/ arms[i].wild THEN ts[i]
  ELSE VTern(AnyPattern(s, arms[i].pats), ts[i], RenderArms(s, arms, ts, i + 1))

\* The branches have the texts ts, the condition or the scrutinee the text s.
RenderChoice(e, s, ts) == IF e.op = "if" THEN VTern(s, ts[1], ts[2]) ELSE RenderArms(s, e.arms, ts, 1)

Scrutinee(e) == IF e.op = "if" THEN e.c ELSE e.x

\* An `if` or a `match`, whose branches are in a shift's context or not.  A
\* condition that folds leaves one branch.
RenderBranching(e, shift, c) ==
  IF c.is THEN Render(IF c.v # 0 THEN e.x ELSE e.y)
  ELSE RenderChoice(e, Render(Scrutinee(e)),
                    [i \in 1..Len(Branches(e)) |->
                       WidthEffect(Branches(e)[i], Render(Branches(e)[i]), shift)])

\* `render_shift_ctx_operand`, before the hoist.
RenderContext(e, shift) ==
  IF e.op \in {"if", "match"}
  THEN RenderBranching(e, shift, IF e.op = "if" THEN ConstFold(e.c) ELSE NotConst)
  ELSE Render(e)

\* Its hoist.
HoistOperand(e, t, shift) ==
  IF ~shift /\ e.op \in {"if", "match"} /\ InferKind(e) # NoKind
  THEN Named(t, InferKind(e)) ELSE WidthEffect(e, t, shift)

RenderOperand(e, shift) == HoistOperand(e, RenderContext(e, shift), shift)

\* A bare literal of the wrapping and bitwise family, sized to its sibling.
SizedLiteral(e, sibling, t) ==
  IF IsBareInt(e) /\ InferKind(sibling) # NoKind THEN VSized(e.n, InferKind(sibling).w) ELSE t

Unwrapped(o) == CASE o = "+%" -> "+" [] o = "-%" -> "-" [] o = "*%" -> "*" [] OTHER -> o

\* An operand of a comparison: hoisted when its width is known.
Compared(e) == HoistIfNeeded(Render(e), InferKind(e), IF InferKind(e) = NoKind THEN NoKind ELSE SelfDeterminedKind(e))

\* The operands of the others have the texts l and r.
RenderBinary(e, l, r) ==
  IF e.op \in Wrapping \cup Bitwise2
  THEN VBin(Unwrapped(e.op), SizedLiteral(e.x, e.y, l), SizedLiteral(e.y, e.x, r))
  ELSE VBin(e.op, l, r)

RenderExtremum(o, x, y) ==
  IF o = "min" THEN VTern(VBin("<", x, y), x, y) ELSE VTern(VBin("<", x, y), y, x)

RenderAbs(x) == VTern(VBin("<", x, VNum(0)), VUn("neg", x), x)

\* `x[n-1:0]`, read as signed when x is.
RenderTrunc(e, sel) == IF InferKind(e.x).s THEN VCast(TRUE, sel) ELSE sel

\* The operators of one operand that is in a context, which has the text t.
RenderOfOne(e, t) ==
  CASE e.op \in UnOps \ Reductions -> VUn(e.op, t)
    [] e.op = "abs"                -> RenderAbs(t)
    [] e.op = "extend"             -> VParen(t)
    [] e.op = "trunc"              -> RenderTrunc(e, VSel(SelectBase(t, InferKind(e.x)), e.n - 1, 0))
    [] e.op = "index"              ->
         VBit(SelectBase(t, InferKind(e.x)),
              IF ConstFold(e.i).is THEN VNum(ConstFold(e.i).v) ELSE Render(e.i))

\* An operand in a position that Verilog sizes by itself.
RenderAlone(e) == SelfDetermined(RenderOperand(e, TRUE), InferKind(e), SelfDeterminedKind(e))

\* Those whose operands stand alone, with the texts ts.
RenderOfAlone(e, ts) ==
  CASE e.op \in Reductions \cup NegReds -> VUn(e.op, ts[1])
    [] e.op \in Casts                   -> VCast(e.op = "signed", ts[1])
    [] e.op = "concat"                  -> VCat(1, ts)
    [] e.op = "replicate"               -> VCat(e.n, ts)

AloneParts(e) == IF e.op \in {"concat", "replicate"} THEN e.parts ELSE <<e.x>>

\* A literal under `extend` is written at its width.
ConstExtend(e) == e.op = "extend" /\ ResolveConst(e.x).is

\* `expr_subst`
Render(e) ==
  CASE e.op = "int"                -> VNum(e.n)
    [] e.op = "ident"              -> VId(e.name)
    [] e.op \in Comparisons        -> VBin(e.op, Compared(e.x), Compared(e.y))
    [] e.op \in Extrema            -> RenderExtremum(e.op, RenderOperand(e.x, TRUE), RenderOperand(e.y, TRUE))
    [] e.op \in BinOps \ Comparisons ->
         RenderBinary(e, RenderOperand(e.x, e.op \notin Shifts), RenderOperand(e.y, TRUE))
    [] e.op \in {"if", "match"}    -> RenderContext(e, FALSE)
    [] e.op = "slice"              -> VSel(SelectBase(Render(e.x), InferKind(e.x)), e.hi, e.lo)
    [] ConstExtend(e)              -> VSized(ResolveConst(e.x).v, e.n)
    [] e.op \in (UnOps \ Reductions) \cup {"abs", "extend", "trunc", "index"} /\ ~ConstExtend(e) ->
         RenderOfOne(e, RenderOperand(e.x, TRUE))
    [] e.op \in {"concat", "replicate"} \cup Reductions \cup NegReds \cup Casts ->
         RenderOfAlone(e, [i \in 1..Len(AloneParts(e)) |-> RenderAlone(AloneParts(e)[i])])
=============================================================================
