------------------------------ MODULE Hardware ------------------------------
(****************************************************************************)
(* Modules of the source language, as the checker and the elaborator walk     *)
(* them.  A name is the sequence of its parts between underscores, so that    *)
(* `{inst}_{port}` is a concatenation and two names collide exactly when the  *)
(* strings do.  An expression is the sequence of its leaves: every pass keeps *)
(* the operators, and the properties tell only the leaves apart.              *)
(****************************************************************************)
LOCAL INSTANCE Integers
LOCAL INSTANCE Sequences
LOCAL INSTANCE SequencesExt
LOCAL INSTANCE TLC

N(s) == <<s>>
Join(prefix, n) == prefix \o n                      \* {prefix}_{n}
Keyed(n, i) == n \o <<"", ToString(i)>>             \* {n}__{i}
Hidden(n, suffix) == <<"", "", "sync">> \o n \o <<suffix>>
ForeachIdx(v) == <<"", "", "foreach">> \o v \o <<"idx">>

-----------------------------------------------------------------------------
(* An index or a compile-time value: a variable plus an offset. *)
NoVar == <<>>
Plus(v, k) == [var |-> v, off |-> k]
Num(k) == Plus(NoVar, k)

Known(ix, env) == ix.var = NoVar \/ ix.var \in DOMAIN env
ValueOf(ix, env) == ix.off + (IF ix.var = NoVar THEN 0 ELSE env[ix.var])
Bound(env, v, x) == [w \in DOMAIN env \cup {v} |-> IF w = v THEN x ELSE env[w]]
Steps(lo, hi) == [i \in 1..(IF hi > lo THEN hi - lo ELSE 0) |-> lo + i - 1]

(* Leaves. *)
Read(n) == [k |-> "read", n |-> n]
Lit(v) == [k |-> "lit", v |-> v]
Cell(n, ix) == [k |-> "cell", n |-> n, ix |-> ix]                 \* n[ix]
OutOf(i, p) == [k |-> "out", n |-> i, key |-> <<>>, port |-> p]   \* i.p
OutOfAt(i, ix, p) == [k |-> "out", n |-> i, key |-> <<ix>>, port |-> p]
SyncCall(f, sig, src, dst) ==
  [k |-> "sync", f |-> f, sig |-> sig, src |-> src, dst |-> dst]
IfFirst(ix, l, m) == [k |-> "first", ix |-> ix, then |-> l, els |-> m]
BitOf(e, b) == [k |-> "bit", e |-> e, b |-> b]                    \* e[b]

IsCall(e, f) == Len(e) = 1 /\ e[1].k = "sync" /\ e[1].f = f

(* Statements of an `on` block. `at` is the target's index, if it has one.    *)
Assign(n, at, e) == [s |-> "assign", n |-> n, at |-> at, e |-> e]
If(c, then, els) == [s |-> "if", c |-> c, then |-> then, els |-> els]
Default(n, e) == [s |-> "default", n |-> n, e |-> e]
Loop(v, lo, hi, body) == [s |-> "loop", v |-> v, lo |-> lo, hi |-> hi, body |-> body]
Each(v, arr, body) == [s |-> "each", v |-> v, arr |-> arr, body |-> body]

(* Module items. `at` of a drive is <<>>, <<bit>> or <<hi, lo>>. *)
Port(dir, n, w) == [t |-> dir, n |-> n, w |-> w]
Clock(n) == [t |-> "clock", n |-> n]
Reset(n) == [t |-> "reset", n |-> n]
Wire(n, e) == [t |-> "wire", n |-> n, e |-> e]
Reg(n) == [t |-> "reg", n |-> n]
Mem(n, depth) == [t |-> "mem", n |-> n, depth |-> depth]
Const(n, ix) == [t |-> "const", n |-> n, ix |-> ix]
Drive(n, at, e) == [t |-> "drive", n |-> n, at |-> at, e |-> e]
On(c, body) == [t |-> "on", clk |-> c, body |-> body]
Inst(n, key, m, args, conns) ==
  [t |-> "inst", n |-> n, key |-> key, m |-> m, args |-> args, conns |-> conns]
Repeat(v, lo, hi, items) == [t |-> "repeat", v |-> v, lo |-> lo, hi |-> hi, items |-> items]
ConstIf(c, then, els) == [t |-> "constif", c |-> c, then |-> then, els |-> els]
ForEach(v, arr, items) == [t |-> "foreach", v |-> v, arr |-> arr, items |-> items]
ForRange(v, lo, hi, items) ==
  [t |-> "foreach", v |-> v, arr |-> NoVar, lo |-> lo, hi |-> hi, items |-> items]
AssertItem(e) == [t |-> "assert", e |-> e]

Module(params, items) == [extern |-> FALSE, params |-> params, items |-> items]
Extern(params, items) == [extern |-> TRUE, params |-> params, items |-> items]

OfKind(items, kinds) == SelectSeq(items, LAMBDA it : it.t \in kinds)
NamesOf(items, kinds) == {it.n : it \in ToSet(OfKind(items, kinds))}
Branch(it, env) == IF Known(it.c, env) /\ ValueOf(it.c, env) # 0 THEN it.then ELSE it.els
Flattened(ss) == FoldLeft(LAMBDA acc, s : acc \o s, <<>>, ss)
Each1(F(_), s) == Flattened([i \in 1..Len(s) |-> F(s[i])])

-----------------------------------------------------------------------------
(* foreach x in m: the body once per cell, with m[idx] for x. Only an         *)
(* expression is substituted, never a target; an inner binder of the same     *)
(* name shadows x. The memory is looked up among the sibling items alone.     *)
RECURSIVE SubstLeaf(_, _, _)
SubstLeaf(l, v, new) ==
  CASE l.k = "read" -> IF l.n = v THEN new ELSE l
    [] l.k = "first" -> [l EXCEPT !.then = SubstLeaf(@, v, new), !.els = SubstLeaf(@, v, new)]
    [] l.k = "sync" -> [l EXCEPT !.sig = SubstLeaf(@, v, new)]
    [] OTHER -> l
SubstExpr(e, v, new) == [i \in DOMAIN e |-> SubstLeaf(e[i], v, new)]

RECURSIVE SubstStmt(_, _, _)
SubstStmt(s, v, new) ==
  LET Body(ss) == [i \in DOMAIN ss |-> SubstStmt(ss[i], v, new)]
      Shadowing(ss) == IF s.v = v THEN ss ELSE Body(ss)
  IN CASE s.s \in {"assign", "default"} -> [s EXCEPT !.e = SubstExpr(@, v, new)]
       [] s.s = "if" -> [s EXCEPT !.c = SubstExpr(@, v, new), !.then = Body(@), !.els = Body(@)]
       [] s.s \in {"loop", "each"} -> [s EXCEPT !.body = Shadowing(@)]

(* Fault: an inner binder of the same name does not shadow. *)
RECURSIVE SubstItemThrough(_, _, _)
SubstItemThrough(it, v, new) ==
  LET Items(its) == [i \in DOMAIN its |-> SubstItemThrough(its[i], v, new)]
  IN CASE it.t \in {"wire", "drive", "assert"} -> [it EXCEPT !.e = SubstExpr(@, v, new)]
       [] it.t \in {"repeat", "foreach"} -> [it EXCEPT !.items = Items(@)]
       [] it.t = "constif" -> [it EXCEPT !.then = Items(@), !.els = Items(@)]
       [] OTHER -> it

RECURSIVE SubstItem(_, _, _)
SubstItem(it, v, new) ==
  LET Items(its) == [i \in DOMAIN its |-> SubstItem(its[i], v, new)]
      Shadowing(its) == IF it.v = v THEN its ELSE Items(its)
  IN CASE it.t \in {"wire", "drive", "assert"} -> [it EXCEPT !.e = SubstExpr(@, v, new)]
       [] it.t = "inst" -> [it EXCEPT !.conns = [i \in DOMAIN @ |->
                               [@[i] EXCEPT !.e = SubstExpr(@, v, new)]]]
       [] it.t = "on" -> [it EXCEPT !.body = [i \in DOMAIN @ |-> SubstStmt(@[i], v, new)]]
       [] it.t \in {"repeat", "foreach"} -> [it EXCEPT !.items = Shadowing(@)]
       [] it.t = "constif" -> [it EXCEPT !.then = Items(@), !.els = Items(@)]
       [] OTHER -> it

MemsNamed(n, siblings) == SelectSeq(siblings, LAMBDA it : it.t = "mem" /\ it.n = n)
HasArray(n, siblings) == MemsNamed(n, siblings) # <<>>
ArrayLen(n, siblings) == MemsNamed(n, siblings)[1].depth

LowerForeach(fe, siblings) ==
  IF fe.arr = NoVar THEN <<Repeat(fe.v, fe.lo, fe.hi, fe.items)>>
  ELSE IF ~HasArray(fe.arr, siblings) THEN <<>>
  ELSE LET new == Cell(fe.arr, Plus(ForeachIdx(fe.v), 0))
       IN <<Repeat(ForeachIdx(fe.v), Num(0), ArrayLen(fe.arr, siblings),
                   [i \in DOMAIN fe.items |-> SubstItem(fe.items[i], fe.v, new)])>>

LowerEach(s, siblings) ==
  IF ~HasArray(s.arr, siblings) THEN <<>>
  ELSE LET new == Cell(s.arr, Plus(ForeachIdx(s.v), 0))
       IN <<Loop(ForeachIdx(s.v), Num(0), ArrayLen(s.arr, siblings),
                 [i \in DOMAIN s.body |-> SubstStmt(s.body[i], s.v, new)])>>

-----------------------------------------------------------------------------
(* sync.double_flop and sync.pulse become registers and blocks of their own,  *)
(* for the calls in the two legal positions among the module's direct items.  *)
LowerDoubleFlop(s) ==
  IF s.s = "assign" /\ IsCall(s.e, "double_flop")
  THEN LET stage == Hidden(s.n, "stage0")
       IN <<Assign(stage, <<>>, <<s.e[1].sig>>), Assign(s.n, s.at, <<Read(stage)>>)>>
  ELSE <<s>>

LowerOn(it) ==
  LET flops == SelectSeq(it.body, LAMBDA s : s.s = "assign" /\ IsCall(s.e, "double_flop"))
  IN [i \in DOMAIN flops |-> Reg(Hidden(flops[i].n, "stage0"))]
       \o <<On(it.clk, Each1(LowerDoubleFlop, it.body))>>

LowerPulse(it) ==
  LET c == it.e[1]
      h(suffix) == Hidden(it.n, suffix)
      Shift(to, from) == Assign(h(to), <<>>, <<Read(h(from))>>)
  IN << Reg(h("toggle")), On(c.src, <<Assign(h("toggle"), <<>>, <<Read(h("toggle")), c.sig>>)>>),
        Reg(h("stage0")), Reg(h("stage1")), Reg(h("stage2")),
        On(c.dst, <<Shift("stage0", "toggle"), Shift("stage1", "stage0"), Shift("stage2", "stage1")>>),
        Wire(it.n, <<Read(h("stage1")), Read(h("stage2"))>>) >>

ExpandSyncPrims(items) ==
  LET One(it) == CASE it.t = "on" -> LowerOn(it)
                   [] it.t = "wire" /\ IsCall(it.e, "pulse") -> LowerPulse(it)
                   [] OTHER -> <<it>>
  IN Each1(One, items)
=============================================================================
