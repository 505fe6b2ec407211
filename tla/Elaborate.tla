----------------------------- MODULE Elaborate ------------------------------
(****************************************************************************)
(* The simulator's elaboration: one flat design out of a tree of modules. A   *)
(* child is elaborated first, then inlined: its signals get the prefix of the *)
(* instance, its clocks the parent's names, and every expression of its body  *)
(* is rewritten through one substitution. A design is a record; an error is   *)
(* kept in its `errs`, which is empty exactly when elaboration succeeds.      *)
(****************************************************************************)
EXTENDS StaticCheck

CONSTANTS MaxDepth,    \* MAX_INSTANCE_DEPTH
          Strict       \* SimMode::Strict

Bits == 0..127         \* the evaluator's width: an index must be below it
NoFn == [n \in {} |-> 0]

(* Rw: consts fold an index, subst replaces a name, insts are the instances.  *)
(* What cannot be rewritten becomes a leaf that carries the error.            *)
Failed(code) == [k |-> "failed", code |-> code]
FailuresIn(e) == {e[i].code : i \in {j \in DOMAIN e : e[j].k = "failed"}}

RwIx(rw, ix) ==
  IF ix.var \notin DOMAIN rw.subst THEN ix
  ELSE LET to == rw.subst[ix.var]
       IN IF to.k = "lit" THEN Num(ix.off + to.v) ELSE Plus(to.n, ix.off)
RwName(rw, n) == IF n \in DOMAIN rw.subst THEN rw.subst[n].n ELSE n

RwField(rw, l) ==
  LET key == [i \in DOMAIN l.key |-> RwIx(rw, l.key[i])]
  IN IF l.n \notin rw.insts THEN l
     ELSE IF key = <<>> THEN Read(Join(l.n, l.port))
     ELSE IF ~Known(key[1], rw.consts) THEN Failed("S0240")
     ELSE Read(Join(Keyed(l.n, ValueOf(key[1], rw.consts)), l.port))

RECURSIVE RwLeaf(_, _)
RwLeaf(rw, l) ==
  CASE l.k = "read" -> IF l.n \in DOMAIN rw.subst THEN rw.subst[l.n] ELSE l
    [] l.k = "cell" -> Cell(RwName(rw, l.n), RwIx(rw, l.ix))
    [] l.k = "out" -> RwField(rw, l)
    [] l.k = "first" -> IfFirst(RwIx(rw, l.ix), RwLeaf(rw, l.then), RwLeaf(rw, l.els))
    [] l.k = "bit" -> [l EXCEPT !.e = [i \in DOMAIN @ |-> RwLeaf(rw, @[i])]]
    [] OTHER -> l
RwExpr(rw, e) == [i \in DOMAIN e |-> RwLeaf(rw, e[i])]

RECURSIVE RwStmt(_, _, _)
RwStmt(rw, prefix, s) ==
  LET Body(ss) == [i \in DOMAIN ss |-> RwStmt(rw, prefix, ss[i])]
  IN CASE s.s = "assign" ->
            Assign(Join(prefix, s.n), [i \in DOMAIN s.at |-> RwIx(rw, s.at[i])], RwExpr(rw, s.e))
       [] s.s = "default" -> Default(Join(prefix, s.n), RwExpr(rw, s.e))
       [] s.s = "if" -> If(RwExpr(rw, s.c), Body(s.then), Body(s.els))
       [] s.s = "loop" -> Loop(s.v, RwIx(rw, s.lo), RwIx(rw, s.hi), Body(s.body))

RECURSIVE StmtFailures(_)
StmtFailures(stmts) ==
  LET One(s) == CASE s.s \in {"assign", "default"} -> FailuresIn(s.e)
                  [] s.s = "if" -> FailuresIn(s.c) \cup StmtFailures(s.then \o s.els)
                  [] OTHER -> StmtFailures(s.body)
  IN UNION {One(s) : s \in ToSet(stmts)}

-----------------------------------------------------------------------------
(* Before the worklist: names of instances, and foreach lowered to repeats.   *)
\* Fault: instances inside a repeat or foreach are not collected.
CollectInstNamesDirect(items, env) == NamesOf(items, {"inst"})
RECURSIVE CollectInstNames(_, _)
CollectInstNames(items, env) ==
  LET One(it) == CASE it.t = "inst" -> {it.n}
                   [] it.t = "repeat" -> CollectInstNames(it.items, env)
                   [] it.t = "constif" -> CollectInstNames(Branch(it, env), env)
                   [] OTHER -> {}
  IN UNION {One(it) : it \in ToSet(items)}

RECURSIVE CollectLoweredForeach(_, _)
CollectLoweredForeach(items, env) ==
  LET One(it) == CASE it.t = "foreach" -> LowerForeach(it, items)
                   [] it.t = "constif" -> CollectLoweredForeach(Branch(it, env), env)
                   [] OTHER -> <<>>
  IN Each1(One, items)

(* `items` are the module's own direct items, wherever the block stands. *)
RECURSIVE LowerForeachInSeq(_, _)
LowerForeachInSeq(stmts, items) ==
  LET One(s) ==
        CASE s.s = "each" -> LowerForeachInSeq(LowerEach(s, items), items)
          [] s.s = "if" -> <<If(s.c, LowerForeachInSeq(s.then, items), LowerForeachInSeq(s.els, items))>>
          [] s.s = "loop" -> <<[s EXCEPT !.body = LowerForeachInSeq(@, items)]>>
          [] OTHER -> <<s>>
  IN Each1(One, stmts)

-----------------------------------------------------------------------------
(* What is gathered of a module: its own pieces and, apart until `finish`,    *)
(* the pieces of its instances (Flat).                                        *)
NoPieces == [wires |-> <<>>, regs |-> <<>>, mems |-> <<>>, comb |-> <<>>, procs |-> <<>>,
             unknown |-> {}, errs |-> {}]
Absorb(a, b) ==
  [wires |-> a.wires \o b.wires, regs |-> a.regs \o b.regs, mems |-> a.mems \o b.mems,
   comb |-> a.comb \o b.comb, procs |-> a.procs \o b.procs,
   unknown |-> a.unknown \cup b.unknown, errs |-> a.errs \cup b.errs]

Start == [inputs |-> <<>>, outputs |-> <<>>, wires |-> <<>>, regs |-> <<>>, mems |-> <<>>,
          comb |-> NoFn, bits |-> NoFn, procs |-> <<>>, clocks |-> <<>>, resets |-> <<>>,
          asserts |-> <<>>, errs |-> {}, flat |-> NoPieces]
Fail(st, code) == [st EXCEPT !.errs = @ \cup {code}]
Set(f, x, v) == [y \in DOMAIN f \cup {x} |-> IF y = x THEN v ELSE f[y]]

(* A whole drive replaces the signal's driver; an indexed one adds one driver *)
(* per bit, a constant split into its own bits.                               *)
IsConstant(rw, e) == Len(e) = 1 /\ (e[1].k = "lit" \/ (e[1].k = "read" /\ e[1].n \in DOMAIN rw.consts))
ConstantOf(rw, e) == IF e[1].k = "lit" THEN e[1].v ELSE rw.consts[e[1].n]
RecordDrive(st, rw, d) ==
  LET at == [i \in DOMAIN d.at |-> RwIx(rw, d.at[i])]
      rhs == RwExpr(rw, d.e)
      ok == [st EXCEPT !.errs = @ \cup FailuresIn(rhs)]
      hi == ValueOf(at[1], rw.consts)
      lo == ValueOf(at[Len(at)], rw.consts)
      had == IF d.n \in DOMAIN st.bits THEN st.bits[d.n] ELSE NoFn
      BitAt(b) == IF Len(at) = 1 THEN rhs
                  ELSE IF IsConstant(rw, rhs) THEN <<Lit((ConstantOf(rw, rhs) \div 2^(b - lo)) % 2)>>
                  ELSE <<BitOf(rhs, b - lo)>>
      all == [b \in DOMAIN had \cup lo..hi |-> IF b \in lo..hi THEN BitAt(b) ELSE had[b]]
  IN IF at = <<>> THEN [ok EXCEPT !.comb = Set(@, d.n, <<rhs>>)]
     ELSE IF \E i \in DOMAIN at : ~Known(at[i], rw.consts) THEN Fail(st, "S0240")
     ELSE IF hi \notin Bits \/ lo \notin Bits THEN Fail(st, "S0134")
     ELSE IF hi < lo THEN Fail(st, "S0136")
     ELSE [ok EXCEPT !.bits = Set(@, d.n, all)]

-----------------------------------------------------------------------------
(* Inlining one instance. `child` is its module, elaborated.                  *)
ConnOf(inst, p) == LET is == {i \in DOMAIN inst.conns : inst.conns[i].p = p}
                   IN IF is = {} THEN <<>> ELSE <<inst.conns[Min(is)].e>>
ClockOf(rw, inst, c) ==                    \* explicit connection, else the same name
  LET conn == ConnOf(inst, c)
  IN IF conn = <<>> THEN Read(c)
     ELSE LET e == RwExpr(rw, conn[1])
          IN IF Len(e) = 1 /\ e[1].k = "read" THEN e[1] ELSE Failed("S0133")

Inlined(rw, inst, iname, child) ==
  LET Prefixed(n) == Join(iname, n)
      Rename(s) == [s EXCEPT !.n = Prefixed(@)]
      Renamed(ss) == [i \in DOMAIN ss |-> Rename(ss[i])]
      signals == child.inputs \o child.outputs \o child.wires
      names == {s.n : s \in ToSet(signals \o child.regs \o child.mems)}
      clocks == ToSet(child.clocks \o child.resets)
      ClockFor(c) == ClockOf(rw, inst, c)
      subst == [n \in DOMAIN child.consts \cup names \cup clocks |->
                  IF n \in clocks THEN ClockFor(n)
                  ELSE IF n \in names THEN Read(Prefixed(n)) ELSE Lit(child.consts[n])]
      crw == [insts |-> {}, consts |-> child.consts, subst |-> subst]
      driven == SelectSeq(child.outputs \o child.wires,
                          LAMBDA s : s.n \in DOMAIN child.comb \cup child.unknown)
      logic == SelectSeq(driven, LAMBDA s : s.n \in DOMAIN child.comb)
      Input(s) == LET conn == ConnOf(inst, s.n)
                  IN [n |-> Prefixed(s.n),
                      e |-> <<IF conn = <<>> THEN <<Failed("S0112")>> ELSE RwExpr(rw, conn[1])>>]
      Logic(s) == [n |-> Prefixed(s.n), e |-> [i \in DOMAIN child.comb[s.n] |->
                                                 RwExpr(crw, child.comb[s.n][i])]]
      Proc(p) == [clk |-> IF p.clk \in clocks THEN RwName(crw, p.clk) ELSE p.clk,
                  body |-> [i \in DOMAIN p.body |-> RwStmt(crw, iname, p.body[i])]]
      inputs == [i \in DOMAIN child.inputs |-> Input(child.inputs[i])]
      bad == {ClockFor(c) : c \in clocks}
  IN IF child.errs # {} THEN [NoPieces EXCEPT !.errs = child.errs]
     ELSE IF \E l \in bad : l.k = "failed" THEN [NoPieces EXCEPT !.errs = {"S0133"}]
     ELSE [wires |-> Renamed(child.inputs) \o Renamed(driven),
           regs |-> Renamed(child.regs), mems |-> Renamed(child.mems),
           comb |-> inputs \o [i \in DOMAIN logic |-> Logic(logic[i])],
           procs |-> [i \in DOMAIN child.procs |-> Proc(child.procs[i])],
           unknown |-> {Prefixed(s.n) : s \in {t \in ToSet(driven) : t.n \notin DOMAIN child.comb}},
           errs |-> UNION {FailuresIn(inputs[i].e[1]) : i \in DOMAIN inputs}]

(* An extern module has no body: unknown outputs, or an error when strict.    *)
InlinedExtern(m, iname, params) ==
  LET outs == SelectSeq(m.items, LAMBDA it : it.t = "out")
      wires == [i \in DOMAIN outs |-> [n |-> Join(iname, outs[i].n), w |-> ValueOf(outs[i].w, params)]]
  IN IF Strict THEN [NoPieces EXCEPT !.errs = {"S0113"}]
     ELSE [NoPieces EXCEPT !.wires = wires, !.unknown = {w.n : w \in ToSet(wires)}]

-----------------------------------------------------------------------------
(* After the worklist: instance drivers join the module's own, bits become    *)
(* one concatenation (widest first), and each register takes the clock of the *)
(* last block that assigns it.                                                *)
ClockAssigning(procs, n) ==
  LET owners == {i \in DOMAIN procs : n \in Targets(procs[i].body)}
  IN IF owners = {} THEN <<>> ELSE procs[Max(owners)].clk

Finish(st) ==
  LET f == st.flat
      wires == st.wires \o f.wires
      procs == st.procs \o f.procs
      Clashes == \/ \E i \in DOMAIN f.comb : f.comb[i].n \in DOMAIN st.comb
                 \/ \E i, j \in DOMAIN f.comb : i # j /\ f.comb[i].n = f.comb[j].n
      merged == FoldLeft(LAMBDA c, d : Set(c, d.n, d.e), st.comb, f.comb)
      signals == ToSet(st.inputs \o st.outputs \o wires)
      WidthFor(n) == (CHOOSE s \in signals : s.n = n).w
      Undeclared == \E n \in DOMAIN st.bits : n \notin {s.n : s \in signals}
      Undriven == \E n \in DOMAIN st.bits : ~(0..WidthFor(n) - 1 \subseteq DOMAIN st.bits[n])
      Concat(n) == [i \in 1..WidthFor(n) |-> st.bits[n][WidthFor(n) - i]]
      Clocked(rs) == [i \in DOMAIN rs |-> [rs[i] EXCEPT !.clk = ClockAssigning(procs, rs[i].n)]]
  IN IF Clashes THEN Fail(st, "S0128")
     ELSE IF Undeclared THEN Fail(st, "S0129")
     ELSE IF Undriven THEN Fail(st, "S0130")
     ELSE [st EXCEPT !.wires = wires, !.procs = procs,
                     !.regs = Clocked(@ \o f.regs), !.mems = Clocked(@ \o f.mems),
                     !.comb = [n \in DOMAIN merged \cup DOMAIN st.bits |->
                                 IF n \in DOMAIN st.bits THEN Concat(n) ELSE merged[n]]]


(* The worklist. `cx` is the module's context: its project, direct items,     *)
(* constants, instance names and depth.                                       *)
Rw(cx, env, subst) == [insts |-> cx.insts, consts |-> env, subst |-> subst]
Rw0(cx) == Rw(cx, cx.consts, NoFn)

RECURSIVE ElabModule(_, _, _, _), FlattenInstance(_, _, _, _, _), RunWorklist(_, _, _),
          ElaborateRepeat(_, _, _, _), RepeatBodyItem(_, _, _, _, _)

Absorbing(st, f) == [st EXCEPT !.flat = Absorb(@, f), !.errs = @ \cup f.errs]
Bind(cx, st, it, iname, rw, cm, cp) ==
  IF \/ \E a \in ToSet(it.args) : ~Known(a.ix, rw.consts)
     \/ DOMAIN cp # {p.n : p \in ToSet(cm.params)}
  THEN Fail(st, "S0240")
  ELSE Absorbing(st, IF cm.extern THEN InlinedExtern(cm, iname, cp)
                     ELSE Inlined(rw, it, iname, ElabModule(cx.P, it.m, cp, cx.depth + 1)))
FlattenInstance(cx, st, it, iname, rw) ==
  Bind(cx, st, it, iname, rw, cx.P.mods[it.m],
       Binding(cx.P.mods[it.m], Args(it, rw.consts), NoFn))

(* In a repeat only the innermost variable is substituted; outer ones are     *)
(* known to constant evaluation alone.                                        *)
RepeatBodyItem(cx, st, it, env, subst) ==
  CASE it.t = "inst" ->
         IF it.key # <<>> /\ ~Known(it.key[1], env) THEN Fail(st, "S0240")
         ELSE FlattenInstance(cx, st, it,
                              IF it.key = <<>> THEN it.n ELSE Keyed(it.n, ValueOf(it.key[1], env)),
                              Rw(cx, env, subst))
    [] it.t = "drive" -> RecordDrive(st, Rw(cx, env, subst), it)
    [] it.t = "repeat" -> ElaborateRepeat(cx, st, it, env)
    [] it.t = "constif" ->
         IF ~Known(it.c, env) THEN Fail(st, "S0240")
         ELSE FoldLeft(LAMBDA s, i : RepeatBodyItem(cx, s, i, env, subst), st, Branch(it, env))
    [] OTHER -> Fail(st, "S0126")

Iterations(cx, st, r, env, lo, hi) ==
  IF hi - lo > RepeatBudget THEN Fail(st, "S0124")
  ELSE FoldLeft(LAMBDA s, i : FoldLeft(LAMBDA a, it : RepeatBodyItem(cx, a, it, Bound(env, r.v, i),
                                                                     [n \in {r.v} |-> Lit(i)]),
                                       s, r.items),
                st, Steps(lo, hi))
ElaborateRepeat(cx, st, r, env) ==
  IF ~(Known(r.lo, env) /\ Known(r.hi, env)) THEN Fail(st, "S0240")
  ELSE Iterations(cx, st, r, env, ValueOf(r.lo, env), ValueOf(r.hi, env))

Width(cx, it) == [n |-> it.n, w |-> ValueOf(it.w, cx.consts)]
AddWire(st, n, e) ==
  [st EXCEPT !.wires = Append(@, [n |-> n, w |-> 1]), !.comb = Set(@, n, <<e>>),
             !.errs = @ \cup FailuresIn(e)]
AddMem(st, n, depth) ==
  [st EXCEPT !.mems = Append(@, [n |-> n, depth |-> depth, clk |-> <<>>]),
             !.errs = @ \cup When(depth < 1, "S0123")]
AddProc(st, clk, body) ==
  [st EXCEPT !.procs = Append(@, [clk |-> clk, body |-> body]), !.errs = @ \cup StmtFailures(body)]
Rewritten(rw, body) == [i \in DOMAIN body |-> RwStmt(rw, <<>>, body[i])]

ModuleItem(cx, st, it) ==
  CASE it.t = "in" -> [st EXCEPT !.inputs = Append(@, Width(cx, it))]
    [] it.t = "out" -> [st EXCEPT !.outputs = Append(@, Width(cx, it))]
    [] it.t = "clock" -> [st EXCEPT !.clocks = Append(@, it.n)]
    [] it.t = "reset" -> [st EXCEPT !.resets = Append(@, it.n)]
    [] it.t = "wire" -> AddWire(st, it.n, RwExpr(Rw0(cx), it.e))
    [] it.t = "reg" -> [st EXCEPT !.regs = Append(@, [n |-> it.n, clk |-> <<>>])]
    [] it.t = "mem" -> AddMem(st, it.n, ValueOf(it.depth, cx.consts))
    [] it.t = "drive" -> RecordDrive(st, Rw0(cx), it)
    [] it.t = "on" -> AddProc(st, it.clk, Rewritten(Rw0(cx), LowerForeachInSeq(it.body, cx.items)))
    [] it.t = "inst" -> FlattenInstance(cx, st, it, it.n, Rw0(cx))
    [] it.t = "repeat" -> ElaborateRepeat(cx, st, it, cx.consts)
    [] it.t = "constif" -> RunWorklist(cx, st, Branch(it, cx.consts))
    [] it.t = "assert" -> [st EXCEPT !.asserts = Append(@, it.e)]
    [] OTHER -> st                     \* constants, and foreach: both done before
RunWorklist(cx, state, items) == FoldLeft(LAMBDA st, it : ModuleItem(cx, st, it), state, items)

(* Parameters, then the file's constants, then the module's own: a later one  *)
(* replaces an earlier one of its name.                                       *)
Finished(st) == IF st.errs # {} THEN st ELSE Finish(st)
Gathered(consts, st) ==
  [errs |-> st.errs, inputs |-> st.inputs, outputs |-> st.outputs, wires |-> st.wires,
   regs |-> st.regs, mems |-> st.mems, comb |-> st.comb, procs |-> st.procs,
   clocks |-> st.clocks, resets |-> st.resets, asserts |-> st.asserts,
   unknown |-> st.flat.unknown, consts |-> consts]
ElabModule(P, name, params, depth) ==
  LET m == P.mods[name]
      consts == Evaluated(ModuleConsts(m), Evaluated(P.consts, params))
      items == ExpandSyncPrims(m.items)
      cx == [P |-> P, items |-> items, consts |-> consts,
             insts |-> CollectInstNames(m.items, consts), depth |-> depth]
  IN Gathered(consts,
              IF depth > MaxDepth THEN Fail(Start, "S0119")
              ELSE Finished(RunWorklist(cx, Start, CollectLoweredForeach(items, consts) \o items)))

ElaborateTop(P, top) == ElabModule(P, top, Binding(P.mods[top], <<>>, NoFn), 0)
=============================================================================
