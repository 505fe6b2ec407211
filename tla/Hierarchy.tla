----------------------------- MODULE Hierarchy ------------------------------
(****************************************************************************)
(* What a tree of modules means, read with lexical scopes and no rewriting:   *)
(* the reference the flat design is held to. A scope has the path of its      *)
(* instance, what each bound name stands for (a constant, a loop variable, an *)
(* element of a memory, a clock of the parent), and everything else is a      *)
(* signal of the instance.                                                    *)
(****************************************************************************)
EXTENDS Elaborate

Scoped(path, env) == [path |-> path, env |-> env]
With(sc, v, l) == [sc EXCEPT !.env = Set(@, v, l)]
Literals(env) == [n \in DOMAIN env |-> Lit(env[n])]
Absolute(sc, n) == IF n \in DOMAIN sc.env THEN sc.env[n] ELSE Read(Join(sc.path, n))

MeanIx(sc, ix) ==
  IF ix.var = NoVar THEN ix
  ELSE LET l == Absolute(sc, ix.var)
       IN CASE l.k = "lit" -> Num(ix.off + l.v)
            [] l.k = "read" -> Plus(l.n, ix.off)
            [] OTHER -> ix
IsNum(sc, ix) == MeanIx(sc, ix).var = NoVar
NumOf(sc, ix) == MeanIx(sc, ix).off

InstPath(sc, n, key) ==
  Join(sc.path, IF key = <<>> THEN n ELSE Keyed(n, NumOf(sc, key[1])))

RECURSIVE Mean(_, _)
Mean(sc, l) ==
  CASE l.k = "read" -> Absolute(sc, l.n)
    [] l.k = "cell" -> Cell(Join(sc.path, l.n), MeanIx(sc, l.ix))
    [] l.k = "out" -> IF \A i \in DOMAIN l.key : IsNum(sc, l.key[i])
                      THEN Read(Join(InstPath(sc, l.n, l.key), l.port)) ELSE l
    [] l.k = "first" -> IF ~IsNum(sc, l.ix) THEN IfFirst(MeanIx(sc, l.ix), Mean(sc, l.then), Mean(sc, l.els))
                        ELSE IF NumOf(sc, l.ix) = 0 THEN Mean(sc, l.then) ELSE Mean(sc, l.els)
    [] l.k = "bit" -> [l EXCEPT !.e = [i \in DOMAIN @ |-> Mean(sc, @[i])]]
    [] OTHER -> l
MeanExpr(sc, e) == [i \in DOMAIN e |-> Mean(sc, e[i])]

(* A block, its loops unrolled. `mems` are the memories a foreach may name.   *)
RECURSIVE MeanBody(_, _, _)
MeanBody(sc, mems, stmts) ==
  LET Times(v, lo, hi, For(_), body) ==
        Each1(LAMBDA i : MeanBody(With(sc, v, For(i)), mems, body), Steps(lo, hi))
      One(s) ==
        CASE s.s = "assign" ->
               <<Assign(Join(sc.path, s.n), [i \in DOMAIN s.at |-> MeanIx(sc, s.at[i])], MeanExpr(sc, s.e))>>
          [] s.s = "default" -> <<Default(Join(sc.path, s.n), MeanExpr(sc, s.e))>>
          [] s.s = "if" -> <<If(MeanExpr(sc, s.c), MeanBody(sc, mems, s.then), MeanBody(sc, mems, s.els))>>
          [] s.s = "loop" -> Times(s.v, NumOf(sc, s.lo), NumOf(sc, s.hi), Lit, s.body)
          [] s.s = "each" -> Times(s.v, 0, NumOf(sc, ArrayLen(s.arr, mems)),
                                   LAMBDA i : Cell(Join(sc.path, s.arr), Num(i)), s.body)
  IN Each1(One, stmts)

-----------------------------------------------------------------------------
RECURSIVE Taken(_, _)
TakenBranch(sc, it) == IF IsNum(sc, it.c) /\ NumOf(sc, it.c) # 0 THEN it.then ELSE it.els
Taken(sc, items) ==
  Each1(LAMBDA it : IF it.t = "constif" THEN Taken(sc, TakenBranch(sc, it)) ELSE <<it>>, items)

(* The items a module generates, each with the scope it stands in. *)
RECURSIVE Generate(_, _, _)
Generate(sc, mems, items) ==
  LET Times(v, lo, hi, For(_), its) ==
        Each1(LAMBDA i : Generate(With(sc, v, For(i)), mems, its), Steps(lo, hi))
      One(it) ==
        CASE it.t = "repeat" -> Times(it.v, NumOf(sc, it.lo), NumOf(sc, it.hi), Lit, it.items)
          [] it.t = "foreach" ->
               IF it.arr = NoVar THEN Times(it.v, NumOf(sc, it.lo), NumOf(sc, it.hi), Lit, it.items)
               ELSE Times(it.v, 0, NumOf(sc, ArrayLen(it.arr, mems)),
                          LAMBDA i : Cell(Join(sc.path, it.arr), Num(i)), it.items)
          [] it.t = "constif" -> Generate(sc, mems, TakenBranch(sc, it))
          [] OTHER -> <<[it |-> it, sc |-> sc]>>
  IN Each1(One, items)

(* The bits of an output, each with its one driver; a constant driving a      *)
(* range stands for its bits.                                                 *)
SiteRange(v) == IF v.it.at = <<>> THEN {}
                ELSE NumOf(v.sc, v.it.at[Len(v.it.at)])..NumOf(v.sc, v.it.at[1])
MeanBit(v, b) ==
  LET e == MeanExpr(v.sc, v.it.e)
      k == b - NumOf(v.sc, v.it.at[Len(v.it.at)])
  IN IF Len(v.it.at) = 1 THEN e
     ELSE IF Len(e) = 1 /\ e[1].k = "lit" THEN <<Lit((e[1].v \div 2^k) % 2)>> ELSE <<BitOf(e, k)>>
Driver(sites, w) ==
  LET whole == {v \in sites : v.it.at = <<>>}
  IN IF whole # {} THEN {<<MeanExpr(v.sc, v.it.e)>> : v \in whole}
     ELSE {d \in [1..w -> {MeanBit(v, b) : v \in sites, b \in 0..w - 1}] :
             \A i \in 1..w : \E v \in sites : w - i \in SiteRange(v) /\ d[i] = MeanBit(v, w - i)}

NoHardware == [comb |-> {}, procs |-> {}, regs |-> {}, unknown |-> {}]
Together(a, b) == [comb |-> a.comb \cup b.comb, procs |-> a.procs \cup b.procs,
                   regs |-> a.regs \cup b.regs, unknown |-> a.unknown \cup b.unknown]

RECURSIVE Tree(_, _, _)
Tree(P, name, sc) ==
  LET m == P.mods[name]
      mems == OfKind(Taken(sc, m.items), {"mem"})
      seen == ToSet(Generate(sc, mems, ExpandSyncPrims(m.items)))
      Those(t) == {v \in seen : v.it.t = t}
      Name(v) == Join(sc.path, v.it.n)
      outs == {v \in Those("out") : \E d \in Those("drive") : d.it.n = v.it.n}
      procs == {[clk |-> Absolute(v.sc, v.it.clk), body |-> MeanBody(v.sc, mems, v.it.body)] : v \in Those("on")}
      Sub(v) ==
        LET cm == P.mods[v.it.m]
            path == InstPath(v.sc, v.it.n, v.it.key)
            given == [n \in {a.n : a \in ToSet(v.it.args)} |->
                        NumOf(v.sc, (CHOOSE a \in ToSet(v.it.args) : a.n = n).ix)]
            consts == Evaluated(ModuleConsts(cm), Binding(cm, given, FileConsts(P)))
            Conn(p) == ConnOf(v.it, p)
            clocks == [c \in NamesOf(cm.items, {"clock", "reset"}) |->
                         IF Conn(c) = <<>> THEN Absolute(v.sc, c) ELSE MeanExpr(v.sc, Conn(c)[1])[1]]
            env == [n \in DOMAIN consts \cup DOMAIN clocks |->
                      IF n \in DOMAIN clocks THEN clocks[n] ELSE Lit(consts[n])]
            inputs == {[n |-> Join(path, p), e |-> <<MeanExpr(v.sc, Conn(p)[1])>>] :
                         p \in NamesOf(cm.items, {"in"})}
        IN IF cm.extern
           THEN [NoHardware EXCEPT !.unknown = {Join(path, p) : p \in NamesOf(cm.items, {"out"})}]
           ELSE Together([NoHardware EXCEPT !.comb = inputs], Tree(P, v.it.m, Scoped(path, env)))
  IN FoldSet(LAMBDA v, h : Together(h, Sub(v)),
             [comb |-> {[n |-> Name(v), e |-> <<MeanExpr(v.sc, v.it.e)>>] : v \in Those("wire")}
                       \cup UNION {{[n |-> Name(v), e |-> e] :
                                      e \in Driver({d \in Those("drive") : d.it.n = v.it.n},
                                                   NumOf(v.sc, v.it.w))} : v \in outs},
              procs |-> procs,
              regs |-> {[n |-> Name(v), clk |-> {p.clk : p \in {q \in procs : Name(v) \in Targets(q.body)}}] :
                          v \in Those("reg")},
              unknown |-> {}],
             Those("inst"))

TopTree(P, top) ==
  LET m == P.mods[top]
  IN Tree(P, top, Scoped(<<>>, Literals(Evaluated(ModuleConsts(m), Binding(m, <<>>, FileConsts(P))))))

(* A flat design read the same way: one scope, its constants bound.           *)
FlatTree(d) ==
  LET sc == Scoped(<<>>, Literals(d.consts))
      procs == {[clk |-> Read(d.procs[i].clk), body |-> MeanBody(sc, <<>>, d.procs[i].body)] :
                  i \in DOMAIN d.procs}
  IN [comb |-> {[n |-> n, e |-> [i \in DOMAIN d.comb[n] |-> MeanExpr(sc, d.comb[n][i])]] : n \in DOMAIN d.comb},
      procs |-> procs,
      regs |-> {[n |-> r.n, clk |-> {Read(r.clk)}] : r \in ToSet(d.regs)},
      unknown |-> d.unknown]
=============================================================================
