----------------------------- MODULE StaticCheck -----------------------------
(****************************************************************************)
(* The checker passes that decide which hardware exists: names and scopes,    *)
(* index ranges under every parameter binding, drivers, and clock domains.    *)
(* Every pass runs whatever the others found; a project is accepted when no   *)
(* pass reports a code.                                                       *)
(****************************************************************************)
EXTENDS Integers, Sequences, SequencesExt, FiniteSetsExt, Hardware

CONSTANTS RepeatBudget,      \* iterations a pass unrolls: REPEAT_BUDGET
          MaxRepeatChecks    \* iterations the width pass walks: MAX_REPEAT_CHECKS

(* A project of one file: P.mods maps a name to its module, P.consts lists    *)
(* the file's constants in order.                                             *)
Evaluated(decls, env) ==
  FoldLeft(LAMBDA e, d : IF Known(d.ix, e) THEN Bound(e, d.n, ValueOf(d.ix, e)) ELSE e, env, decls)
FileConsts(P) == Evaluated(P.consts, [n \in {} |-> 0])
ModuleConsts(m) == OfKind(m.items, {"const"})
ScopeEnv(P, m) == Evaluated(ModuleConsts(m), FileConsts(P))     \* without parameters

(* Each parameter from its argument, else its default; earlier ones in scope. *)
Binding(m, given, env) ==
  FoldLeft(LAMBDA e, p : LET v == IF p.n \in DOMAIN given THEN Num(given[p.n]) ELSE p.ix
                         IN IF Known(v, e) THEN Bound(e, p.n, ValueOf(v, e)) ELSE e,
           env, m.params)
Args(inst, env) ==
  LET known == {a \in ToSet(inst.args) : Known(a.ix, env)}
  IN [n \in {a.n : a \in known} |-> ValueOf((CHOOSE a \in known : a.n = n).ix, env)]
DefaultEnv(P, m) == Evaluated(ModuleConsts(m), Binding(m, <<>>, FileConsts(P)))

-----------------------------------------------------------------------------
(* Pass 6, names. A scope maps a name to what its first declaration made it.  *)
RECURSIVE DeclsOf(_, _)
DeclsOf(items, env) ==
  LET Flop(s) == IF s.s = "assign" /\ IsCall(s.e, "double_flop")
                 THEN <<[n |-> Hidden(s.n, "stage0"), as |-> "reg"]>> ELSE <<>>
      One(it) ==
        CASE it.t \in {"in", "out", "clock", "reset", "reg", "mem", "const"} -> <<[n |-> it.n, as |-> it.t]>>
          [] it.t = "inst" -> <<[n |-> it.n, as |-> "inst", m |-> it.m]>>
          [] it.t = "wire" ->
               <<[n |-> it.n, as |-> "wire"]>> \o
               (IF IsCall(it.e, "pulse")
                THEN [i \in 1..4 |-> [n |-> Hidden(it.n, <<"toggle", "stage0", "stage1", "stage2">>[i]),
                                      as |-> "reg"]]
                ELSE <<>>)
          [] it.t = "on" -> Each1(Flop, it.body)
          [] it.t \in {"repeat", "foreach"} -> DeclsOf(it.items, env)
          [] it.t = "constif" -> DeclsOf(Branch(it, env), env)
          [] OTHER -> <<>>
  IN Each1(One, items)

ParamDecls(m) == [i \in DOMAIN m.params |-> [n |-> m.params[i].n, as |-> "param"]]
Decls(P, m) == ParamDecls(m) \o DeclsOf(m.items, ScopeEnv(P, m))
Scope(P, m) ==
  LET ds == Decls(P, m)
  IN [n \in {d.n : d \in ToSet(ds)} |-> ds[Min({i \in DOMAIN ds : ds[i].n = n})]]

When(condition, code) == IF condition THEN {code} ELSE {}
Is(sc, n, kinds) == n \in DOMAIN sc /\ sc[n].as \in kinds
IsUnknown(sc, env, n) == n # NoVar /\ n \notin DOMAIN sc /\ n \notin DOMAIN env

RECURSIVE LeafCodes(_, _, _, _)
LeafCodes(P, sc, env, l) ==
  CASE l.k = "read" -> When(IsUnknown(sc, env, l.n), "E0101")
    [] l.k = "cell" -> When(IsUnknown(sc, env, l.n) \/ IsUnknown(sc, env, l.ix.var), "E0101")
    [] l.k = "out" ->
         When(l.n \notin DOMAIN sc \/ \E ix \in ToSet(l.key) : IsUnknown(sc, env, ix.var), "E0101")
         \cup When(Is(sc, l.n, {"mem", "const", "clock", "reset"}), "E0105")
         \cup When(/\ Is(sc, l.n, {"inst"})
                   /\ sc[l.n].m \in DOMAIN P.mods
                   /\ l.port \notin NamesOf(P.mods[sc[l.n].m].items, {"out"}), "E0104")
    [] l.k = "sync" ->
         LeafCodes(P, sc, env, l.sig)
         \cup When(~(Is(sc, l.src, {"clock"}) /\ Is(sc, l.dst, {"clock"}) /\ l.src # l.dst), "E0702")
    [] l.k = "first" ->
         When(IsUnknown(sc, env, l.ix.var), "E0101")
         \cup LeafCodes(P, sc, env, l.then) \cup LeafCodes(P, sc, env, l.els)
    [] OTHER -> {}
ExprCodes(P, sc, env, e) == UNION {LeafCodes(P, sc, env, l) : l \in ToSet(e)}

TargetCodes(sc, env, n, at) ==
  When(IsUnknown(sc, env, n) \/ \E ix \in ToSet(at) : IsUnknown(sc, env, ix.var), "E0101")
  \cup When(/\ n \in DOMAIN sc \cup DOMAIN env
            /\ ~Is(sc, n, {"out", "wire", "reg", "mem"}), "E0108")
  \cup When(Is(sc, n, {"mem"}) /\ at = <<>>, "E0108")

InstCodes(P, sc, env, it) ==
  LET m == P.mods[it.m]
      inputs == NamesOf(m.items, {"in"})
      implicit == NamesOf(m.items, {"clock", "reset"})
      ports == [i \in DOMAIN it.conns |-> it.conns[i].p]
      Twice == \E i, j \in DOMAIN ports : i # j /\ ports[i] = ports[j]
  IN UNION {ExprCodes(P, sc, env, c.e) : c \in ToSet(it.conns)}
     \cup When(\E ix \in ToSet(it.key) \cup {a.ix : a \in ToSet(it.args)} : IsUnknown(sc, env, ix.var), "E0101")
     \cup (IF it.m \notin DOMAIN P.mods THEN {"E0102"}
           ELSE When(\E a \in ToSet(it.args) : a.n \notin {p.n : p \in ToSet(m.params)}, "E0106")
                \cup When(~(ToSet(ports) \subseteq inputs \cup implicit), "E0107")
                \cup When(Twice \/ ~(inputs \subseteq ToSet(ports)), "E0302"))

Bounds(env, lo, hi) == When(~(Known(lo, env) /\ Known(hi, env)), "E0201")
LowBound(env, lo) == IF Known(lo, env) THEN ValueOf(lo, env) ELSE 0

RECURSIVE StmtCodes(_, _, _, _, _)
StmtCodes(P, sc, env, siblings, stmts) ==
  LET One(s) ==
        CASE s.s = "assign" -> TargetCodes(sc, env, s.n, s.at) \cup ExprCodes(P, sc, env, s.e)
          [] s.s = "if" -> ExprCodes(P, sc, env, s.c)
                           \cup StmtCodes(P, sc, env, siblings, s.then \o s.els)
          [] s.s = "default" -> When(~Is(sc, s.n, {"reg"}), "E0809") \cup ExprCodes(P, sc, env, s.e)
          [] s.s = "loop" -> Bounds(env, s.lo, s.hi)
                             \cup StmtCodes(P, sc, Bound(env, s.v, LowBound(env, s.lo)), siblings, s.body)
          [] s.s = "each" -> When(~HasArray(s.arr, siblings), "E0417")
                             \cup StmtCodes(P, sc, env, siblings, LowerEach(s, siblings))
  IN UNION {One(s) : s \in ToSet(stmts)}

Generated == {"drive", "inst", "repeat", "foreach", "constif", "assert"}
RECURSIVE ItemCodes(_, _, _, _)
ItemCodes(P, sc, env, items) ==
  LET One(it) ==
        CASE it.t \in {"wire", "assert"} -> ExprCodes(P, sc, env, it.e)
          [] it.t = "drive" -> TargetCodes(sc, env, it.n, it.at) \cup ExprCodes(P, sc, env, it.e)
          [] it.t = "inst" -> InstCodes(P, sc, env, it)
          [] it.t = "on" -> When(~Is(sc, it.clk, {"clock"}), "E0109")
                            \cup StmtCodes(P, sc, env, items, it.body)
          [] it.t = "repeat" ->
               When(\E i \in DOMAIN it.items : it.items[i].t \notin Generated, "E0303")
               \cup Bounds(env, it.lo, it.hi)
               \cup ItemCodes(P, sc, Bound(env, it.v, LowBound(env, it.lo)), it.items)
          [] it.t = "foreach" ->
               When(it.arr # NoVar /\ ~HasArray(it.arr, items), "E0417")
               \cup ItemCodes(P, sc, env, LowerForeach(it, items))
          [] it.t = "constif" ->
               IF Known(it.c, env) THEN ItemCodes(P, sc, env, Branch(it, env)) ELSE {"E0811"}
          [] OTHER -> {}
  IN UNION {One(it) : it \in ToSet(items)}

NameCodes(P, m) ==
  LET sc == Scope(P, m)
      ds == Decls(P, m)
  IN When(\E i, j \in DOMAIN ds : i # j /\ ds[i].n = ds[j].n, "E0003")
     \cup When(/\ \E n \in DOMAIN sc : sc[n].as = "reg"
               /\ \A n \in DOMAIN sc : sc[n].as # "reset", "E0301")
     \cup When(\E c \in ToSet(ModuleConsts(m)) : ~Known(c.ix, ScopeEnv(P, m)), "E0201")
     \cup ItemCodes(P, sc, ScopeEnv(P, m), m.items)

-----------------------------------------------------------------------------
(* What a pass that unrolls visits: items with the environment they are       *)
(* visited under. One budget of iterations serves the whole module; a repeat  *)
(* over what is left of it is visited once, without its variable.             *)
RECURSIVE Visit(_, _, _)
Visit(items, env, left) ==
  LET Then(acc, r) == [seen |-> acc.seen \o r.seen, left |-> r.left]
      Repeated(acc, it) ==
        LET lo == ValueOf(it.lo, env)
            hi == ValueOf(it.hi, env)
            spent == [acc EXCEPT !.left = @ - Len(Steps(lo, hi))]
        IN IF \/ ~(Known(it.lo, env) /\ Known(it.hi, env))
              \/ hi - lo > acc.left
           THEN Then(acc, Visit(it.items, env, acc.left))
           ELSE FoldLeft(LAMBDA a, i : Then(a, Visit(it.items, Bound(env, it.v, i), a.left)),
                         spent, Steps(lo, hi))
      One(acc, it) ==
        CASE it.t = "repeat" -> Repeated(acc, it)
          [] it.t = "foreach" -> Then(acc, Visit(LowerForeach(it, items), env, acc.left))
          [] it.t = "constif" -> Then(acc, Visit(Branch(it, env), env, acc.left))
          [] OTHER -> [acc EXCEPT !.seen = Append(@, [it |-> it, env |-> env])]
  IN FoldLeft(One, [seen |-> <<>>, left |-> left], items)

Visited(P, m) == Visit(m.items, DefaultEnv(P, m), RepeatBudget).seen

-----------------------------------------------------------------------------
(* Pass 7's share: a constant index past the width of its signal, under every *)
(* binding some instantiation reaches. A long repeat is sampled at its first  *)
(* two steps and its last; a foreach over a memory is walked once.            *)
Sampled(lo, hi) == IF hi - lo > MaxRepeatChecks THEN <<lo, lo + 1, hi - 1>> ELSE Steps(lo, hi)
RECURSIVE WalkWidths(_, _)
WalkWidths(items, env) ==
  LET Times(it) == IF ~(Known(it.lo, env) /\ Known(it.hi, env)) THEN <<>>
                   ELSE Each1(LAMBDA i : WalkWidths(it.items, Bound(env, it.v, i)),
                              Sampled(ValueOf(it.lo, env), ValueOf(it.hi, env)))
      One(it) ==
        CASE it.t = "repeat" -> Times(it)
          [] it.t = "foreach" -> IF it.arr = NoVar THEN Times(it) ELSE WalkWidths(it.items, env)
          [] it.t = "constif" -> WalkWidths(Branch(it, env), env)
          [] OTHER -> <<[it |-> it, env |-> env]>>
  IN Each1(One, items)

WidthOf(m, n, env) ==
  LET p == CHOOSE it \in ToSet(m.items) : it.t \in {"in", "out"} /\ it.n = n
  IN ValueOf(p.w, env)
RangeCodes(m, env) ==
  LET drives == {v \in ToSet(WalkWidths(m.items, env)) : v.it.t = "drive" /\ v.it.n \in NamesOf(m.items, {"out"})}
      Outside(v) == \E ix \in ToSet(v.it.at) :
                      Known(ix, v.env) /\ ValueOf(ix, v.env) \notin 0..WidthOf(m, v.it.n, env) - 1
      Reversed(v) == Len(v.it.at) = 2 /\ ValueOf(v.it.at[1], v.env) < ValueOf(v.it.at[2], v.env)
  IN When(\E v \in drives : Outside(v) \/ Reversed(v), "E0406")

ConfigEnv(P, c) == Evaluated(ModuleConsts(P.mods[c.m]), c.env)
Found(P, c) ==
  LET seen == WalkWidths(P.mods[c.m].items, ConfigEnv(P, c))
  IN {[m |-> v.it.m, env |-> Binding(P.mods[v.it.m], Args(v.it, v.env), FileConsts(P))] :
        v \in {w \in ToSet(seen) : w.it.t = "inst" /\ w.it.m \in DOMAIN P.mods
                                   /\ ~P.mods[w.it.m].extern}}
RECURSIVE Reached(_, _, _)
Reached(P, work, done) ==
  IF work = {} THEN done
  ELSE LET new == UNION {Found(P, c) : c \in work}
       IN Reached(P, new \ (done \cup work), done \cup work)
Real(P) == {n \in DOMAIN P.mods : ~P.mods[n].extern}
Configs(P) ==
  Reached(P, {[m |-> n, env |-> Binding(P.mods[n], <<>>, FileConsts(P))] : n \in Real(P)}, {})

-----------------------------------------------------------------------------
(* Pass 8, drivers. A drive claims the whole signal, a constant range of its  *)
(* bits, or (the index unknown) any bit.                                      *)
Extent(at, env) ==
  IF at = <<>> THEN [of |-> "whole"]
  ELSE IF \/ \E i \in DOMAIN at : ~Known(at[i], env) \/ ValueOf(at[i], env) < 0
          \/ Len(at) = 2 /\ ValueOf(at[1], env) < ValueOf(at[2], env)
       THEN [of |-> "dynamic"]
       ELSE [of |-> "range", hi |-> ValueOf(at[1], env), lo |-> ValueOf(at[Len(at)], env)]
Conflict(a, b) == a.of = "range" /\ b.of = "range" => a.lo <= b.hi /\ b.lo <= a.hi

Sites(m, n, seen) ==
  LET drives == SelectSeq(seen, LAMBDA v : v.it.t = "drive" /\ v.it.n = n)
  IN [i \in DOMAIN drives |-> Extent(drives[i].it.at, drives[i].env)]

OutputCodes(m, n, seen, env) ==
  LET sites == Sites(m, n, seen)
      Covered == \A b \in 0..WidthOf(m, n, env) - 1 :
                   \E i \in DOMAIN sites : sites[i].lo <= b /\ b <= sites[i].hi
  IN When(\E i, j \in DOMAIN sites : i < j /\ Conflict(sites[i], sites[j]), "E0501")
     \cup When(\/ sites = <<>>
               \/ (\A i \in DOMAIN sites : sites[i].of = "range") /\ ~Covered, "E0502")

RECURSIVE Targets(_)
Targets(stmts) ==
  LET One(s) == CASE s.s \in {"assign", "default"} -> {s.n}
                  [] s.s = "if" -> Targets(s.then \o s.els)
                  [] OTHER -> Targets(s.body)
  IN UNION {One(s) : s \in ToSet(stmts)}

DriverCodesAt(P, m, env) ==
  LET seen == Visit(m.items, env, RepeatBudget).seen
      sc == Scope(P, m)
      drives == {v.it : v \in {w \in ToSet(seen) : w.it.t = "drive"}}
      blocks == {i \in DOMAIN seen : seen[i].it.t = "on"}
      Blocks(n) == Cardinality({i \in blocks : n \in Targets(seen[i].it.body)})
  IN UNION {OutputCodes(m, n, seen, env) : n \in NamesOf(m.items, {"out"})}
     \cup When(\E d \in drives : Is(sc, d.n, {"wire"}), "E0501")
     \cup When(\/ \E d \in drives : Is(sc, d.n, {"reg", "mem"})
               \/ \E i \in blocks : \E n \in Targets(seen[i].it.body) : Is(sc, n, {"wire", "out"}), "E0505")
     \cup When(\/ \E n \in NamesOf(m.items, {"reg"}) : Blocks(n) # 1
               \/ \E n \in NamesOf(m.items, {"mem"}) : Blocks(n) > 1, "E0503")

DriverCodes(P, m) == DriverCodesAt(P, m, DefaultEnv(P, m))

(* The combinational graph: a node is a signal or one output of an instance,  *)
(* an edge goes from what is driven to what its driver reads.                 *)
Sig(n) == [sig |-> n]
InstOut(i, key, p) == [inst |-> i, key |-> key, port |-> p]
IxReads(sc, ix) == IF Is(sc, ix.var, {"wire", "out", "in"}) THEN {Sig(ix.var)} ELSE {}
(* Fault: the outputs of instances are not nodes of the graph. *)
RECURSIVE CombReadsSignals(_, _, _)
CombReadsSignals(sc, env, l) ==
  CASE l.k = "read" -> IxReads(sc, Plus(l.n, 0))
    [] l.k = "first" -> CombReadsSignals(sc, env, l.then) \cup CombReadsSignals(sc, env, l.els)
    [] OTHER -> {}
RECURSIVE CombReads(_, _, _)
CombReads(sc, env, l) ==
  CASE l.k = "read" -> IxReads(sc, Plus(l.n, 0))
    [] l.k = "cell" -> IxReads(sc, Plus(l.n, 0)) \cup IxReads(sc, l.ix)
    [] l.k = "out" -> IF Is(sc, l.n, {"inst"}) /\ \A ix \in ToSet(l.key) : Known(ix, env)
                      THEN {InstOut(l.n, [i \in DOMAIN l.key |-> ValueOf(l.key[i], env)], l.port)} ELSE {}
    [] l.k = "first" -> IxReads(sc, l.ix) \cup CombReads(sc, env, l.then) \cup CombReads(sc, env, l.els)
    [] l.k = "sync" -> CombReads(sc, env, l.sig)
    [] OTHER -> {}
CombReadsOf(sc, env, e) == UNION {CombReads(sc, env, l) : l \in ToSet(e)}

RECURSIVE Closure(_, _, _)
Closure(edges, frontier, done) ==
  LET next == {e[2] : e \in {f \in edges : f[1] \in frontier}}
      all == done \cup frontier
  IN IF next \subseteq all THEN all ELSE Closure(edges, next \ all, all)

(* Which inputs each output of a module follows combinationally. A module met *)
(* again inside itself contributes nothing, and neither does an extern one.   *)
RECURSIVE Edges(_, _, _), Summary(_, _, _)
Edges(P, name, busy) ==
  LET m == P.mods[name]
      sc == Scope(P, m)
      InstEdges(v) ==
        LET ins == Summary(P, v.it.m, busy \cup {name})
            key == [i \in {j \in DOMAIN v.it.key : Known(v.it.key[j], v.env)} |->
                      ValueOf(v.it.key[i], v.env)]
            Feeds(o) == UNION {CombReadsOf(sc, v.env, c.e) :
                                 c \in {d \in ToSet(v.it.conns) : d.p \in ins[o]}}
        IN UNION {{<<InstOut(v.it.n, key, o), r>> : r \in Feeds(o)} : o \in DOMAIN ins}
      One(v) ==
        CASE v.it.t = "wire" -> {<<Sig(v.it.n), r>> : r \in CombReadsOf(sc, v.env, v.it.e)}
          [] v.it.t = "drive" /\ Is(sc, v.it.n, {"out", "wire"}) ->
               {<<Sig(v.it.n), r>> : r \in CombReadsOf(sc, v.env, v.it.e)
                                            \cup UNION {IxReads(sc, ix) : ix \in ToSet(v.it.at)}}
          [] v.it.t = "inst" -> InstEdges(v)
          [] OTHER -> {}
  IN UNION {One(v) : v \in ToSet(Visited(P, m))}

Summary(P, name, busy) ==
  IF name \notin DOMAIN P.mods \/ name \in busy \/ P.mods[name].extern THEN [o \in {} |-> {}]
  ELSE LET edges == Edges(P, name, busy)
           items == P.mods[name].items
       IN [o \in NamesOf(items, {"out"}) |->
             {i \in NamesOf(items, {"in"}) : Sig(i) \in Closure(edges, {Sig(o)}, {})}]

CycleCodes(P, name) ==
  LET edges == Edges(P, name, {})
      After(n) == {e[2] : e \in {f \in edges : f[1] = n}}
  IN When(\E e \in edges : e[1] \in Closure(edges, After(e[1]), {}), "E0504")

-----------------------------------------------------------------------------
(* Pass 9, clock domains, one module at a time. It colours both branches of a *)
(* const if, a repeat once, and gives the output of an instance no domain;    *)
(* only the blocks among the module's direct items have their reads checked.  *)
RECURSIVE Everything(_)
Everything(items) ==
  LET One(it) == CASE it.t = "repeat" -> Everything(it.items)
                   [] it.t = "foreach" -> Everything(LowerForeach(it, items))
                   [] it.t = "constif" -> Everything(it.then \o it.els)
                   [] OTHER -> <<it>>
  IN Each1(One, items)

RECURSIVE DomReads(_)
DomReads(l) ==
  CASE l.k = "read" -> {l.n}
    [] l.k = "cell" -> {l.n, l.ix.var}
    [] l.k = "first" -> {l.ix.var} \cup DomReads(l.then) \cup DomReads(l.els)
    [] OTHER -> {}                             \* also the arguments of sync.*
DomReadsOf(e) == UNION {DomReads(l) : l \in ToSet(e)}

RECURSIVE BodyReads(_, _)
BodyReads(stmts, siblings) ==
  LET One(s) ==
        CASE s.s = "assign" -> DomReadsOf(s.e) \cup {ix.var : ix \in ToSet(s.at)}
          [] s.s = "default" -> DomReadsOf(s.e)
          [] s.s = "if" -> DomReadsOf(s.c) \cup BodyReads(s.then \o s.els, siblings)
          [] s.s = "loop" -> {s.lo.var, s.hi.var} \cup BodyReads(s.body, siblings)
          [] s.s = "each" -> BodyReads(LowerEach(s, siblings), siblings)
  IN UNION {One(s) : s \in ToSet(stmts)}

(* The clock of a register: of the first block, in order, that assigns it.    *)
RegClock(all, n) ==
  LET owners == {i \in DOMAIN all : all[i].t = "on" /\ n \in Targets(all[i].body)}
  IN IF owners = {} THEN {} ELSE {all[Min(owners)].clk}
DriveReads(all, n) ==
  UNION {DomReadsOf(it.e) \cup (IF it.t = "drive" THEN {ix.var : ix \in ToSet(it.at)} ELSE {}) :
           it \in {j \in ToSet(OfKind(all, {"wire", "drive"})) : j.n = n}}
DomEdges(all) ==
  UNION {{<<n, r>> : r \in DriveReads(all, n)} :
           n \in {v \in NamesOf(all, {"out", "wire"}) : RegClock(all, v) = {}}}
\* Fault: the domain of a wire is not looked for through other wires.
DomainsDirect(all, n) == RegClock(all, n)
Domains(all, n) == UNION {RegClock(all, r) : r \in Closure(DomEdges(all), {n}, {})}

RECURSIVE CallsIn(_), CallsInBody(_)
CallsIn(l) == CASE l.k = "sync" -> 1 + CallsIn(l.sig)
                [] l.k = "first" -> CallsIn(l.then) + CallsIn(l.els)
                [] OTHER -> 0
CallsInExpr(e) == FoldLeft(LAMBDA n, l : n + CallsIn(l), 0, e)
CallsInBody(stmts) ==
  LET One(s) == CASE s.s \in {"assign", "default"} -> CallsInExpr(s.e)
                  [] s.s = "if" -> CallsInExpr(s.c) + CallsInBody(s.then \o s.els)
                  [] OTHER -> CallsInBody(s.body)
  IN FoldLeft(LAMBDA n, s : n + One(s), 0, stmts)
CallsInItem(it) ==
  CASE it.t \in {"wire", "drive", "assert"} -> CallsInExpr(it.e)
    [] it.t = "inst" -> FoldLeft(LAMBDA n, c : n + CallsInExpr(c.e), 0, it.conns)
    [] it.t = "on" -> CallsInBody(it.body)
    [] OTHER -> 0

Flops(on) == SelectSeq(on.body, LAMBDA s : s.s = "assign" /\ IsCall(s.e, "double_flop"))
SyncCodes(m, all) ==
  LET ons == OfKind(m.items, {"on"})
      pulses == SelectSeq(OfKind(m.items, {"wire"}), LAMBDA it : IsCall(it.e, "pulse"))
      placed == FoldLeft(LAMBDA n, on : n + Len(Flops(on)), Len(pulses), ons)
      Total == FoldLeft(LAMBDA n, it : n + CallsInItem(it), 0, all)
      BadFlop(on, c) == /\ c.dst = on.clk /\ c.sig.k = "read"
                        /\ Domains(all, c.sig.n) \notin {{}, {c.src}}
      BadPulse(c) == c.sig.k = "read" /\ Domains(all, c.sig.n) # {c.src}
      Calls(on) == {s.e[1] : s \in ToSet(Flops(on))}
  IN When(\E on \in ToSet(ons) : \E c \in Calls(on) : BadFlop(on, c), "E0704")
     \cup When(\E w \in ToSet(pulses) : BadPulse(w.e[1]), "E0704")
     \cup When(\E on \in ToSet(ons) : \E c \in Calls(on) : c.dst # on.clk, "E0705")
     \cup When(Total > placed, "E0705")

ClockCodes(m) ==
  LET all == Everything(m.items)
      Mixed == \E n \in NamesOf(all, {"out", "wire"}) : Cardinality(Domains(all, n)) > 1
      Foreign(on) == \E n \in BodyReads(on.body, m.items) : ~(Domains(all, n) \subseteq {on.clk})
  IN IF Cardinality({i \in DOMAIN all : all[i].t = "clock"}) < 2 THEN {}
     ELSE When(Mixed \/ \E on \in ToSet(OfKind(m.items, {"on"})) : Foreign(on), "E0701")
          \cup SyncCodes(m, all)

-----------------------------------------------------------------------------
Codes(P) ==
  UNION {NameCodes(P, P.mods[n]) : n \in Real(P)}
  \cup UNION {RangeCodes(P.mods[c.m], ConfigEnv(P, c)) : c \in Configs(P)}
  \cup UNION {DriverCodes(P, P.mods[n]) \cup CycleCodes(P, n) \cup ClockCodes(P.mods[n]) : n \in Real(P)}
Accepted(P) == Codes(P) = {}
=============================================================================
