------------------------------- MODULE Static -------------------------------
(****************************************************************************)
(* A project on its way to the simulator: read, checked, and, when the        *)
(* checker reports nothing, elaborated into the flat design the kernel runs.  *)
(****************************************************************************)
EXTENDS Hierarchy

CONSTANTS Projects, Top

VARIABLES project,   \* the source
          phase,     \* "read", "checked" or "elaborated"
          codes,     \* what the checker reported
          flat       \* the design; NoDesign before elaboration

vars == <<project, phase, codes, flat>>
NoDesign == [errs |-> {"none"}]

Init == /\ project \in Projects
        /\ phase = "read"
        /\ codes = {}
        /\ flat = NoDesign

Check == /\ phase = "read"
         /\ phase' = "checked"
         /\ codes' = Codes(project)
         /\ UNCHANGED <<project, flat>>

Elaboration == /\ phase = "checked"
               /\ codes = {}
               /\ phase' = "elaborated"
               /\ flat' = ElaborateTop(project, Top)
               /\ UNCHANGED <<project, codes>>

Next == Check \/ Elaboration
Spec == Init /\ [][Next]_vars

-----------------------------------------------------------------------------
Elaborated == phase = "elaborated" /\ flat.errs = {}

(* What a flat design names, and what it reads. *)
NamedIn(seq) == {s.n : s \in ToSet(seq)}
Nets == NamedIn(flat.inputs) \cup NamedIn(flat.outputs) \cup NamedIn(flat.wires)
State == NamedIn(flat.regs) \cup NamedIn(flat.mems)
RECURSIVE LeafNames(_), BodyNames(_)
LeafNames(l) ==
  CASE l.k = "read" -> {l.n}
    [] l.k = "cell" -> {l.n} \cup ({l.ix.var} \ {NoVar})
    [] l.k = "first" -> ({l.ix.var} \ {NoVar}) \cup LeafNames(l.then) \cup LeafNames(l.els)
    [] l.k = "bit" -> UNION {LeafNames(l.e[i]) : i \in DOMAIN l.e}
    [] l.k = "out" -> {<<"", "unresolved">>}
    [] OTHER -> {}
ExprNames(e) == UNION {LeafNames(e[i]) : i \in DOMAIN e}
BodyNames(body) ==
  LET One(s) == CASE s.s = "assign" -> ExprNames(s.e) \cup ({ix.var : ix \in ToSet(s.at)} \ {NoVar})
                  [] s.s = "default" -> ExprNames(s.e)
                  [] s.s = "if" -> ExprNames(s.c) \cup BodyNames(s.then \o s.els)
                  [] OTHER -> BodyNames(s.body)
  IN UNION {One(s) : s \in ToSet(body)}

FlatHardware == FlatTree(flat)
DriverNames(e) == UNION {ExprNames(e[i]) : i \in DOMAIN e}
Reads(hw) == UNION {{<<c.n, r>> : r \in DriverNames(c.e)} : c \in hw.comb}
Reaching(hw, names) == Closure(Reads(hw), names, {})

(* Every reference of the design names something of it that has a value.      *)
Resolved ==
  LET hw == FlatHardware
      driven == {c.n : c \in hw.comb} \cup hw.unknown \cup NamedIn(flat.inputs)
      read == UNION {DriverNames(c.e) : c \in hw.comb} \cup UNION {BodyNames(p.body) : p \in hw.procs}
              \cup UNION {ExprNames(e) : e \in ToSet(flat.asserts)}
      targets == UNION {Targets(p.body) : p \in hw.procs}
  IN /\ read \subseteq (Nets \cap driven) \cup State
     /\ NamedIn(flat.outputs) \subseteq driven
     /\ targets \subseteq State
     /\ \A p \in hw.procs : p.clk.n \in ToSet(flat.clocks)
     /\ \A r \in hw.regs : r.clk \subseteq {p.clk : p \in hw.procs}

-----------------------------------------------------------------------------
(* The first stage of a synchronizer: the one register that may read another  *)
(* clock's.                                                                   *)
IsStage(n) == Len(n) > 3 /\ SubSeq(n, 1, 3) = <<"", "", "sync">> /\ n[Len(n)] = "stage0"
ClocksOf(hw, names) == UNION {r.clk : r \in {q \in hw.regs : q.n \in Reaching(hw, names)}}
RECURSIVE Unstaged(_), Staged(_)
Unstaged(body) ==
  Each1(LAMBDA s : IF s.s = "assign" /\ IsStage(s.n) THEN <<>>
                   ELSE IF s.s = "if" THEN <<If(s.c, Unstaged(s.then), Unstaged(s.els))>> ELSE <<s>>, body)
Staged(body) ==
  Each1(LAMBDA s : IF s.s = "assign" /\ IsStage(s.n) THEN <<s>>
                   ELSE IF s.s = "if" THEN Staged(s.then \o s.els) ELSE <<>>, body)
Guarded(hw) ==
  \A p \in hw.procs :
    /\ ClocksOf(hw, BodyNames(Unstaged(p.body))) \subseteq {p.clk}
    /\ \A s \in ToSet(Staged(p.body)) : Cardinality(ClocksOf(hw, ExprNames(s.e))) <= 1

-----------------------------------------------------------------------------
(* What the checker accepts although the elaborator has no meaning for it, or *)
(* another one: each is a place of the source where the two disagree.         *)
RECURSIVE Within(_)
Within(items) ==                                     \* items at every depth
  LET Inner(it) == CASE it.t \in {"repeat", "foreach"} -> Within(it.items)
                     [] it.t = "constif" -> Within(it.then \o it.els)
                     [] OTHER -> <<>>
  IN items \o Each1(Inner, items)
AllOf(P) == UNION {ToSet(Within(P.mods[n].items)) : n \in Real(P)}
ConstsOf(P, m) == DOMAIN Evaluated(ModuleConsts(m), Binding(m, <<>>, FileConsts(P)))

(* A drive at an index only known at run time: the driver pass lets it claim  *)
(* any bit, the elaborator must fold it.                                      *)
DrivesAtRuntime(P) ==
  \E n \in Real(P) : \E d \in ToSet(Within(P.mods[n].items)) :
    d.t = "drive" /\ \E ix \in ToSet(d.at) : ix.var \in DOMAIN Scope(P, P.mods[n]) \ ConstsOf(P, P.mods[n])
(* A nested repeat whose expressions name the outer variable.                 *)
NamesOuterVariable(P) ==
  \E r \in AllOf(P) : r.t = "repeat" /\
    \E s \in ToSet(Within(r.items)) : s.t = "repeat" /\
      \E d \in ToSet(Within(s.items)) :
        \/ d.t = "drive" /\ r.v \in ExprNames(d.e)
        \/ d.t = "inst" /\ \E c \in ToSet(d.conns) : r.v \in ExprNames(c.e)
(* An item of a repeat that only the checker knows there.                     *)
AssertsInRepeat(P) ==
  \E r \in AllOf(P) : r.t \in {"repeat", "foreach"} /\ OfKind(Within(r.items), {"assert", "foreach"}) # <<>>
(* A parameter value under which a bit is driven twice or not at all: drivers *)
(* are only checked under the defaults.                                       *)
DrivenByDefaultOnly(P) == \E c \in Configs(P) : DriverCodesAt(P, P.mods[c.m], ConfigEnv(P, c)) # {}
(* A declared name that reads like a signal of an instance.                   *)
NamesCollide(P) ==
  \E n \in Real(P) : \E i \in NamesOf(P.mods[n].items, {"inst"}) : \E d \in DOMAIN Scope(P, P.mods[n]) :
    Len(d) > Len(i) /\ SubSeq(d, 1, Len(i)) = i
(* A clock or reset of a child with neither a connection nor a namesake.      *)
ClockDangles(P) ==
  \E n \in Real(P) : \E i \in ToSet(OfKind(Within(P.mods[n].items), {"inst"})) :
    \E c \in NamesOf(P.mods[i.m].items, {"clock", "reset"}) :
      ConnOf(i, c) = <<>> /\ c \notin DOMAIN Scope(P, P.mods[n])
(* A loop of a child whose variable is also a name of the child: inlining     *)
(* replaces the variable.                                                     *)
RECURSIVE LoopVars(_)
LoopVars(stmts) ==
  UNION {CASE s.s = "loop" -> {s.v} \cup LoopVars(s.body)
           [] s.s = "each" -> LoopVars(s.body)
           [] s.s = "if" -> LoopVars(s.then \o s.els)
           [] OTHER -> {} : s \in ToSet(stmts)}
LoopCaptured(P) ==
  \E i \in AllOf(P) : i.t = "inst" /\
    \E on \in ToSet(OfKind(P.mods[i.m].items, {"on"})) :
      LoopVars(on.body) \cap DOMAIN Scope(P, P.mods[i.m]) # {}

Settled(P) == ~(\/ DrivesAtRuntime(P) \/ NamesOuterVariable(P) \/ AssertsInRepeat(P) \/ DrivenByDefaultOnly(P)
                \/ NamesCollide(P) \/ ClockDangles(P) \/ LoopCaptured(P))

(* Clock crossings the clock pass does not see. *)
Clocks(m) == Len(OfKind(m.items, {"clock"}))
CrossesInstance(P) ==                    \* through the ports of an instance
  \E n \in Real(P) : Clocks(P.mods[n]) > 1 /\ OfKind(Within(P.mods[n].items), {"inst"}) # <<>>
ConstIfs(P) == {it \in AllOf(P) : it.t = "constif"}
BlockReadsInConstIf(P) ==                \* in a block under a const if
  \E n \in Real(P) : \E it \in ToSet(Within(P.mods[n].items)) : it.t = "constif" /\
    \E on \in ToSet(OfKind(it.then \o it.els, {"on"})) :
      BodyReads(on.body, P.mods[n].items) \cap NamesOf(P.mods[n].items, {"reg", "wire", "out"}) # {}
ReadsPulse(P) ==                         \* of the wire of a pulse
  \E n \in Real(P) : \E w \in ToSet(OfKind(P.mods[n].items, {"wire"})) :
    /\ IsCall(w.e, "pulse")
    /\ \E on \in ToSet(OfKind(P.mods[n].items, {"on"})) :
         on.clk = w.e[1].src /\ w.n \in BodyReads(on.body, P.mods[n].items)
ColouredTwice(P) ==                      \* a register clocked by either branch of a const if
  \E it \in ConstIfs(P) : \E a \in ToSet(OfKind(it.then, {"on"})), b \in ToSet(OfKind(it.els, {"on"})) :
    a.clk # b.clk /\ Targets(a.body) \cap Targets(b.body) # {}
Unseen(P) == CrossesInstance(P) \/ BlockReadsInConstIf(P) \/ ReadsPulse(P)

-----------------------------------------------------------------------------
(* What the checker accepts, the elaborator turns into a design in which      *)
(* every reference names a signal that has a value; it stops only at the      *)
(* limits it names, instance depth and unrolling.                             *)
Elaborates ==
  phase = "elaborated" /\ Settled(project) =>
    flat.errs \subseteq {"S0119", "S0124"} /\ (flat.errs = {} => Resolved)

(* The flat design is the hierarchy: the same drivers bit by bit, the same    *)
(* blocks on the same clocks, for every instance, however names, loop         *)
(* variables and memory elements were substituted on the way.                 *)
FlatMeansTree == Elaborated /\ Settled(project) => FlatHardware = TopTree(project, Top)

(* No signal of the flat design follows itself combinationally, although the  *)
(* checker looked at one module at a time.                                    *)
NoCombLoop ==
  Elaborated => LET hw == FlatHardware
                IN \A e \in Reads(hw) : e[1] \notin Closure(Reads(hw), {e[2]}, {})

(* A block reads only registers of its own clock, but for the first stage of  *)
(* a synchronizer, which reads one other clock.                               *)
CrossingsGuarded ==
  Elaborated /\ Settled(project) /\ ~Unseen(project) /\ ~ColouredTwice(project) => Guarded(FlatHardware)
=============================================================================
