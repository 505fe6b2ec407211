-------------------------------- MODULE Design --------------------------------
(****************************************************************************)
(* An elaborated design, sim/elaborate: its signals, registers, memories    *)
(* and `on` blocks, with `foreach` lowered and instances flattened.         *)
(*                                                                          *)
(* The combinational layer is abstract.  Eval gives the value of an         *)
(* expression as a function of the settled state and of the loop variables, *)
(* an integer not yet reduced to the width of its target; Fails says where  *)
(* the evaluation returns Err.                                              *)
(****************************************************************************)
EXTENDS Integers, Sequences

CONSTANTS
  Clock, Reset, Input,      \* the drivable leaves, by declaration
  Reg, Mem,
  RegClock, RegEdge,        \* the clock and the edge each register updates on
  ResetValue, MemInit,      \* declared values, before they are masked
  Depth,                    \* number of cells of each memory
  Width,                    \* declared width of every signal and memory cell
  MaxWidth,                 \* the largest of them
  Var, MaxBound,            \* loop variables; the largest loop bound
  Unbound,                  \* the value of a loop variable outside its loop
  Expr, BoundExpr, AddrExpr,\* expressions; the loop bounds; the addresses
  Address,                  \* the values of the addresses
  Eval(_, _), Fails(_, _),
  Body,                     \* the statement lists of the programs, nested ones too
  Nesting,                  \* how deep the lists within a list go
  Targets, MemTargets,      \* the registers and the memories a body assigns, at any depth
  Programs,                 \* lists of `on` blocks: [clock, edge, body]
  Asserts,                  \* conditions of the module-level asserts, in order
  Cover, CombCover,         \* every cover; the module-level ones
  CoverCond,                \* condition of each module-level cover
  RepeatBudget              \* REPEAT_BUDGET

Edge == {"rise", "fall"}
Leaf == Clock \cup Reset \cup Input
Cell == {c \in Mem \X Address : c[2] < Depth[c[1]]}

Word(n) == 0 .. 2^Width[n] - 1
AnyWord == 0 .. 2^MaxWidth - 1

Statement ==
       [kind : {"default", "assign"}, reg : Reg, val : Expr]
  \cup [kind : {"patch"}, reg : Reg, hi : Int, lo : Int, usesVar : BOOLEAN, val : Expr]
  \cup [kind : {"memWrite"}, mem : Mem, addr : AddrExpr, val : Expr]
  \cup [kind : {"if"}, cond : Expr, then : Body, els : Body]
  \cup [kind : {"loop"}, var : Var, lo : BoundExpr, hi : BoundExpr, body : Body]
  \cup [kind : {"assert"}, cond : Expr]
  \cup [kind : {"cover"}, id : Cover, cond : Expr]

Process == [clock : Clock, edge : Edge, body : Body]

\* The state an expression is evaluated in.
LeafState  == {f \in [Leaf -> AnyWord] : \A n \in Leaf : f[n] \in Word(n)}
RegState   == {f \in [Reg -> AnyWord] : \A r \in Reg : f[r] \in Word(r)}
CellState  == {f \in [Mem \X Address -> AnyWord] :
                 \A c \in Mem \X Address : f[c] \in Word(c[1])}
KnownState == [Var -> (0 .. MaxBound) \cup {Unbound}]
EvalState  == [leaves : LeafState, regs : RegState, cells : CellState,
               known : KnownState]

ASSUME SignalAssumption ==
  /\ \A n \in Leaf \cup Reg \cup Mem : Width[n] \in 1 .. MaxWidth
  /\ \A k \in 0 .. MaxWidth : 2^k \in 1 .. 2^MaxWidth
  /\ MaxWidth \in Nat /\ MaxBound \in Nat /\ RepeatBudget \in Nat
  /\ \A r \in Reg : ResetValue[r] \in Int
  /\ \A m \in Mem : MemInit[m] \in Int /\ Depth[m] \in Nat
  /\ Address \subseteq Nat

\* Loop bounds fold to naturals, addresses are unsigned bit patterns.
ASSUME EvalAssumption ==
  \A s \in EvalState :
    /\ \A e \in Expr : Eval(e, s) \in Int
    /\ \A e \in BoundExpr : Eval(e, s) \in 0 .. MaxBound
    /\ \A e \in AddrExpr : Eval(e, s) \in Address

ASSUME BodyAssumption ==
  /\ BoundExpr \subseteq Expr /\ AddrExpr \subseteq Expr
  /\ Body \subseteq Seq(Statement)
  /\ \A b \in Body :
       /\ Nesting[b] \in Nat
       /\ \A i \in DOMAIN b :
            /\ b[i].kind = "if" => /\ Nesting[b[i].then] < Nesting[b]
                                  /\ Nesting[b[i].els] < Nesting[b]
            /\ b[i].kind = "loop" => Nesting[b[i].body] < Nesting[b]
  /\ Programs \subseteq Seq(Process)

\* E0503: a register is assigned in one `on` block only.  Elaboration gives it
\* the clock and the edge of that block.
ASSUME OwnerAssumption ==
  /\ \A b \in Body : \A i \in DOMAIN b :
       /\ b[i].kind \in {"default", "assign", "patch"} => b[i].reg \in Targets[b]
       /\ b[i].kind = "if" => Targets[b[i].then] \cup Targets[b[i].els] \subseteq Targets[b]
       /\ b[i].kind = "loop" => Targets[b[i].body] \subseteq Targets[b]
  /\ \A p \in Programs : \A i \in DOMAIN p : \A r \in Targets[p[i].body] :
       RegClock[r] = p[i].clock /\ RegEdge[r] = p[i].edge

\* E0503 again: no two blocks share a register, nor a memory, whose writes are
\* in one block only.
ASSUME DriverAssumption ==
  /\ \A b \in Body : \A i \in DOMAIN b :
       /\ b[i].kind = "memWrite" => b[i].mem \in MemTargets[b]
       /\ b[i].kind = "if" => MemTargets[b[i].then] \cup MemTargets[b[i].els] \subseteq MemTargets[b]
       /\ b[i].kind = "loop" => MemTargets[b[i].body] \subseteq MemTargets[b]
  /\ \A p \in Programs : \A i, j \in DOMAIN p : i # j =>
       /\ Targets[p[i].body] \cap Targets[p[j].body] = {}
       /\ MemTargets[p[i].body] \cap MemTargets[p[j].body] = {}

\* The expressions a statement evaluates before it has any effect.
Operands(s) ==
  CASE s.kind = "memWrite" -> {s.addr, s.val}
    [] s.kind = "loop" -> {s.lo, s.hi}
    [] s.kind \in {"if", "assert", "cover"} -> {s.cond}
    [] OTHER -> {s.val}
-----------------------------------------------------------------------------
\* Fault: the value keeps the bits above the width of its target.
FitUnmasked(v, n) == v

\* `resize_to_width`: two's complement truncation, or extension with the sign
\* of the source, which an integer carries by itself.
Fit(v, n) == v % 2^Width[n]

\* `v.lsb() == 1`, the test of every condition
True(v) == v % 2 = 1

\* The bits hi..lo of v, and a value with those bits replaced.
Field(v, hi, lo) == (v \div 2^lo) % 2^(hi - lo + 1)
Patched(old, hi, lo, v) ==
  old + ((v % 2^(hi - lo + 1)) - Field(old, hi, lo)) * 2^lo

\* What `checked_index` and the order of the bounds of a slice reject.
OutOfRange(s) ==
  \/ s.hi \notin 0 .. Width[s.reg] - 1 \/ s.lo \notin 0 .. Width[s.reg] - 1
  \/ s.hi < s.lo

NoHits == [c \in Cover |-> 0]
Plus(f, g) == [c \in Cover |-> f[c] + g[c]]
=============================================================================
