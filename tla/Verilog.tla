------------------------------- MODULE Verilog -------------------------------
(****************************************************************************)
(* The Verilog expressions the emitter writes and what they mean to the tool *)
(* that reads them (IEEE 1364-2005, section 5), which is no part of the      *)
(* repository.                                                               *)
(*                                                                           *)
(* A hoisted wire stands where its name is written and carries the           *)
(* expression assigned to it: nothing else reads a hoisted wire.             *)
(****************************************************************************)
EXTENDS ExprValue

CONSTANT IntWidth    \* bits of an unsized literal (at least 32)
ASSUME IntWidthAssumption == IntWidth \in Nat \ {0}

VId(name)        == [v |-> "id", name |-> name]
VWire(def, k)    == [v |-> "wire", def |-> def, k |-> k]
VNum(n)          == [v |-> "num", n |-> n]
VSized(n, w)     == [v |-> "sized", n |-> n, w |-> w]
VUn(o, x)        == [v |-> "un", o |-> o, x |-> x]
VBin(o, x, y)    == [v |-> "bin", o |-> o, x |-> x, y |-> y]
VTern(c, x, y)   == [v |-> "tern", c |-> c, x |-> x, y |-> y]
VCat(n, parts)   == [v |-> "cat", n |-> n, parts |-> parts]
VSel(x, hi, lo)  == [v |-> "sel", x |-> x, hi |-> hi, lo |-> lo]
VBit(x, i)       == [v |-> "bit", x |-> x, i |-> i]
VCast(s, x)      == [v |-> "cast", s |-> s, x |-> x]
VParen(x)        == [v |-> "paren", x |-> x]
VRefused         == [v |-> "refused"]

VParts(t) ==
  CASE t.v = "wire"            -> <<t.def>>
    [] t.v \in {"un", "sel", "cast", "paren"} -> <<t.x>>
    [] t.v = "bin"             -> <<t.x, t.y>>
    [] t.v = "tern"            -> <<t.c, t.x, t.y>>
    [] t.v = "bit"             -> <<t.x, t.i>>
    [] t.v = "cat"             -> t.parts
    [] OTHER                   -> <<>>

RECURSIVE HasRefused(_)
HasRefused(t) == t = VRefused \/ \E i \in 1..Len(VParts(t)) : HasRefused(VParts(t)[i])

OneBit == Comparisons \cup Logic \cup Reductions \cup NegReds \cup {"lnot"}

\* The sign of an expression: one unsigned operand makes it unsigned.
RECURSIVE VSigned(_)
VSigned(t) ==
  CASE t.v = "id"              -> Decls[t.name].s
    [] t.v = "wire"            -> t.k.s
    [] t.v = "num"             -> TRUE
    [] t.v = "cast"            -> t.s
    [] t.v = "paren"           -> VSigned(t.x)
    [] t.v = "un"              -> t.o \notin OneBit /\ VSigned(t.x)
    [] t.v = "bin"             -> /\ t.o \notin OneBit
                                  /\ VSigned(t.x)
                                  /\ t.o \in Shifts \/ VSigned(t.y)
    [] t.v = "tern"            -> VSigned(t.x) /\ VSigned(t.y)
    [] t.v \in {"sized", "cat", "sel", "bit"} -> FALSE

\* The width of an expression that no context reaches.
RECURSIVE VWidth(_)
VWidth(t) ==
  CASE t.v = "id"              -> Decls[t.name].w
    [] t.v = "wire"            -> t.k.w
    [] t.v = "num"             -> IntWidth
    [] t.v = "sized"           -> t.w
    [] t.v \in {"cast", "paren"} -> VWidth(t.x)
    [] t.v = "un"              -> IF t.o \in OneBit THEN 1 ELSE VWidth(t.x)
    [] t.v = "bin"             -> IF t.o \in OneBit THEN 1
                                  ELSE IF t.o \in Shifts THEN VWidth(t.x)
                                  ELSE Larger(VWidth(t.x), VWidth(t.y))
    [] t.v = "tern"            -> Larger(VWidth(t.x), VWidth(t.y))
    [] t.v = "cat"             -> t.n * SumOf([i \in 1..Len(t.parts) |-> VWidth(t.parts[i])])
    [] t.v = "sel"             -> t.hi - t.lo + 1
    [] t.v = "bit"             -> 1

\* The bits of t in a context of width w and sign s.
RECURSIVE VBits(_, _, _, _), VReduce(_, _, _), VJoin(_, _)

VAlone(t, env)     == Val(VBits(t, VWidth(t), VSigned(t), env), VWidth(t), VSigned(t))
VNumber(t, w, s, env) == AsInt(Val(VBits(t, w, s, env), w, s))

\* A leaf of width n is extended by the sign of the context.
VLeaf(bits, n, w, s) == ExtendBits(Val(bits, n, s), w)

VAssign(t, k, env) ==
  LET w == Larger(k.w, VWidth(t)) IN Val(VBits(t, w, VSigned(t), env), k.w, k.s)

VReduce(o, t, env) ==
  IF o = "lnot" THEN Truth(VAlone(t, env).bits = 0)
  ELSE IF o \in NegReds THEN CallVal(o, VAlone(t, env)).bits
  ELSE UnaryVal(o, VAlone(t, env)).bits

\* Both sides of a comparison share the larger width and, if both are
\* signed, the sign.
VCompare(t, env) ==
  LET w == Larger(VWidth(t.x), VWidth(t.y))
      s == VSigned(t.x) /\ VSigned(t.y)
  IN  Truth(Compare(t.o, VNumber(t.x, w, s, env), VNumber(t.y, w, s, env)))

VLogic(t, env) ==
  LET x == VAlone(t.x, env).bits # 0
      y == VAlone(t.y, env).bits # 0
  IN  Truth(IF t.o = "&&" THEN x /\ y ELSE x \/ y)

VShift(t, w, s, env) ==
  LET n  == VAlone(t.y, env).bits
      by == 2^(IF n < w THEN n ELSE w)
      x  == VBits(t.x, w, s, env)
  IN  IF t.o = "<<" THEN (x * by) % 2^w ELSE x \div by

VJoin(t, env) == ReplicateVal(t.n, [i \in 1..Len(t.parts) |-> VAlone(t.parts[i], env)]).bits

VBits(t, w, s, env) ==
  CASE t.v = "id"    -> VLeaf(env[t.name], Decls[t.name].w, w, s)
    [] t.v = "wire"  -> VLeaf(VAssign(t.def, t.k, env).bits, t.k.w, w, s)
    [] t.v = "num"   -> VLeaf(t.n, IntWidth, w, s)
    [] t.v = "sized" -> VLeaf(t.n, t.w, w, s)
    [] t.v = "cast"  -> VLeaf(VAlone(t.x, env).bits, VWidth(t.x), w, s)
    [] t.v = "paren" -> VBits(t.x, w, s, env)
    [] t.v = "un" /\ t.o \in OneBit -> VReduce(t.o, t.x, env)
    [] t.v = "un" /\ t.o = "neg"    -> (-VBits(t.x, w, s, env)) % 2^w
    [] t.v = "un" /\ t.o = "not"    -> 2^w - 1 - VBits(t.x, w, s, env)
    [] t.v = "bin" /\ t.o \in Comparisons -> VCompare(t, env)
    [] t.v = "bin" /\ t.o \in Logic       -> VLogic(t, env)
    [] t.v = "bin" /\ t.o \in Shifts      -> VShift(t, w, s, env)
    [] t.v = "bin" /\ t.o \in Lossless ->
         Arith(t.o, VBits(t.x, w, s, env), VBits(t.y, w, s, env)) % 2^w
    [] t.v = "bin" /\ t.o \in Bitwise2 ->
         BitsOp(t.o, VBits(t.x, w, s, env), VBits(t.y, w, s, env))
    [] t.v = "tern"  -> IF VAlone(t.c, env).bits # 0 THEN VBits(t.x, w, s, env)
                        ELSE VBits(t.y, w, s, env)
    [] t.v = "cat"   -> VJoin(t, env)
    [] t.v = "sel"   -> (VAlone(t.x, env).bits \div 2^t.lo) % 2^(t.hi - t.lo + 1)
    [] t.v = "bit"   -> (VAlone(t.x, env).bits \div 2^VAlone(t.i, env).bits) % 2
=============================================================================
