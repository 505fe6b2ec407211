------------------------------- MODULE MCKernel -------------------------------
(****************************************************************************)
(* Instances of Kernel: registers on both edges of one clock and on a       *)
(* second clock, two resets, a two-cell memory read and written past its    *)
(* end, and programs chosen so that every statement kind meets the others.  *)
(****************************************************************************)
EXTENDS Kernel, FiniteSets, TLC

MCReg == {"a", "b", "f", "g"}
MCRegClock == [r \in MCReg |-> IF r = "g" THEN "ck2" ELSE "ck"]
MCRegEdge  == [r \in MCReg |-> IF r = "f" THEN "fall" ELSE "rise"]
MCResetValue == "a" :> 1 @@ "b" :> 0 @@ "f" :> 1 @@ "g" :> 0
MCMemInit == "m" :> 3
MCDepth == "m" :> 2
MCWidth == "ck" :> 1 @@ "ck2" :> 1 @@ "rst" :> 1 @@ "arst" :> 1 @@ "in" :> 1
           @@ "a" :> 2 @@ "b" :> 1 @@ "f" :> 1 @@ "g" :> 1 @@ "m" :> 1

MCBoundExpr == {"0", "1", "2", "3", "i"}
MCAddrExpr == {"a", "b", "2"}
MCExpr == MCBoundExpr \cup
  {"a", "b", "f", "in", "not in", "a+1", "a=3", "b=0", "i+a", "m[b]", "m[a]",
   "i=1", "bad if f", "safe", "probe"}

\* The module-level assert and cover.
MCAsserts == <<"safe">>
MCCoverCond == "comb" :> "probe"

Bound(s, v) == IF s.known[v] = Unbound THEN 0 ELSE s.known[v]
AsBit(p) == IF p THEN 1 ELSE 0

\* "a+1" and "i+a" are the wrapping sums.
MCEval(e, s) ==
  CASE e = "0" -> 0 [] e = "1" -> 1 [] e = "2" -> 2 [] e = "3" -> 3
    [] e = "in" -> s.leaves["in"]
    [] e = "not in" -> 1 - s.leaves["in"]
    [] e = "a" -> s.regs["a"] [] e = "b" -> s.regs["b"] [] e = "f" -> s.regs["f"]
    [] e = "a+1" -> (s.regs["a"] + 1) % 4
    [] e = "a=3" -> AsBit(s.regs["a"] = 3)
    [] e = "b=0" -> AsBit(s.regs["b"] = 0)
    [] e = "m[b]" -> s.cells[<<"m", s.regs["b"]>>]
    [] e = "m[a]" -> s.cells[<<"m", s.regs["a"]>>]
    [] e = "i" -> Bound(s, "i")
    [] e = "i=1" -> AsBit(Bound(s, "i") = 1)
    [] e = "i+a" -> (Bound(s, "i") + s.regs["a"]) % 4
    [] e = "bad if f" -> 0
    [] e = "safe" -> AsBit(s.regs["a"] # 3 \/ s.regs["f"] = 1 \/ s.leaves["in"] = 0)
    [] e = "probe" -> AsBit(s.regs["b"] = 0)

\* A loop variable outside its loop is an unknown signal.
MCFails(e, s) ==
  \/ e \in {"i", "i=1", "i+a"} /\ s.known["i"] = Unbound
  \/ e = "bad if f" /\ s.regs["f"] = 1
  \/ e = "probe" /\ s.regs["g"] = 1 /\ s.regs["f"] = 0
-----------------------------------------------------------------------------
Default(r, v) == [kind |-> "default", reg |-> r, val |-> v]
To(r, v)      == [kind |-> "assign", reg |-> r, val |-> v]
Bits(r, hi, lo, v) ==
  [kind |-> "patch", reg |-> r, hi |-> hi, lo |-> lo, usesVar |-> FALSE, val |-> v]
Store(a, v)   == [kind |-> "memWrite", mem |-> "m", addr |-> a, val |-> v]
When(c, t, e) == [kind |-> "if", cond |-> c, then |-> t, els |-> e]
For(v, l, h, b) == [kind |-> "loop", var |-> v, lo |-> l, hi |-> h, body |-> b]
Check(c)      == [kind |-> "assert", cond |-> c]
Hit(id, c)    == [kind |-> "cover", id |-> id, cond |-> c]
On(c, e, b)   == [clock |-> c, edge |-> e, body |-> b]

\* A swap, an override of a default written after it, a late default.
Swap == << On("ck", "rise", <<To("a", "b"), To("b", "a"),
                              When("in", <<To("a", "a+1"), Default("a", "2")>>, <<>>)>>),
           On("ck", "fall", <<When("a=3", <<To("f", "not in")>>, <<Default("f", "b=0")>>)>>),
           On("ck2", "rise", <<To("g", "f"), Hit("seq", "in")>>) >>

\* Patches of one register accumulate, over a default and a whole write.
Bitwise2 == << On("ck", "rise", <<Bits("a", 0, 0, "in"), Bits("a", 1, 1, "not in"),
                                  When("b=0", <<Bits("a", 1, 0, "a+1")>>, <<Bits("b", 0, 0, "0")>>),
                                  Default("b", "in")>>) >>

\* Reads see the cells before the edge; writes past the end are dropped.
Memory == << On("ck", "rise", <<Store("b", "in"), Store("a", "b=0"), To("b", "m[b]")>>),
             On("ck", "rise", <<To("a", "a+1"), When("m[a]", <<Hit("seq", "1")>>, <<>>)>>) >>

\* Nested loops over one variable, with a bound read from the outer one.
Loops == << On("ck", "rise", <<For("i", "1", "3",
                 <<For("i", "0", "i", <<Hit("seq", "i=1")>>),
                   To("a", "i+a"), When("i=1", <<To("b", "in")>>, <<>>)>>)>>) >>

\* An assert that fails late, after writes, hits and memory writes.
Checked == << On("ck", "rise", <<To("a", "a+1"), Store("b", "in"), Hit("seq", "1"), Check("not in")>>),
              On("ck", "fall", <<To("f", "in")>>) >>

\* Errors of evaluation, of a constant index and of the loop budget.
Erring == << On("ck", "rise", <<To("a", "a+1"), To("b", "bad if f")>>),
             On("ck", "fall", <<When("in", <<Bits("f", 1, 0, "in")>>,
                                     <<For("i", "0", "3", <<To("f", "1")>>)>>)>>) >>

MCPrograms == {Swap, Bitwise2, Memory, Loops, Checked, Erring}

RECURSIVE SubBodies(_)
SubBodies(b) == {b} \cup UNION { LET s == b[i] IN
  CASE s.kind = "if" -> SubBodies(s.then) \cup SubBodies(s.els)
    [] s.kind = "loop" -> SubBodies(s.body)
    [] OTHER -> {} : i \in DOMAIN b}

Bodies(programs) ==
  UNION {UNION {SubBodies(p[i].body) : i \in DOMAIN p} : p \in programs}
MCBody == Bodies(Programs)

\* A list is larger than the lists in it: it has them, and itself.
MCNesting == [b \in MCBody |-> Cardinality(SubBodies(b))]

MCTargets == [b \in MCBody |->
  UNION {{c[i].reg : i \in {j \in DOMAIN c : c[j].kind \in {"default", "assign", "patch"}}}
         : c \in SubBodies(b)}]

MCMemTargets == [b \in MCBody |->
  UNION {{c[i].mem : i \in {j \in DOMAIN c : c[j].kind = "memWrite"}} : c \in SubBodies(b)}]
=============================================================================
