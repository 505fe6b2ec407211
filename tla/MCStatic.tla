------------------------------ MODULE MCStatic ------------------------------
(****************************************************************************)
(* Small projects: a top module with two clocks, whose two outputs and two    *)
(* registers are driven in every combination of a list of ways, over a        *)
(* library of children.                                                       *)
(****************************************************************************)
EXTENDS Static

Va(x) == Plus(N(x), 0)
In(x) == Port("in", N(x), Num(1))
Out(x) == Port("out", N(x), Num(1))
Rd(x) == <<Read(N(x))>>
Bit(x, ix, e) == Drive(N(x), <<ix>>, e)
Whole(x, e) == Drive(N(x), <<>>, e)
Conn(p, e) == [p |-> N(p), e |-> e]
Arg(p, ix) == [n |-> N(p), ix |-> ix]
Par(p, ix) == [n |-> N(p), ix |-> ix]
New(n, m, args, conns) == Inst(N(n), <<>>, m, args, conns)

-----------------------------------------------------------------------------
(* The library. *)
Buf == Module(<<>>, <<In("a"), Out("y"), Whole("y", Rd("a"))>>)
(* Passes its input through or not, as its parameter says. *)
Gate == Module(<<Par("SEL", Num(1))>>,
               <<In("a"), Out("y"), Whole("y", <<IfFirst(Va("SEL"), Read(N("a")), Lit(1))>>)>>)
(* Drives the bit its parameter names, and bit 0. *)
Fill == Module(<<Par("D", Num(1))>>,
               <<In("a"), Port("out", N("y"), Num(2)), Bit("y", Va("D"), Rd("a")), Bit("y", Num(0), Rd("a"))>>)
Delay == Module(<<>>, <<Clock(N("clk")), Reset(N("rst")), In("a"), Out("y"), Reg(N("r")), Wire(N("w"), Rd("a")),
                        On(N("clk"), <<Assign(N("r"), <<>>, Rd("w"))>>), Whole("y", Rd("r"))>>)
(* A loop variable with the name of an input. *)
Shadow == Module(<<>>, <<Clock(N("clk")), Reset(N("rst")), In("a"), Out("y"), Reg(N("r")),
                         On(N("clk"), <<Loop(N("a"), Num(0), Num(2), <<Assign(N("r"), <<Va("a")>>, Rd("a"))>>)>>),
                         Whole("y", Rd("r"))>>)
Foreign == Extern(<<>>, <<In("a"), Out("y")>>)
(* Instantiates itself. *)
Chain == Module(<<>>, <<In("a"), Out("y"), New("u", "Chain", <<>>, <<Conn("a", Rd("a"))>>),
                        Whole("y", <<OutOf(N("u"), N("y"))>>)>>)
Library == [n \in {"Buf", "Gate", "Fill", "Delay", "Shadow", "Foreign", "Chain"} |->
              CASE n = "Buf" -> Buf [] n = "Gate" -> Gate [] n = "Fill" -> Fill [] n = "Delay" -> Delay
                [] n = "Shadow" -> Shadow [] n = "Foreign" -> Foreign [] n = "Chain" -> Chain]

-----------------------------------------------------------------------------
(* The two-bit output y. *)
Ripple == <<IfFirst(Va("i"), Read(N("x")), OutOfAt(N("fa"), Plus(N("i"), -1), N("y")))>>
Adder == Inst(N("fa"), <<Va("i")>>, "Buf", <<>>, <<Conn("a", Ripple)>>)
Yes == <<
  <<Whole("y", Rd("x"))>>,
  <<Whole("y", Rd("z"))>>,
  <<Bit("y", Num(0), Rd("x")), Bit("y", Num(1), Rd("p"))>>,
  <<Bit("y", Num(0), Rd("x"))>>,                                        \* a bit is missing
  <<Bit("y", Num(0), Rd("x")), Bit("y", Num(2), Rd("x"))>>,             \* no such bit
  <<Drive(N("y"), <<Num(1), Num(0)>>, Rd("K"))>>,
  <<Drive(N("y"), <<Num(1), Num(0)>>, Rd("x")), Bit("y", Num(1), Rd("x"))>>,
  <<Repeat(N("i"), Num(0), Num(2), <<Bit("y", Va("i"), <<Cell(N("m"), Va("i"))>>)>>)>>,
  <<Repeat(N("i"), Num(0), Num(3), <<Bit("y", Va("i"), Rd("x"))>>)>>,
  <<Repeat(N("i"), Num(0), Num(2), <<Adder, Bit("y", Va("i"), <<OutOfAt(N("fa"), Va("i"), N("y"))>>)>>)>>,
  <<Repeat(N("i"), Num(0), Num(2),
           <<Repeat(N("j"), Va("i"), Plus(N("i"), 1), <<Bit("y", Va("j"), <<Cell(N("m"), Va("j"))>>)>>)>>)>>,
  <<Repeat(N("i"), Num(0), Num(2),
           <<Repeat(N("j"), Num(0), Num(1), <<Bit("y", Va("i"), <<Cell(N("m"), Va("i"))>>)>>)>>)>>,
  <<Repeat(N("i"), Num(0), Num(2), <<ConstIf(Va("i"), <<Bit("y", Num(0), Rd("x"))>>, <<Bit("y", Num(1), Rd("q"))>>)>>)>>,
  <<ForRange(N("i"), Num(0), Num(2), <<Bit("y", Va("i"), Rd("x"))>>)>>,
  <<ForRange(N("i"), Num(0), Num(2), <<Bit("y", Va("i"), Rd("x")), AssertItem(Rd("x"))>>)>>,
  <<ForEach(N("el"), N("m"), <<Whole("y", Rd("el"))>>)>>,
  <<Repeat(N("i"), Num(0), Num(5), <<Bit("y", Num(0), Rd("x"))>>)>>,
  <<Repeat(N("i"), Num(0), Num(2),
           <<ConstIf(Va("i"), <<Bit("y", Va("i"), Rd("x"))>>,
                     <<Inst(N("fa"), <<Plus(N("i"), 1)>>, "Buf", <<>>, <<Conn("a", <<Cell(N("m"), Va("i"))>>)>>),
                       Bit("y", Va("i"), <<OutOfAt(N("fa"), Plus(N("i"), 1), N("y"))>>)>>)>>)>>,
  <<ForEach(N("el"), N("k"), <<Bit("y", Num(0), Rd("el")),
                               Repeat(N("el"), Num(1), Num(2), <<Bit("y", Va("el"), Rd("el"))>>)>>)>>,
  <<Bit("y", Va("x"), Rd("x"))>>,
  <<New("t", "Fill", <<>>, <<Conn("a", Rd("z"))>>), Whole("y", <<OutOf(N("t"), N("y"))>>)>>,
  <<New("t", "Fill", <<Arg("D", Num(0))>>, <<Conn("a", Rd("x"))>>), Whole("y", <<OutOf(N("t"), N("y"))>>)>> >>

(* The one-bit output z. *)
Zs == <<
  <<Whole("z", Rd("x"))>>,
  <<Whole("z", Rd("q"))>>,
  <<Whole("z", Rd("y"))>>,
  <<New("u", "Buf", <<>>, <<Conn("a", Rd("y"))>>), Whole("z", <<OutOf(N("u"), N("y"))>>)>>,
  <<New("u", "Buf", <<>>, <<>>), Whole("z", <<OutOf(N("u"), N("y"))>>)>>,
  <<New("u", "Gate", <<Arg("SEL", Num(0))>>, <<Conn("a", Rd("y"))>>), Whole("z", <<OutOf(N("u"), N("y"))>>)>>,
  <<New("u", "Gate", <<>>, <<Conn("a", Rd("y"))>>), Whole("z", <<OutOf(N("u"), N("y"))>>)>>,
  <<New("u", "Delay", <<>>, <<Conn("a", Rd("y")), Conn("clk", Rd("c"))>>), Whole("z", <<OutOf(N("u"), N("y"))>>)>>,
  <<New("u", "Delay", <<>>, <<Conn("a", Rd("x"))>>), Whole("z", <<OutOf(N("u"), N("y"))>>)>>,
  <<New("u", "Delay", <<>>, <<Conn("a", Rd("x")), Conn("clk", Rd("d"))>>), Wire(Join(N("u"), N("w")), Rd("x")),
    Whole("z", <<OutOf(N("u"), N("y"))>>)>>,
  <<New("u", "Shadow", <<>>, <<Conn("a", Rd("x")), Conn("clk", Rd("c"))>>), Whole("z", <<OutOf(N("u"), N("y"))>>)>>,
  <<New("u", "Foreign", <<>>, <<Conn("a", Rd("y"))>>), Whole("z", <<OutOf(N("u"), N("y"))>>)>>,
  <<New("u", "Chain", <<>>, <<Conn("a", Rd("x"))>>), Whole("z", <<OutOf(N("u"), N("y"))>>)>>,
  <<ConstIf(Va("K"), <<Whole("z", Rd("p"))>>, <<Whole("z", Rd("nowhere"))>>)>>,
  <<Whole("z", Rd("x")), AssertItem(Rd("z"))>> >>

(* The blocks of the registers p, on clock c, and q, on clock d. *)
Flop(sig, from, to) == <<SyncCall("double_flop", Read(N(sig)), N(from), N(to))>>
Pulse(sig, from, to) == <<SyncCall("pulse", Read(N(sig)), N(from), N(to))>>
Sets(n, e) == Assign(N(n), <<>>, e)
Blocks == <<
  <<On(N("c"), <<Sets("p", Rd("x"))>>), On(N("d"), <<Sets("q", Rd("x"))>>)>>,
  <<On(N("c"), <<Sets("p", Rd("q"))>>), On(N("d"), <<Sets("q", Rd("x"))>>)>>,
  <<On(N("c"), <<Sets("p", Rd("z"))>>), On(N("d"), <<Sets("q", Rd("y"))>>)>>,
  <<On(N("c"), <<If(Rd("x"), <<Sets("p", Flop("q", "d", "c"))>>, <<>>)>>), On(N("d"), <<Sets("q", Rd("x"))>>)>>,
  <<On(N("c"), <<Sets("p", Flop("q", "d", "c"))>>), On(N("d"), <<Sets("q", Rd("x"))>>)>>,
  <<On(N("c"), <<Sets("p", Flop("z", "d", "c"))>>), On(N("d"), <<Sets("q", Rd("x"))>>)>>,
  <<On(N("c"), <<Sets("p", Flop("q", "c", "d"))>>), On(N("d"), <<Sets("q", Rd("x"))>>)>>,
  <<On(N("c"), <<Sets("p", Rd("x"))>>), Wire(N("s"), Pulse("p", "c", "d")), On(N("d"), <<Sets("q", Rd("s"))>>)>>,
  <<On(N("c"), <<Sets("p", Rd("s"))>>), Wire(N("s"), Pulse("p", "c", "d")), On(N("d"), <<Sets("q", Rd("x"))>>)>>,
  <<On(N("c"), <<Each(N("el"), N("m"), <<If(Rd("x"), <<Sets("p", Rd("el"))>>, <<>>)>>)>>),
    On(N("d"), <<Default(N("q"), Rd("x")), Loop(N("i"), Num(0), Num(2), <<Sets("q", <<Cell(N("m"), Va("i"))>>)>>)>>)>>,
  <<On(N("c"), <<Sets("p", Rd("x"))>>), On(N("d"), <<Sets("q", Rd("x")), Sets("p", Rd("x"))>>)>>,
  <<On(N("c"), <<Sets("p", Rd("x"))>>)>>,
  <<On(N("c"), <<Sets("p", Rd("q"))>>),
    ConstIf(Va("K"), <<On(N("d"), <<Sets("q", Rd("x"))>>)>>, <<On(N("c"), <<Sets("q", Rd("x"))>>)>>)>>,
  <<On(N("c"), <<Sets("p", Rd("q"))>>),
    ConstIf(Plus(N("K"), -2), <<On(N("c"), <<Sets("q", Rd("x"))>>)>>, <<On(N("d"), <<Sets("q", Rd("x"))>>)>>)>>,
  <<On(N("d"), <<Sets("q", Rd("x"))>>), ConstIf(Va("K"), <<On(N("c"), <<Sets("p", Rd("q"))>>)>>, <<>>)>> >>

TopModule(y, z, blocks) ==
  Module(<<>>, <<Clock(N("c")), Clock(N("d")), Reset(N("rst")), In("x"), Port("out", N("y"), Num(2)), Out("z"),
                 Reg(N("p")), Reg(N("q")), Mem(N("m"), Num(2)), Mem(N("k"), Num(1))>> \o blocks \o y \o z)
Project(y, z, blocks) ==
  [consts |-> <<[n |-> N("K"), ix |-> Num(2)]>>,
   mods |-> [n \in DOMAIN Library \cup {"top"} |-> IF n = "top" THEN TopModule(y, z, blocks) ELSE Library[n]]]
MCProjects == {Project(y, z, b) : y \in ToSet(Yes), z \in ToSet(Zs), b \in ToSet(Blocks)}
MCTop == "top"

=============================================================================
