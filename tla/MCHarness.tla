------------------------------ MODULE MCHarness ------------------------------
(* A module with a two-bit register q that adds the input d at every tick and a *)
(* bit r that samples the input rx, and the test files that are run on it.      *)
EXTENDS Harness

MCClock == {"clk"}
MCInput == {"d", "rx"}
MCOutput == {"q", "r"}
MCState == [d : 0..3, rx : 0..1, q : 0..3, r : 0..1]
MCPowerOn == [d |-> 0, rx |-> 0, q |-> 0, r |-> 0]
MCDriven(s, p, v) == [s EXCEPT ![p] = v % (IF p = "rx" THEN 2 ELSE 4)]
MCTicked(s, c) == [s EXCEPT !.q = (s.q + s.d) % 4, !.r = s.rx]
\* assert(!(q == 3 && d == 1))
MCSettled(s) == ~(s.q = 3 /\ s.d = 1)
MCPeek(s, p) == s[p]

\* Expressions: a number, a comparison of a port with a number, or an error.
Num(n) == [op |-> "num", n |-> n]
Is(p, n) == [op |-> "is", port |-> p, n |-> n]
Bad == [op |-> "bad"]
MCEval(e, s) == IF e.op = "num" THEN e.n
                ELSE IF e.op = "is" /\ s[e.port] = e.n THEN 1 ELSE 0
MCFails(e, s) == e.op = "bad"
MCHolds(e, s) == MCEval(e, s) % 2 = 1

MCDirectionOf == [led |-> "out", speaker |-> "out", uart_rx |-> "in"]
MCFallible == {"speaker"}

Write(p, n) == [kind |-> "drive", port |-> p, val |-> Num(n)]
WriteBad == [kind |-> "drive", port |-> "d", val |-> Bad]
TickBy(n) == [kind |-> "tick", clock |-> "clk", count |-> Num(n)]
TickOnce == [kind |-> "tick", clock |-> "clk", count |-> None]
TickBad == [kind |-> "tick", clock |-> "clk", count |-> Bad]
TickOf(c) == [kind |-> "tick", clock |-> c, count |-> None]
Check(p, n) == [kind |-> "expect", cond |-> Is(p, n)]
CheckBad == [kind |-> "expect", cond |-> Bad]
When(p, n, then, els) == [kind |-> "if", cond |-> Is(p, n), then |-> then, els |-> els]
Emulate(speed, binds) == [kind |-> "sim", speed |-> speed, binds |-> binds]
Bind(p, k) == [port |-> p, kind |-> k]
Of(body) == [setup |-> "ok", body |-> body]

Paced == Of(<<Write("d", 1),
              Emulate(Num(60), <<Bind("q", "led"), Bind("rx", "uart_rx")>>),
              TickOnce, Check("q", 1), TickBy(3), Check("q", 0)>>)
Plain == Of(<<Write("d", 1), TickBy(2), Check("q", 2), TickBy(0),
              When("q", 1, <<TickOnce>>, <<Write("d", 2)>>),
              TickOnce, Check("q", 0), Check("q", 1), TickOnce>>)
Music == Of(<<Write("d", 2), Emulate(Num(90), <<Bind("q", "speaker")>>),
              TickBy(2), Check("q", 0)>>)
Branch == Of(<<Write("d", 3), TickOnce,
               When("q", 3, <<Emulate(None, <<Bind("q", "led")>>)>>, <<>>),
               TickBy(3), Check("q", 0)>>)
Slow == Of(<<Emulate(Num(20), <<Bind("q", "led")>>), Write("d", 3), TickBy(2),
             Emulate(Num(70), <<Bind("r", "led")>>), TickBy(3), Check("q", 3)>>)
Asserts == Of(<<Write("d", 3), TickOnce, Write("d", 2), TickBy(3),
                Write("d", 1), TickBy(5)>>)
LiveAsserts == Of(<<Emulate(None, <<Bind("q", "led")>>), Write("d", 1), TickBy(5)>>)
Long == Of(<<TickBy(7), TickBy(4), TickBy(2)>>)

Faults == <<[setup |-> "bad", body |-> <<>>],
  Of(<<TickOf("clock")>>), Of(<<TickBy(-1)>>), Of(<<TickBad>>), Of(<<WriteBad>>),
  Of(<<Write("q", 1)>>), Of(<<CheckBad>>),
  Of(<<Emulate(Num(0), <<>>)>>), Of(<<Emulate(Bad, <<>>)>>),
  Of(<<Emulate(None, <<Bind("q", "led"), Bind("rx", "led")>>)>>),
  Of(<<Emulate(None, <<Bind("q", "uart_rx")>>)>>),
  Of(<<Emulate(None, <<Bind("q", "lcd")>>)>>), Of(<<>>)>>

MCSuites == {<<Paced, Plain>>, <<Music, Branch>>, <<Slow, Asserts>>,
             <<LiveAsserts, Long>>, Faults}
MCBody == {<<Emulate(None, <<Bind("q", "led")>>)>>, <<TickOnce>>, <<Write("d", 2)>>, <<>>}
          \cup UNION {{f[i].body : i \in DOMAIN f} : f \in MCSuites}
\* One more than the statements of a body, counting those of its branches.
MCSize ==
  LET size[b \in MCBody] ==
        FoldLeft(LAMBDA n, c : IF c.kind = "if" THEN n + size[c.then] + size[c.els] ELSE n,
                 Len(b) + 1, b)
  IN  size
MCModes == {m \in [live : BOOLEAN, step : BOOLEAN] : m.step => m.live}
=============================================================================
