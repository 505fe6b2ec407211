------------------------------ MODULE PulseSync ------------------------------
(****************************************************************************)
(* wire p: bit = sync.pulse(signal, src, dst)                               *)
(* as ast/sync_prim_lower.rs lowers it: a toggle register on the source     *)
(* clock, three stages on the destination clock, and p = stage1 ^ stage2.   *)
(* The two clocks have no common schedule: their edges interleave freely,   *)
(* and an edge that meets the module's reset clears only the registers of   *)
(* its own clock (Kernel!TickEdge).                                         *)
(****************************************************************************)
EXTENDS Integers, FiniteSets, TLAPS

CONSTANT MaxSent      \* bound on the pulses of one epoch

ASSUME PulseSyncAssumption == MaxSent \in Nat \ {0}

Clocks == {"src", "dst"}

VARIABLES
  toggle, stage0, stage1, stage2,   \* __sync_p_toggle, __sync_p_stage0 .. 2
  rst,                              \* the level of the module's reset
  resetBy,                          \* history: the clocks that saw this reset
  sent, got,                        \* history: pulses since the last reset
  crowded                           \* history: two of them between two edges of dst

regs == <<toggle, stage0, stage1, stage2>>
vars == <<regs, rst, resetBy, sent, got, crowded>>

Init ==
  /\ toggle = 0 /\ stage0 = 0 /\ stage1 = 0 /\ stage2 = 0
  /\ rst = FALSE /\ resetBy = {} /\ sent = 0 /\ got = 0 /\ crowded = FALSE

Xor(a, b) == (a + b) % 2

\* Fault: the toggle register follows the signal.
ToggledLevel(signal) == signal

Toggled(signal) == Xor(toggle, signal)

\* Fault: the pulse lasts from the first stage to the last.
PulseLong == Xor(stage0, stage2)

Pulse == Xor(stage1, stage2)

\* One edge of the source clock; the signal is a register of this domain.
SrcEdge ==
  /\ ~rst
  /\ \E signal \in {0, 1} :
       /\ sent + signal <= MaxSent
       /\ toggle' = Toggled(signal) /\ sent' = sent + signal
       /\ crowded' = (crowded \/ (signal = 1 /\ toggle # stage0))
  /\ UNCHANGED <<stage0, stage1, stage2, rst, resetBy, got>>

\* Fault: the three assignments take effect one after the other.
ShiftBlocking == stage0' = toggle /\ stage1' = toggle /\ stage2' = toggle

Shift == stage0' = toggle /\ stage1' = stage0 /\ stage2' = stage1

\* One edge of the destination clock; its logic reads p at this edge.
DstEdge ==
  /\ ~rst
  /\ Shift /\ got' = got + Pulse
  /\ UNCHANGED <<toggle, rst, resetBy, sent, crowded>>

SrcReset ==
  /\ rst
  /\ toggle' = 0 /\ resetBy' = resetBy \union {"src"}
  /\ UNCHANGED <<stage0, stage1, stage2, rst, sent, got, crowded>>

\* Fault: the last stage has no reset value.
DstResetPartial ==
  /\ rst
  /\ stage0' = 0 /\ stage1' = 0 /\ resetBy' = resetBy \union {"dst"}
  /\ UNCHANGED <<toggle, stage2, rst, sent, got, crowded>>

DstReset ==
  /\ rst
  /\ stage0' = 0 /\ stage1' = 0 /\ stage2' = 0 /\ resetBy' = resetBy \union {"dst"}
  /\ UNCHANGED <<toggle, rst, sent, got, crowded>>

AssertReset == ~rst /\ rst' = TRUE /\ resetBy' = {} /\ UNCHANGED <<regs, sent, got, crowded>>

\* The design holds a reset until both clocks have seen it: half a reset leaves
\* toggle and stages apart, which the destination would read as a pulse.
ReleaseReset ==
  /\ rst /\ resetBy = Clocks
  /\ rst' = FALSE /\ sent' = 0 /\ got' = 0 /\ crowded' = FALSE
  /\ UNCHANGED <<regs, resetBy>>

Next == SrcEdge \/ DstEdge \/ SrcReset \/ DstReset \/ AssertReset \/ ReleaseReset

Spec == Init /\ [][Next]_vars

\* The destination clock runs.
FairSpec == Spec /\ WF_vars(DstEdge)
-----------------------------------------------------------------------------
\* The pulses that are still between the two domains: the places where two
\* neighbours of the chain differ.
InFlight == Xor(toggle, stage0) + Xor(stage0, stage1) + Xor(stage1, stage2)

\* However close the pulses come, none is invented and none is counted twice;
\* what is lost is lost in pairs, when the toggle returns before it is sampled.
NoneInvented ==
  ~rst => /\ got + InFlight <= sent
          /\ (sent - got - InFlight) % 2 = 0

\* While a destination edge falls between any two pulses each of them arrives
\* once: at every moment those sent are the ones read and the ones on their way.
ExactlyOnce == ~rst /\ ~crowded => got + InFlight = sent

\* Such pulses are all read in the end, unless the module is reset first.
Arrives == \A n \in 1..MaxSent : (~rst /\ sent = n) ~> (rst \/ crowded \/ got >= n)
-----------------------------------------------------------------------------
\* What the two invariants need besides each other: the registers are bits, and
\* an edge during a reset leaves its clock's own registers clear.
Typed ==
  /\ toggle \in {0, 1} /\ stage0 \in {0, 1} /\ stage1 \in {0, 1} /\ stage2 \in {0, 1}
  /\ rst \in BOOLEAN /\ resetBy \in SUBSET Clocks /\ crowded \in BOOLEAN
  /\ sent \in Nat /\ got \in Nat

ResetClears ==
  rst => /\ "src" \in resetBy => toggle = 0
         /\ "dst" \in resetBy => stage0 = 0 /\ stage1 = 0 /\ stage2 = 0

Accounted == Typed /\ ResetClears /\ NoneInvented /\ ExactlyOnce

\* On single bits, `^` tells whether they differ.
LEMMA XorOfBits ==
  ASSUME NEW a \in {0, 1}, NEW b \in {0, 1}
  PROVE  Xor(a, b) = IF a = b THEN 0 ELSE 1
BY DEF Xor

\* A pulse flips the toggle, no pulse leaves it: the distance to the first stage
\* grows by one, or falls by one when the last pulse has not been sampled yet.
LEMMA ToggleStep ==
  ASSUME Typed, NEW signal \in {0, 1}
  PROVE  /\ Toggled(signal) \in {0, 1}
         /\ Xor(Toggled(signal), stage0) =
              IF signal = 0 THEN Xor(toggle, stage0) ELSE 1 - Xor(toggle, stage0)
BY DEF Typed, Xor, Toggled

\* The pulses between the domains are at most three.
LEMMA InFlightTyped == ASSUME Typed PROVE InFlight \in 0..3 /\ Pulse \in {0, 1}
BY XorOfBits DEF Typed, InFlight, Pulse

\* Two more pulses lost do not change the parity of the loss.
LEMMA ParityKept == ASSUME NEW n \in Int PROVE (n + 2) % 2 = n % 2
OBVIOUS

\* An edge of the source clock either puts one pulse on its way, or cancels it
\* against the one the destination has not sampled: then both are lost.
LEMMA SourceEdgeAccounts == ASSUME Accounted, SrcEdge PROVE Accounted'
<1>1. PICK signal \in {0, 1} :
        /\ toggle' = Toggled(signal) /\ sent' = sent + signal
        /\ crowded' = (crowded \/ (signal = 1 /\ toggle # stage0))
  BY DEF SrcEdge
<1>2. /\ ~rst /\ rst' = rst /\ resetBy' = resetBy /\ got' = got
      /\ stage0' = stage0 /\ stage1' = stage1 /\ stage2' = stage2
  BY DEF SrcEdge
<1>3. Typed' BY <1>1, <1>2, ToggleStep DEF Accounted, Typed
<1>4. InFlight' = IF signal = 0 THEN InFlight
                  ELSE IF toggle = stage0 THEN InFlight + 1 ELSE InFlight - 1
  BY <1>1, <1>2, ToggleStep, XorOfBits DEF Accounted, Typed, InFlight
<1>5. InFlight \in 0..3 /\ sent \in Nat /\ got \in Nat BY InFlightTyped DEF Accounted, Typed
<1>6. /\ got + InFlight <= sent /\ (sent - got - InFlight) % 2 = 0
      /\ ~crowded => got + InFlight = sent
  BY <1>2 DEF Accounted, NoneInvented, ExactlyOnce
<1>7. CASE signal = 0 \/ toggle = stage0
  <2>1. sent' - got' - InFlight' = sent - got - InFlight BY <1>7, <1>1, <1>2, <1>4, <1>5
  <2>2. NoneInvented' BY <2>1, <1>7, <1>1, <1>2, <1>4, <1>5, <1>6 DEF NoneInvented
  <2>3. crowded' = crowded BY <1>7, <1>1 DEF Accounted, Typed
  <2>4. ~crowded => got' + InFlight' = sent' BY <1>7, <1>1, <1>2, <1>4, <1>5, <1>6
  <2>5. ExactlyOnce' BY <2>3, <2>4 DEF ExactlyOnce
  <2> QED BY <2>2, <2>5, <1>2, <1>3 DEF Accounted, ResetClears
<1>8. CASE signal = 1 /\ toggle # stage0
  <2>1. sent' - got' - InFlight' = (sent - got - InFlight) + 2 BY <1>8, <1>1, <1>2, <1>4, <1>5
  <2>2. (sent' - got' - InFlight') % 2 = 0
    BY <2>1, <1>5, <1>6, ParityKept
  <2>3. NoneInvented' BY <2>2, <1>8, <1>1, <1>2, <1>4, <1>5, <1>6 DEF NoneInvented
  <2>4. crowded' BY <1>8, <1>1 DEF Accounted, Typed
  <2> QED BY <2>3, <2>4, <1>2, <1>3 DEF Accounted, ResetClears, ExactlyOnce
<1> QED BY <1>7, <1>8

\* An edge of the destination clock moves every difference one place down the
\* chain, and the logic of that edge reads the one that leaves it.
LEMMA DestinationEdgeAccounts == ASSUME Accounted, DstEdge PROVE Accounted'
<1>1. /\ ~rst /\ rst' = rst /\ resetBy' = resetBy /\ sent' = sent /\ crowded' = crowded
      /\ toggle' = toggle /\ stage0' = toggle /\ stage1' = stage0 /\ stage2' = stage1
      /\ got' = got + Pulse
  BY DEF DstEdge, Shift
<1>2. Typed' BY <1>1, InFlightTyped DEF Accounted, Typed
<1>3. got' + InFlight' = got + InFlight
  BY <1>1, XorOfBits DEF Accounted, Typed, InFlight, Pulse
<1>4. InFlight \in Int /\ InFlight' \in Int /\ got \in Int /\ got' \in Int /\ sent \in Int
  BY InFlightTyped, <1>1, <1>2, XorOfBits DEF Accounted, Typed, InFlight
<1>5. sent' - got' - InFlight' = sent - got - InFlight BY <1>1, <1>3, <1>4
<1> QED BY <1>1, <1>2, <1>3, <1>5 DEF Accounted, ResetClears, NoneInvented, ExactlyOnce

\* Released after both clocks have seen it, a reset leaves no pulse on its way.
LEMMA ReleaseAccounts == ASSUME Accounted, ReleaseReset PROVE Accounted'
<1>1. toggle = 0 /\ stage0 = 0 /\ stage1 = 0 /\ stage2 = 0
  BY DEF Accounted, ResetClears, ReleaseReset, Clocks
<1>2. /\ UNCHANGED <<toggle, stage0, stage1, stage2, resetBy>>
      /\ rst' = FALSE /\ sent' = 0 /\ got' = 0 /\ crowded' = FALSE
  BY DEF ReleaseReset, regs
<1>3. InFlight' = 0 BY <1>1, <1>2, XorOfBits DEF InFlight
<1>4. got' + InFlight' <= sent' /\ (sent' - got' - InFlight') % 2 = 0 /\ got' + InFlight' = sent'
  BY <1>2, <1>3
<1>5. NoneInvented' /\ ExactlyOnce' BY <1>4 DEF NoneInvented, ExactlyOnce
<1>6. Typed' /\ ResetClears' BY <1>2 DEF Accounted, Typed, ResetClears
<1> QED BY <1>5, <1>6 DEF Accounted

\* Both hold from the start and after every edge of either clock, and after
\* every reset that both have seen.
LEMMA PulsesAccounted == Spec => []Accounted
<1>1. Init => Accounted
  <2> SUFFICES ASSUME Init PROVE Accounted OBVIOUS
  <2>1. Typed /\ ResetClears BY DEF Init, Typed, ResetClears
  <2>2. InFlight = 0 BY XorOfBits DEF Init, InFlight
  <2>3. NoneInvented /\ ExactlyOnce BY <2>2 DEF Init, NoneInvented, ExactlyOnce
  <2> QED BY <2>1, <2>3 DEF Accounted
<1>2. Accounted /\ [Next]_vars => Accounted'
  <2> SUFFICES ASSUME Accounted, [Next]_vars PROVE Accounted' OBVIOUS
  <2>1. CASE SrcEdge BY <2>1, SourceEdgeAccounts
  <2>2. CASE DstEdge BY <2>2, DestinationEdgeAccounts
  <2>3. CASE SrcReset
    BY <2>3 DEF SrcReset, Accounted, Typed, ResetClears, NoneInvented, ExactlyOnce, Clocks
  <2>4. CASE DstReset
    BY <2>4 DEF DstReset, Accounted, Typed, ResetClears, NoneInvented, ExactlyOnce, Clocks
  <2>5. CASE AssertReset
    BY <2>5 DEF AssertReset, regs, Accounted, Typed, ResetClears, NoneInvented, ExactlyOnce
  <2>6. CASE ReleaseReset BY <2>6, ReleaseAccounts
  <2>7. CASE UNCHANGED vars
    BY <2>7 DEF vars, regs, Accounted, Typed, ResetClears, NoneInvented, ExactlyOnce, InFlight
  <2> QED BY <2>1, <2>2, <2>3, <2>4, <2>5, <2>6, <2>7 DEF Next
<1> QED BY <1>1, <1>2, PTL DEF Spec

\* For any number of pulses and any order of the edges of the two clocks, the
\* lowered sync.pulse invents none and counts none twice; it loses them in pairs.
THEOREM PulseNoneInvented == Spec => []NoneInvented
<1>1. Accounted => NoneInvented BY DEF Accounted
<1> QED BY <1>1, PulsesAccounted, PTL

\* While a destination edge falls between any two pulses, each arrives once.
THEOREM PulseExactlyOnce == Spec => []ExactlyOnce
<1>1. Accounted => ExactlyOnce BY DEF Accounted
<1> QED BY <1>1, PulsesAccounted, PTL
=============================================================================
