---------------------------- MODULE UartLinkProofs ----------------------------
(****************************************************************************)
(* Theorems about UartLink, for every CyclesPerBit of at least two, every   *)
(* log length and every set of bytes.                                       *)
(****************************************************************************)
EXTENDS UartLink, TLAPS, SequenceTheorems

\* The cleared byte is a byte.
LEMMA ZeroByteType == ZeroByte \in Byte
BY DEF ZeroByte, Byte, Bit

\* What the frame counter returns is a frame.
LEMMA AdvanceType ==
  ASSUME NEW f \in Frame, NEW n \in Nat
  PROVE  Advance(f, n) \in Frame
<1>1. NextPhase(f) \in Frame
  BY ZeroByteType DEF NextPhase, Framing, Frame, Phases, BitIndex, Idle
<1>2. QED
  BY <1>1 DEF Advance, Framing, Frame
-----------------------------------------------------------------------------
\* The encoder and the decoder on the line between them: the decoder counts
\* one cycle more than the encoder in every phase but the start bit.
InStep ==
  /\ rx.phase = "Idle" => tx.phase = "Idle"
  /\ rx.phase = "Start" =>
       /\ 1 <= rx.cycle /\ rx.cycle <= CyclesPerBit
       /\ rx.cycle < CyclesPerBit => tx.phase = "Start" /\ tx.cycle = rx.cycle
       /\ rx.cycle = CyclesPerBit => tx.phase = "Data" /\ tx.index = 0 /\ tx.cycle = 0
  /\ rx.phase = "Data" =>
       /\ rx.cycle < CyclesPerBit
       /\ rx.cycle < CyclesPerBit - 1 =>
            tx.phase = "Data" /\ tx.index = rx.index /\ tx.cycle = rx.cycle + 1
       /\ rx.cycle = CyclesPerBit - 1 =>
            /\ tx.cycle = 0
            /\ rx.index < 7 => tx.phase = "Data" /\ tx.index = rx.index + 1
            /\ rx.index = 7 => tx.phase = "Stop"
  /\ rx.phase = "Stop" =>
       /\ rx.cycle < CyclesPerBit
       /\ rx.cycle < CyclesPerBit - 1 => tx.phase = "Stop" /\ tx.cycle = rx.cycle + 1
       /\ rx.cycle = CyclesPerBit - 1 => tx.phase = "Idle"

\* The byte being encoded is the front of the queue.
EncodesFront == rx.phase # "Idle" => queue # <<>> /\ rx.byte = Head(queue)

\* Bit i of the frame f being decoded was sampled already.
SampledBit(f, i) ==
  \/ f.phase = "Stop"
  \/ f.phase = "Data" /\ (i < f.index \/ (i = f.index /\ f.cycle > Midpoint))

\* The bits of f sampled so far are those of byte b.
Decodes(f, b) == \A i \in BitIndex : f.byte[i] = IF SampledBit(f, i) THEN b[i] ELSE 0

DecodesFront == tx.phase # "Idle" => Decodes(tx, rx.byte)

Typed ==
  /\ rx \in Frame /\ tx \in Frame
  /\ queue \in Seq(Payload) /\ sent \in Seq(Payload)
  /\ delivered \in Seq(Payload)

IInv == Typed /\ InStep /\ EncodesFront /\ DecodesFront /\ Lossless
-----------------------------------------------------------------------------
\* Two bytes with the same bits are the same byte.
LEMMA ByteEquality ==
  ASSUME NEW a \in Byte, NEW b \in Byte, \A i \in BitIndex : a[i] = b[i]
  PROVE  a = b
BY DEF Byte

\* The sampling point lies inside a bit, after its first cycle.
LEMMA MidpointBounds ==
  ASSUME CyclesPerBit >= 2
  PROVE  Midpoint \in Nat /\ 1 <= Midpoint /\ Midpoint < CyclesPerBit
BY CyclesPerBitAssumption DEF Midpoint

\* The idle frame is a frame.
LEMMA IdleType == Idle \in Frame
BY ZeroByteType DEF Idle, Frame, Phases, BitIndex

\* The initial states satisfy the invariant.
LEMMA InitIInv == Init => IInv
<1> SUFFICES ASSUME Init PROVE IInv
  OBVIOUS
<1>1. rx = Idle /\ tx = Idle /\ queue = <<>> /\ sent = <<>> /\ delivered = <<>>
  BY DEF Init, RxInit, TxInitTerminal, TxInitSocket
<1>2. Lossless
  BY <1>1 DEF Lossless, Undecoded, FrontDecoded, Idle
<1>3. QED
  BY <1>1, <1>2, IdleType DEF IInv, Typed, InStep, EncodesFront, DecodesFront, Idle

\* Facts about sequences that Tick and Receive need.
LEMMA AppendFront ==
  ASSUME NEW S, NEW s \in Seq(S), NEW q \in Seq(S), q # <<>>
  PROVE  Append(s, Head(q)) \o Tail(q) = s \o q
<1>1. Head(q) \in S /\ Tail(q) \in Seq(S) /\ q = <<Head(q)>> \o Tail(q)
  BY HeadTailProperties
<1>2. Append(s, Head(q)) = s \o <<Head(q)>> /\ <<Head(q)>> \in Seq(S)
  BY <1>1, AppendIsConcat
<1>3. QED
  BY <1>1, <1>2, ConcatAssociative

\* Appending to what is queued is appending to the whole stream.
LEMMA ConcatAppend ==
  ASSUME NEW S, NEW s \in Seq(S), NEW q \in Seq(S), NEW e \in S
  PROVE  Append(s \o q, e) = s \o (q \o <<e>>)
<1>1. s \o q \in Seq(S) /\ <<e>> \in Seq(S)
  BY ConcatProperties
<1>2. Append(s \o q, e) = (s \o q) \o <<e>>
  BY <1>1, AppendIsConcat
<1>3. QED
  BY <1>1, <1>2, ConcatAssociative

\* A byte queued behind others changes neither the first nor its place.
LEMMA ExtendQueue ==
  ASSUME NEW S, NEW q \in Seq(S), NEW e \in S, q # <<>>
  PROVE  /\ q \o <<e>> # <<>>
         /\ Head(q \o <<e>>) = Head(q)
         /\ Tail(q \o <<e>>) = Tail(q) \o <<e>>
  OBVIOUS

\* A byte received by the reader thread at any moment keeps the invariant.
LEMMA ReceiveIInv == IInv /\ Receive => IInv'
<1> SUFFICES ASSUME IInv, NEW b \in Payload, Receive,
                    queue' = queue \o <<b>>, sent' = Append(sent, b)
             PROVE  IInv'
  BY DEF Receive, Enqueue
<1>1. UNCHANGED <<rx, tx, delivered>>
  BY DEF Receive, Enqueue, txVars
<1>2. Typed'
  BY <1>1 DEF IInv, Typed
<1>3. InStep' /\ DecodesFront'
  BY <1>1 DEF IInv, InStep, DecodesFront, Decodes, SampledBit, Midpoint
<1>4. EncodesFront'
  BY <1>1, ExtendQueue DEF IInv, Typed, EncodesFront
<1>5. Lossless'
  <2>1. FrontDecoded' = FrontDecoded
    BY <1>1 DEF FrontDecoded, Midpoint
  <2>2. FrontDecoded => queue # <<>>
    BY DEF IInv, EncodesFront, FrontDecoded
  <2>3. Undecoded' = Undecoded \o <<b>>
    BY <2>1, <2>2, ExtendQueue DEF Undecoded, IInv, Typed
  <2>4. Undecoded \in Seq(Payload)
    BY <2>2 DEF Undecoded, IInv, Typed
  <2>5. delivered \in Seq(Payload) /\ sent = delivered \o Undecoded
    BY DEF IInv, Typed, Lossless
  <2>6. Append(delivered \o Undecoded, b) = delivered \o (Undecoded \o <<b>>)
    BY <2>4, <2>5, ConcatAppend
  <2>7. QED
    BY <1>1, <2>3, <2>5, <2>6 DEF Lossless
<1>6. QED
  BY <1>2, <1>3, <1>4, <1>5 DEF IInv

-----------------------------------------------------------------------------
\* The two frames as Tick sees them, once a start bit is on the line.
Encoding == IF rx.phase = "Idle" THEN StartFrame(Head(queue)) ELSE rx
Decoding == IF tx.phase = "Idle" THEN StartFrame(ZeroByte) ELSE tx

\* A cycle with nothing to send leaves both peripherals idle.
LEMMA TickIdleIInv ==
  ASSUME IInv, NEW bit \in Bit, DriveIdle(bit), OnTick(bit),
         delivered' = IF tx.phase = "Stop" /\ tx.cycle = Midpoint
                      THEN Append(delivered, Decoded(tx, bit)) ELSE delivered,
         UNCHANGED sent
  PROVE  IInv'
<1>1. tx.phase = "Idle" /\ bit = 1
  BY DEF IInv, InStep, DriveIdle
<1>2. UNCHANGED <<rx, queue, tx, delivered, sent>>
  BY <1>1 DEF DriveIdle, OnTick, TickIdle, TickFrame
<1>3. QED
  BY <1>2 DEF IInv, Typed, InStep, EncodesFront, DecodesFront, Decodes, SampledBit, Lossless,
              Undecoded, FrontDecoded, Midpoint

\* A cycle of a frame: how the two frames move together.
LEMMA TickFrames ==
  ASSUME CyclesPerBit >= 2, IInv, NEW bit \in Bit, DriveFrame(bit), OnTick(bit)
  PROVE  /\ rx' = Advance(Encoding, PhaseLength(Encoding)) /\ bit = Level(Encoding)
         /\ rx.phase = "Stop" /\ tx.phase = "Idle" => tx' = tx /\ rx'.phase = "Idle"
         /\ ~(rx.phase = "Stop" /\ tx.phase = "Idle") =>
               tx' = Advance(Sampled(Decoding, bit), CyclesPerBit)
<1>1. rx' = Advance(Encoding, PhaseLength(Encoding)) /\ bit = Level(Encoding)
  BY DEF DriveFrame, Encoding
<1>2. CASE rx.phase = "Idle"
  <2>1. tx.phase = "Idle" /\ bit = 0
    BY <1>1, <1>2 DEF IInv, InStep, Encoding, StartFrame, Framing, Level
  <2>2. QED
    BY <1>1, <1>2, <2>1 DEF OnTick, TickIdle, TickFrame, Decoding
<1>3. CASE rx.phase = "Start"
  <2>1. bit = 0 /\ tx.phase # "Idle"
    BY <1>1, <1>3, CyclesPerBitAssumption DEF IInv, Typed, Frame, InStep, Encoding, Level
  <2>2. QED
    BY <1>1, <1>3, <2>1 DEF OnTick, TickIdle, TickFrame, Decoding
<1>4. CASE rx.phase = "Data"
  <2>1. tx.phase \in {"Data", "Stop"}
    BY <1>4, CyclesPerBitAssumption DEF IInv, Typed, Frame, BitIndex, InStep
  <2>2. QED
    BY <1>1, <1>4, <2>1 DEF OnTick, TickIdle, TickFrame, Decoding
<1>5. CASE rx.phase = "Stop" /\ tx.phase # "Idle"
  <2>1. tx.phase = "Stop"
    BY <1>5, CyclesPerBitAssumption DEF IInv, Typed, Frame, InStep
  <2>2. QED
    BY <1>1, <1>5, <2>1 DEF OnTick, TickIdle, TickFrame, Decoding
<1>6. CASE rx.phase = "Stop" /\ tx.phase = "Idle"
  <2>1. bit = 1
    BY <1>1, <1>6 DEF Encoding, Level
  <2>2. tx' = tx
    BY <1>6, <2>1 DEF OnTick, TickIdle, TickFrame
  <2>3. rx.cycle = CyclesPerBit - 1
    BY <1>6, CyclesPerBitAssumption DEF IInv, Typed, Frame, InStep
  <2>4. rx'.phase = "Idle"
    BY <1>1, <1>6, <2>3, CyclesPerBitAssumption
       DEF Encoding, Advance, PhaseLength, NextPhase, Idle
  <2>5. QED
    BY <1>1, <1>6, <2>2, <2>4
<1>7. QED
  BY <1>2, <1>3, <1>4, <1>5, <1>6 DEF IInv, Typed, Frame, Phases

\* One cycle of the decoder samples the right bit, in the right place.
LEMMA SampleStep ==
  ASSUME CyclesPerBit >= 2, NEW f \in Frame, NEW b \in Byte, NEW bit \in Bit,
         f.phase # "Idle", f.cycle < CyclesPerBit, Decodes(f, b),
         f.phase = "Data" /\ f.cycle = Midpoint => bit = b[f.index],
         NEW g, g = Advance(Sampled(f, bit), CyclesPerBit), g.phase # "Idle"
  PROVE  Decodes(g, b)
<1> USE CyclesPerBitAssumption, MidpointBounds
<1>1. SUFFICES ASSUME NEW i \in BitIndex
               PROVE  g.byte[i] = IF SampledBit(g, i) THEN b[i] ELSE 0
  BY DEF Decodes
<1>2. f.byte[i] = IF SampledBit(f, i) THEN b[i] ELSE 0
  BY DEF Decodes
<1>3. f.byte \in Byte /\ b[i] \in {0, 1} /\ f.cycle \in Nat /\ f.index \in 0..7 /\ i \in 0..7
  BY DEF Frame, Byte, Bit, BitIndex
<1>4. Sampled(f, bit).byte[i] =
        IF f.phase = "Data" /\ f.cycle = Midpoint /\ i = f.index THEN b[i] ELSE f.byte[i]
  BY <1>2, <1>3 DEF Sampled, Framing, Byte, Bit, BitIndex, SampledBit
<1>5. /\ Sampled(f, bit).phase = f.phase /\ Sampled(f, bit).index = f.index
      /\ Sampled(f, bit).cycle = f.cycle
  BY DEF Sampled, Framing
<1>6. g.byte[i] = Sampled(f, bit).byte[i]
  BY <1>5 DEF Advance, NextPhase, Framing, Idle
<1>7. CASE f.cycle + 1 < CyclesPerBit
  <2>1. g.phase = f.phase /\ g.index = f.index /\ g.cycle = f.cycle + 1
    BY <1>3, <1>5, <1>7 DEF Advance, Framing
  <2>2. QED
    BY <1>2, <1>3, <1>4, <1>6, <2>1 DEF SampledBit
<1>8. CASE f.cycle + 1 = CyclesPerBit
  <2>1. g = NextPhase(Sampled(f, bit))
    BY <1>3, <1>5, <1>8 DEF Advance
  <2>2. CASE f.phase = "Start"
    BY <1>2, <1>3, <1>4, <1>5, <1>6, <2>1, <2>2 DEF SampledBit, NextPhase, Framing
  <2>3. CASE f.phase = "Data" /\ f.index < 7
    BY <1>2, <1>3, <1>4, <1>5, <1>6, <1>8, <2>1, <2>3 DEF SampledBit, NextPhase, Framing
  <2>4. CASE f.phase = "Data" /\ f.index = 7
    BY <1>2, <1>3, <1>4, <1>5, <1>6, <1>8, <2>1, <2>4 DEF SampledBit, NextPhase, Framing
  <2>5. CASE f.phase = "Stop"
    BY <1>5, <2>1, <2>5 DEF NextPhase, Idle
  <2>6. QED
    BY <1>3, <2>2, <2>3, <2>4, <2>5 DEF Frame, Phases
<1>9. QED
  BY <1>3, <1>7, <1>8

\* The start bit and the data bits never complete a character.
LEMMA TickFrameIInv ==
  ASSUME LinkAssumption, CyclesPerBit >= 2, IInv, NEW bit \in Bit, DriveFrame(bit), OnTick(bit),
         delivered' = IF tx.phase = "Stop" /\ tx.cycle = Midpoint
                      THEN Append(delivered, Decoded(tx, bit)) ELSE delivered,
         UNCHANGED sent
  PROVE  IInv'
<1> USE CyclesPerBitAssumption, MidpointBounds
<1>1. /\ rx' = Advance(Encoding, PhaseLength(Encoding)) /\ bit = Level(Encoding)
      /\ rx.phase = "Stop" /\ tx.phase = "Idle" => tx' = tx /\ rx'.phase = "Idle"
      /\ ~(rx.phase = "Stop" /\ tx.phase = "Idle") =>
            tx' = Advance(Sampled(Decoding, bit), CyclesPerBit)
  BY TickFrames
<1>2. queue # <<>> /\ Head(queue) \in Payload /\ Head(queue) \in Byte
  BY DEF LinkAssumption, IInv, Typed, EncodesFront, DriveFrame
<1>3. Encoding \in Frame /\ Decoding \in Frame /\ Encoding.byte = Head(queue)
  BY <1>2, ZeroByteType
     DEF IInv, Typed, EncodesFront, Encoding, Decoding, StartFrame, Framing, Frame, Phases, BitIndex
<1>4. Sampled(Decoding, bit) \in Frame
  BY <1>3 DEF Sampled, Framing, Frame, Byte, Bit
<1>5. rx' \in Frame /\ tx' \in Frame
  BY <1>1, <1>3, <1>4, AdvanceType DEF PhaseLength, IInv, Typed
<1>10. Decoding.phase # "Idle" /\ Decoding.cycle < CyclesPerBit
  <2>1. CASE tx.phase = "Idle"
    BY <2>1 DEF Decoding, StartFrame, Framing
  <2>2. CASE tx.phase # "Idle"
    <3>1. CASE rx.phase = "Start"
      BY <2>2, <3>1 DEF IInv, Typed, Frame, InStep, Decoding
    <3>2. CASE rx.phase = "Data"
      BY <2>2, <3>2 DEF IInv, Typed, Frame, InStep, Decoding
    <3>3. CASE rx.phase = "Stop"
      BY <2>2, <3>3 DEF IInv, Typed, Frame, InStep, Decoding
    <3>4. QED
      BY <2>2, <3>1, <3>2, <3>3 DEF IInv, Typed, Frame, Phases, InStep
  <2>3. QED
    BY <2>1, <2>2
<1>11. tx'.phase # "Idle" /\ ~(rx.phase = "Stop" /\ tx.phase = "Idle") => Decodes(tx', Head(queue))
  <2> SUFFICES ASSUME tx'.phase # "Idle", ~(rx.phase = "Stop" /\ tx.phase = "Idle")
               PROVE  Decodes(tx', Head(queue))
    OBVIOUS
  <2>1. Decoding.phase = "Data" /\ Decoding.cycle = Midpoint =>
          Encoding.phase = "Data" /\ Encoding.index = Decoding.index
    <3>1. CASE rx.phase = "Idle"
      BY <3>1 DEF IInv, InStep, Decoding, StartFrame, Framing
    <3>2. CASE rx.phase = "Start"
      BY <3>2 DEF IInv, Typed, Frame, InStep, Decoding, StartFrame, Framing
    <3>3. CASE rx.phase = "Data"
      BY <3>3 DEF IInv, Typed, Frame, BitIndex, InStep, Encoding, Decoding, StartFrame, Framing
    <3>4. CASE rx.phase = "Stop"
      BY <3>4 DEF IInv, Typed, Frame, InStep, Decoding, StartFrame, Framing
    <3>5. QED
      BY <3>1, <3>2, <3>3, <3>4 DEF IInv, Typed, Frame, Phases
  <2>2. Decoding.phase = "Data" /\ Decoding.cycle = Midpoint => bit = Head(queue)[Decoding.index]
    BY <1>1, <1>3, <2>1 DEF Level
  <2>3. Decodes(Decoding, Head(queue))
    <3>1. CASE tx.phase = "Idle"
      BY <3>1 DEF Decodes, Decoding, StartFrame, Framing, ZeroByte, SampledBit
    <3>2. CASE tx.phase # "Idle"
      BY <3>2 DEF IInv, InStep, EncodesFront, DecodesFront, Decoding
    <3>3. QED
      BY <3>1, <3>2
  <2>4. QED
    BY <1>1, <1>2, <1>3, <1>10, <2>2, <2>3, SampleStep
<1>12. Append(delivered, Head(queue)) \o Tail(queue) = delivered \o queue
  <2>1. delivered \in Seq(Payload) /\ queue \in Seq(Payload)
    BY DEF IInv, Typed
  <2>2. QED
    BY <1>2, <2>1, AppendFront
<1> USE <1>1, <1>3 DEF IInv, Typed, Frame, BitIndex, InStep, Encoding, Decoding, StartFrame,
        Framing, Level, Sampled, Advance, PhaseLength, NextPhase, Idle
<1>6. CASE rx.phase \in {"Idle", "Start"}
  <2>1. InStep'
    BY <1>6
  <2>2. rx'.phase # "Idle" /\ rx'.byte = Head(queue) /\ queue' = queue
    BY <1>6 DEF EncodesFront, DriveFrame
  <2>3. DecodesFront'
    BY <1>6, <1>11, <2>2 DEF DecodesFront, Decodes, SampledBit
  <2>4. delivered' = delivered /\ ~FrontDecoded /\ ~FrontDecoded'
    BY <1>6, <2>1, <2>2 DEF FrontDecoded
  <2>5. QED
    BY <1>2, <1>5, <2>1, <2>2, <2>3, <2>4
       DEF IInv, Typed, EncodesFront, Lossless, Undecoded
<1>7. CASE rx.phase = "Data"
  <2>1. InStep'
    <3>1. CASE rx.cycle < CyclesPerBit - 2
      BY <1>7, <3>1
    <3>2. CASE rx.cycle = CyclesPerBit - 2
      BY <1>7, <3>2
    <3>3. CASE rx.cycle = CyclesPerBit - 1 /\ rx.index < 7
      BY <1>7, <3>3
    <3>4. CASE rx.cycle = CyclesPerBit - 1 /\ rx.index = 7
      BY <1>7, <3>4
    <3>5. \/ rx.cycle < CyclesPerBit - 2 \/ rx.cycle = CyclesPerBit - 2
          \/ rx.cycle = CyclesPerBit - 1 /\ rx.index < 7
          \/ rx.cycle = CyclesPerBit - 1 /\ rx.index = 7
      <4>1. /\ rx.cycle \in Nat /\ rx.index \in 0..7
            /\ rx.cycle < CyclesPerBit /\ CyclesPerBit \in Nat
        BY <1>7, CyclesPerBitAssumption
      <4>2. HIDE DEF IInv, Typed, Frame, InStep, Encoding, Decoding, StartFrame, Framing,
                     Level, Sampled, Advance, PhaseLength, NextPhase, Idle
      <4>3. QED BY ONLY <4>1
    <3>6. HIDE DEF InStep
    <3>7. QED
      BY <3>1, <3>2, <3>3, <3>4, <3>5
  <2>2. rx'.phase # "Idle" /\ rx'.byte = Head(queue) /\ queue' = queue
    BY <1>7 DEF EncodesFront, DriveFrame
  <2>3. DecodesFront'
    BY <1>7, <1>11, <2>2 DEF DecodesFront, Decodes, SampledBit
  <2>4. delivered' = delivered /\ ~FrontDecoded /\ ~FrontDecoded'
    BY <1>7, <2>1, <2>2 DEF FrontDecoded
  <2>5. QED
    BY <1>2, <1>5, <2>1, <2>2, <2>3, <2>4 DEF EncodesFront, Lossless, Undecoded
<1>8. CASE rx.phase = "Stop"
  <2>1. InStep'
    BY <1>8
  <2>2. rx'.byte = Head(queue) \/ rx'.phase = "Idle"
    BY <1>8 DEF EncodesFront, DriveFrame
  <2>3. queue' = IF rx'.phase = "Idle" THEN Tail(queue) ELSE queue
    BY DEF DriveFrame
  <2>4. EncodesFront'
    BY <1>2, <2>2, <2>3 DEF EncodesFront
  <2>5. DecodesFront'
    BY <1>8, <1>11, <2>1, <2>2 DEF DecodesFront, Decodes, SampledBit
  <2>6. CASE tx.phase = "Stop" /\ tx.cycle = Midpoint
    <3>1. bit = 1
      BY <1>8, <2>6 DEF EncodesFront
    <3>2. tx.byte = Head(queue)
      <4>1. \A i \in BitIndex : tx.byte[i] = Head(queue)[i]
        BY <1>8, <2>6 DEF EncodesFront, DecodesFront, Decodes, SampledBit
      <4>2. tx.byte \in Byte
        OBVIOUS
      <4>3. QED
        BY <4>1, <4>2, <1>2, ByteEquality
    <3>3. ~FrontDecoded /\ FrontDecoded' /\ queue' = queue
      BY <1>8, <2>1, <2>3, <2>6 DEF FrontDecoded
    <3>4. delivered' = Append(delivered, Head(queue))
      BY <2>6, <3>1, <3>2 DEF Decoded
    <3>5. Lossless'
      <4>1. Undecoded = queue /\ Undecoded' = Tail(queue)
        BY <3>3 DEF Undecoded
      <4>2. delivered' \o Tail(queue) = delivered \o queue
        BY <1>12, <3>4
      <4>3. QED
        BY <4>1, <4>2 DEF Lossless
    <3>6. QED
      BY <1>2, <1>5, <2>1, <2>4, <2>5, <3>3, <3>4, <3>5
  <2>7. CASE ~(tx.phase = "Stop" /\ tx.cycle = Midpoint)
    <3>1. delivered' = delivered
      BY <2>7
    <3>2. Undecoded' = Undecoded
      <4>1. CASE rx'.phase = "Idle"
        BY <1>8, <2>3, <4>1 DEF Undecoded, FrontDecoded
      <4>2. CASE rx'.phase # "Idle"
        BY <1>8, <2>1, <2>3, <2>7, <4>2 DEF Undecoded, FrontDecoded
      <4>3. QED
        BY <4>1, <4>2
    <3>3. queue' \in Seq(Payload)
      BY <1>2, <2>3
    <3>4. Typed'
      BY <1>5, <3>1, <3>3
    <3>5. Lossless'
      BY <3>1, <3>2 DEF Lossless
    <3>6. QED
      BY <2>1, <2>4, <2>5, <3>4, <3>5
  <2>8. QED
    BY <2>6, <2>7
<1>9. QED
  BY <1>6, <1>7, <1>8 DEF IInv, Typed, Frame, Phases

\* What remains to be decoded is exactly what was sent and not yet delivered,
\* in every reachable state.
LEMMA StepIInv ==
  ASSUME LinkAssumption, CyclesPerBit >= 2, IInv, [Next]_vars
  PROVE  IInv'
<1>1. CASE Receive
  BY <1>1, ReceiveIInv
<1>2. CASE Accept
  BY <1>2 DEF Accept, AcceptPeer, rxVars, IInv, Typed, InStep, EncodesFront, DecodesFront,
              Decodes, SampledBit, Lossless, Undecoded, FrontDecoded, Midpoint
<1>3. CASE Tick
  BY <1>3, TickIdleIInv, TickFrameIInv DEF Tick, Drive
<1>4. CASE UNCHANGED vars
  BY <1>4 DEF vars, rxVars, txVars, IInv, Typed, InStep, EncodesFront, DecodesFront,
              Decodes, SampledBit, Lossless, Undecoded, FrontDecoded, Midpoint
<1>5. QED
  BY <1>1, <1>2, <1>3, <1>4 DEF Next

\* The invariant holds of every execution, for bit periods of at least two.
LEMMA IInvAlways ==
  ASSUME CyclesPerBit >= 2
  PROVE  Spec => []IInv
<1>1. IInv /\ [Next]_vars => IInv'
  BY StepIInv, LinkAssumptionHolds
<1>2. QED
  BY InitIInv, <1>1, PTL DEF Spec

\* Whatever was sent is decoded unchanged, once and in order, however the
\* reader thread's bytes interleave with the frames (uart_rx.rs `drive`,
\* uart_tx.rs `on_tick`), for every bit period of at least two cycles.
THEOREM LinkLossless ==
  ASSUME CyclesPerBit >= 2
  PROVE  Spec => []Lossless
<1>1. IInv => Lossless
  BY DEF IInv
<1>2. QED
  BY IInvAlways, <1>1, PTL

\* The two peripherals never drift apart, for every bit period of at least two
\* cycles: the decoder is idle again before the encoder starts the next byte.
THEOREM LinkSynchronised ==
  ASSUME CyclesPerBit >= 2
  PROVE  Spec => []Synchronised
<1>1. IInv => Synchronised
  <2> SUFFICES ASSUME IInv PROVE Synchronised
    OBVIOUS
  <2> USE CyclesPerBitAssumption DEF IInv, Typed, Frame, Phases, BitIndex, InStep
  <2>1. rx.phase = "Start" => tx.phase # "Idle"
    OBVIOUS
  <2>2. rx.phase = "Data" => tx.phase # "Idle"
    OBVIOUS
  <2>3. rx.phase = "Stop" /\ tx.phase = "Idle" => rx.cycle = CyclesPerBit - 1
    OBVIOUS
  <2>4. QED
    BY <2>1, <2>2, <2>3 DEF Synchronised
<1>2. QED
  BY IInvAlways, <1>1, PTL
-----------------------------------------------------------------------------
\* Why a second wait is impossible: only a pending link waits, a link that waited
\* is not pending any more, and the first character settles it.
WaitInv ==
  /\ waits \in Nat /\ waits <= 1
  /\ link = "pending" => waits = 0 /\ peer = <<>> /\ delivered = <<>>
  /\ link = "gave_up" => waits = 1 /\ peer = <<>>

\* Showing a character settles the link, with at most one wait in all.
LEMMA PushWaits ==
  ASSUME WaitInv, NEW c, Push(c)
  PROVE  link' # "pending" /\ WaitInv'
BY DEF Push, AwaitStream, WriteStream, WaitInv

\* A cycle in which no character is complete shows none.
LEMMA TickWaits ==
  ASSUME WaitInv, Tick
  PROVE  WaitInv'
<1>1. PICK bit \in Bit :
        /\ OnTick(bit)
        /\ delivered' = IF tx.phase = "Stop" /\ tx.cycle = Midpoint
                        THEN Append(delivered, Decoded(tx, bit)) ELSE delivered
  BY DEF Tick
<1>2. ASSUME NEW c, Push(c) PROVE WaitInv'
  BY <1>2, PushWaits
<1>3. CASE tx.phase = "Stop" /\ tx.cycle = Midpoint
  <2>1. Push(Decoded(tx, bit))
    BY <1>1, <1>3 DEF OnTick, TickIdle, TickFrame
  <2>2. QED
    BY <1>2, <2>1
<1>4. CASE ~(tx.phase = "Stop" /\ tx.cycle = Midpoint)
  <2>1. UNCHANGED delivered
    BY <1>1, <1>4
  <2>2. CASE NoPush
    BY <2>1, <2>2 DEF NoPush, WaitInv
  <2>3. QED
    BY <1>1, <1>2, <2>2 DEF OnTick, TickIdle, TickFrame
<1>5. QED
  BY <1>3, <1>4

\* A peer that never connects blocks the simulation at most once, with the first
\* character, and is never written to afterwards (uart_tx.rs `push_char`,
\* `gave_up_on_socket`).
THEOREM LinkOneWait == Spec => []OneWait
<1>1. Init => WaitInv
  BY DEF Init, TxInitTerminal, TxInitSocket, WaitInv
<1>2. ASSUME WaitInv, [Next]_vars PROVE WaitInv'
  <2>1. CASE Receive \/ UNCHANGED vars
    BY <1>2, <2>1 DEF Receive, txVars, vars, WaitInv
  <2>2. CASE Accept
    BY <1>2, <2>2 DEF Accept, AcceptPeer, WaitInv
  <2>3. CASE Tick
    BY <1>2, <2>3, TickWaits
  <2>4. QED
    BY <1>2, <2>1, <2>2, <2>3 DEF Next
<1>3. WaitInv => OneWait
  BY DEF WaitInv, OneWait
<1>4. QED
  BY <1>1, <1>2, <1>3, PTL DEF Spec
-----------------------------------------------------------------------------
\* The element after a prefix is the one appended to it.
LEMMA PrefixElement ==
  ASSUME NEW S, NEW d \in Seq(S), NEW u \in Seq(S), NEW x \in S
  PROVE  LET s == Append(d, x) \o u
         IN  Len(d) < Len(s) /\ s[Len(d) + 1] = x
OBVIOUS

\* The two peripherals implement a lossless ordered byte stream: every step of
\* the link sends, delivers the oldest undelivered byte, or changes neither.
THEOREM LinkImplementsStream ==
  ASSUME CyclesPerBit >= 2
  PROVE  Spec => StreamSpec
<1>1. Init => Stream!Init
  BY DEF Init, Stream!Init
<1>2. ASSUME IInv, IInv', [Next]_vars PROVE [Stream!Next]_<<sent, delivered>>
  <2>1. CASE Receive
    <3>1. PICK b \in Payload : sent' = Append(sent, b)
      BY <2>1 DEF Receive
    <3>2. sent \in Seq(Payload) /\ UNCHANGED delivered
      BY <1>2, <2>1 DEF IInv, Typed, Receive
    <3>3. sent' \in Seq(Payload) /\ Len(sent) <= Len(sent') /\ sent = SubSeq(sent', 1, Len(sent))
      BY <3>1, <3>2
    <3>4. QED
      BY <3>2, <3>3 DEF Stream!Next, Stream!Send, Stream!IsPrefix
  <2>2. CASE Accept \/ UNCHANGED vars
    BY <2>2 DEF Accept, vars
  <2>3. CASE Tick
    <3>1. UNCHANGED sent
      BY <2>3 DEF Tick
    <3>2. CASE \E x : delivered' = Append(delivered, x)
      <4>1. PICK x : delivered' = Append(delivered, x)
        BY <3>2
      <4>2. delivered \in Seq(Payload) /\ delivered' \in Seq(Payload)
        BY <1>2 DEF IInv, Typed
      <4>3. x \in Payload
        BY <4>1, <4>2
      <4>4. Undecoded' \in Seq(Payload)
        BY <1>2 DEF IInv, Typed, EncodesFront, Undecoded, FrontDecoded
      <4>5. sent = Append(delivered, x) \o Undecoded'
        BY <1>2, <3>1, <4>1 DEF IInv, Lossless
      <4>6. Len(delivered) < Len(sent) /\ sent[Len(delivered) + 1] = x
        BY <4>2, <4>3, <4>4, <4>5, PrefixElement
      <4>7. QED
        BY <3>1, <4>1, <4>6 DEF Stream!Next, Stream!Deliver
    <3>3. QED
      BY <2>3, <3>1, <3>2 DEF Tick
  <2>4. QED
    BY <1>2, <2>1, <2>2, <2>3 DEF Next
<1>3. QED
  BY IInvAlways, <1>1, <1>2, PTL DEF Spec, StreamSpec, Stream!Spec
=============================================================================
