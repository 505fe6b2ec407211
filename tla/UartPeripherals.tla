--------------------------- MODULE UartPeripherals ---------------------------
(****************************************************************************)
(* The two host-side UART peripherals of the emulation dashboard, `uart_rx` *)
(* and `uart_tx`, and the 8-N-1 frame counter that both keep (`State` and   *)
(* `Phase` in uart_rx.rs and in uart_tx.rs): one low start bit, eight data  *)
(* bits least significant first, one high stop bit, each held for a number  *)
(* of simulated clock cycles.  A byte is the function from its bit positions*)
(* to {0, 1}.                                                               *)
(****************************************************************************)
EXTENDS Integers, Sequences

CONSTANT CyclesPerBit    \* `speed_hz / baud`; `construct` refuses 0

ASSUME CyclesPerBitAssumption == CyclesPerBit \in Nat \ {0}

Bit == {0, 1}

BitIndex == 0..7

Byte == [BitIndex -> Bit]

ZeroByte == [i \in BitIndex |-> 0]

Phases == {"Idle", "Start", "Data", "Stop"}

\* `State::Framing { phase, cycle_in_phase, byte }`; index is the argument of
\* `Phase::Data`, and 0 in the other phases.
Frame == [phase : Phases, index : BitIndex, cycle : Nat, byte : Byte]

\* `State::Idle` carries no fields: its frame is the canonical one.
Idle == [phase |-> "Idle", index |-> 0, cycle |-> 0, byte |-> ZeroByte]

Framing(phase, index, cycle, byte) ==
  [phase |-> phase, index |-> index, cycle |-> cycle, byte |-> byte]

\* Entering `Phase::Start` with no cycle counted yet.
StartFrame(byte) == Framing("Start", 0, 0, byte)

\* The phase that follows a finished one: start, data 0 to 7, stop, idle.
NextPhase(f) ==
  IF f.phase = "Start" THEN Framing("Data", 0, 0, f.byte)
  ELSE IF f.phase = "Data" /\ f.index < 7 THEN Framing("Data", f.index + 1, 0, f.byte)
  ELSE IF f.phase = "Data" THEN Framing("Stop", 0, 0, f.byte)
  ELSE Idle

\* One more cycle of frame f, whose current phase lasts length cycles.
Advance(f, length) ==
  IF f.cycle + 1 >= length
  THEN NextPhase(f)
  ELSE Framing(f.phase, f.index, f.cycle + 1, f.byte)
-----------------------------------------------------------------------------
\* The `uart_rx` peripheral (src/src/emulate/uart_rx.rs): once per simulated
\* clock cycle `drive` returns the level of the bound input bit, encoding
\* the bytes of a queue.  The queue is filled at construction (`source:
\* "text"`) or, for a socket source, by a reader thread at any time.
VARIABLES queue,         \* bytes not yet fully sent; the front one may be on the line
          rx             \* the frame being driven

rxVars == <<queue, rx>>

\* A literal source behaves as a reader thread that delivered all of its bytes
\* before the first cycle.
RxInit == queue = <<>> /\ rx = Idle

\* Fault: the reader thread replaces the queue.
EnqueueReplacing(bytes) == queue' = bytes /\ UNCHANGED rx

\* The reader thread extends the shared queue with what `read` returned.
Enqueue(bytes) == queue' = queue \o bytes /\ UNCHANGED rx

\* The level of the line in frame f.
Level(f) ==
  CASE f.phase = "Start" -> 0
    [] f.phase = "Data"  -> f.byte[f.index]
    [] OTHER             -> 1

\* Fault: every phase gets the extra cycle of the start bit.
PhaseLengthStretched(f) == CyclesPerBit + 1

\* The start bit is held one cycle longer than every other phase.
PhaseLength(f) == IF f.phase = "Start" THEN CyclesPerBit + 1 ELSE CyclesPerBit

\* Idle-high: nothing to send.
DriveIdle(bit) ==
  /\ rx.phase = "Idle"
  /\ queue = <<>>
  /\ bit = 1
  /\ UNCHANGED <<queue, rx>>

\* Fault: the byte leaves the queue when its frame begins.
DriveFramePopping(bit) ==
  /\ rx.phase # "Idle" \/ queue # <<>>
  /\ LET f == IF rx.phase = "Idle" THEN StartFrame(Head(queue)) ELSE rx
     IN  /\ bit = Level(f)
         /\ rx' = Advance(f, PhaseLength(f))
         /\ queue' = IF rx.phase = "Idle" THEN Tail(queue) ELSE queue

\* One cycle of a frame.  The front byte is read when the frame begins and
\* popped only when its stop bit is over.
DriveFrame(bit) ==
  /\ rx.phase # "Idle" \/ queue # <<>>
  /\ LET f == IF rx.phase = "Idle" THEN StartFrame(Head(queue)) ELSE rx
     IN  /\ bit = Level(f)
         /\ rx' = Advance(f, PhaseLength(f))
         /\ queue' = IF rx'.phase = "Idle" THEN Tail(queue) ELSE queue

Drive(bit) == DriveIdle(bit) \/ DriveFrame(bit)
-----------------------------------------------------------------------------
\* The `uart_tx` peripheral (src/src/emulate/uart_tx.rs): `on_tick` sees the
\* bound output bit once per simulated clock cycle, decodes 8-N-1 frames by
\* sampling each bit in the middle of its period, and shows every decoded
\* character in a bounded log and, with a socket target, sends it to the
\* one peer the listener accepted.
CONSTANTS LogCap,         \* how many trailing characters `render` shows (32 in the code)
          FramingError    \* the note logged when the stop bit is low

VARIABLES tx,             \* the frame being decoded
          log,            \* the trailing characters on the dashboard
          link,           \* "terminal", or the socket: "pending", "connected", "gave_up"
          accepted,       \* the accept thread's stream is waiting in the channel
          waits,          \* how many characters blocked the simulation on `recv_timeout`
          peer            \* what the socket's peer was sent

Links == {"terminal", "pending", "connected", "gave_up"}

\* Without a socket target there is no listener and no accept thread.
TxInitTerminal ==
  tx = Idle /\ log = <<>> /\ link = "terminal" /\ accepted = FALSE /\ waits = 0 /\ peer = <<>>

TxInitSocket ==
  tx = Idle /\ log = <<>> /\ link = "pending" /\ accepted = FALSE /\ waits = 0 /\ peer = <<>>

Midpoint == CyclesPerBit \div 2

txVars == <<tx, log, link, accepted, waits, peer>>

\* The background thread accepts one connection and sends its stream.
AcceptPeer ==
  /\ link # "terminal"
  /\ ~accepted
  /\ accepted' = TRUE
  /\ UNCHANGED <<tx, log, link, waits, peer>>

\* Fault: the wait is guarded by the missing stream only, not by `gave_up_on_socket`.
AwaitStreamAgain ==
  \/ link \in {"terminal", "connected"} /\ UNCHANGED <<link, accepted, waits>>
  \/ /\ link \in {"pending", "gave_up"}
     /\ waits' = waits + 1
     /\ link' = IF accepted THEN "connected" ELSE "gave_up"
     /\ UNCHANGED accepted

\* The one bounded wait for the stream, on the first character ever pushed.
\* With the stream in the channel it returns at once; otherwise the peer may
\* still connect within the second, or the peripheral gives up for good.
AwaitStream ==
  \/ link # "pending" /\ UNCHANGED <<link, accepted, waits>>
  \/ link = "pending" /\ accepted /\ link' = "connected" /\ UNCHANGED <<accepted, waits>>
  \/ /\ link = "pending" /\ ~accepted
     /\ waits' = waits + 1
     /\ \/ link' = "connected" /\ accepted' = TRUE
        \/ link' = "gave_up" /\ UNCHANGED accepted

\* Best effort: a byte the peer's socket does not take is dropped.
WriteStream(c) ==
  \/ link' = "connected" /\ peer' = Append(peer, c)
  \/ UNCHANGED peer

\* Faults: the log is never trimmed, or it is trimmed at the wrong end.
PushUntrimmed(c) == log' = Append(log, c) /\ AwaitStream /\ WriteStream(c)

PushTrimmingNewest(c) ==
  /\ log' = IF Len(log) < LogCap THEN Append(log, c) ELSE log
  /\ AwaitStream
  /\ WriteStream(c)

\* `push_char`, and `push_note` with the whole note as one character.
Push(c) ==
  /\ log' = IF Len(log) < LogCap THEN Append(log, c) ELSE Append(Tail(log), c)
  /\ AwaitStream
  /\ WriteStream(c)

NoPush == UNCHANGED <<log, link, accepted, waits, peer>>

\* Fault: bits collected most significant first.
SampledReversed(f, bit) ==
  IF f.phase = "Data" /\ f.cycle = Midpoint /\ bit = 1
  THEN Framing(f.phase, f.index, f.cycle, [f.byte EXCEPT ![7 - f.index] = 1])
  ELSE f

\* `byte |= bit << i`, in the middle of data bit i only.
Sampled(f, bit) ==
  IF f.phase = "Data" /\ f.cycle = Midpoint /\ bit = 1
  THEN Framing(f.phase, f.index, f.cycle, [f.byte EXCEPT ![f.index] = 1])
  ELSE f

\* What is logged in the middle of the stop bit.
Decoded(f, bit) == IF bit = 1 THEN f.byte ELSE FramingError

\* A high line leaves an idle decoder idle.
TickIdle(bit) ==
  /\ tx.phase = "Idle" /\ bit # 0
  /\ UNCHANGED tx
  /\ NoPush

\* A low line starts a frame in the very cycle that sees it.
TickFrame(bit) ==
  /\ tx.phase # "Idle" \/ bit = 0
  /\ LET f == IF tx.phase = "Idle" THEN StartFrame(ZeroByte) ELSE tx
         middle == f.cycle = Midpoint
     IN  \/ /\ f.phase = "Start" /\ middle /\ bit # 0     \* a glitch, not a start bit
            /\ tx' = Idle
            /\ NoPush
         \/ /\ ~(f.phase = "Start" /\ middle /\ bit # 0)
            /\ tx' = Advance(Sampled(f, bit), CyclesPerBit)
            /\ IF f.phase = "Stop" /\ middle
               THEN Push(Decoded(f, bit))
               ELSE NoPush

OnTick(bit) == TickIdle(bit) \/ TickFrame(bit)
=============================================================================
