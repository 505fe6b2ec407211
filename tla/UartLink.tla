------------------------------- MODULE UartLink -------------------------------
(****************************************************************************)
(* `uart_rx` and `uart_tx` bound to the two ends of a design that wires its *)
(* serial input to its serial output, at the same baud.  One Tick is one    *)
(* cycle of the simulation harness: `drive_peripherals` sets the input,     *)
(* `Sim::tick` runs, `notify_on_tick` shows the output to the decoder.  The *)
(* reader and accept threads of the sockets run between ticks.              *)
(****************************************************************************)
EXTENDS UartPeripherals

CONSTANTS Payload,        \* the bytes that may be sent
          MaxBytes        \* bound on the bytes sent in one run

VARIABLES sent,           \* history: every byte handed to uart_rx
          delivered       \* history: every character uart_tx pushed

vars == <<rxVars, txVars, sent, delivered>>

LinkAssumption ==
  /\ LogCap \in Nat /\ LogCap >= 1
  /\ Payload \subseteq Byte
  /\ FramingError \notin Byte
  /\ MaxBytes \in Nat

ASSUME LinkAssumptionHolds == LinkAssumption

Init ==
  /\ sent = <<>> /\ delivered = <<>>
  /\ RxInit
  /\ TxInitTerminal \/ TxInitSocket

\* The reader thread got one more byte from its socket.
Receive ==
  /\ Len(sent) < MaxBytes
  /\ \E b \in Payload : Enqueue(<<b>>) /\ sent' = Append(sent, b)
  /\ UNCHANGED <<txVars, delivered>>

Accept == AcceptPeer /\ UNCHANGED <<rxVars, sent, delivered>>

Tick ==
  /\ \E bit \in Bit :
       /\ Drive(bit)
       /\ OnTick(bit)
       /\ delivered' = IF tx.phase = "Stop" /\ tx.cycle = Midpoint
                       THEN Append(delivered, Decoded(tx, bit))
                       ELSE delivered
  /\ UNCHANGED sent

Next == Receive \/ Accept \/ Tick

Spec == Init /\ [][Next]_vars

\* The harness keeps ticking while the test runs; threads owe nothing.
FairSpec == Spec /\ WF_vars(Tick)
-----------------------------------------------------------------------------

\* The front byte is already decoded once its frame is past the middle of the
\* stop bit; it stays in the queue until the last cycle of that frame.
FrontDecoded ==
  rx.phase = "Stop" /\ (tx.phase = "Idle" \/ tx.cycle > Midpoint)

Undecoded == IF FrontDecoded THEN Tail(queue) ELSE queue

\* Lossless and ordered: what was decoded, followed by what is still to be
\* decoded, is exactly what was sent, whatever the interleaving of the reader
\* thread with the frame on the line (uart_rx.rs `drive` peeks the front byte
\* and pops it a whole frame later; uart_tx.rs `on_tick` samples mid-bit).
Lossless == sent = delivered \o Undecoded

\* The decoder keeps pace with the encoder, at most one phase ahead, and is idle
\* again before the next byte starts: the longer start bit of uart_rx makes up
\* exactly for the cycle in which uart_tx detects it, so bytes sent back to back
\* do not drift apart (uart_rx.rs `phase_len`).
Synchronised ==
  /\ rx.phase = "Idle"  => tx.phase = "Idle"
  /\ rx.phase = "Start" => tx.phase \in {"Start", "Data"}
  /\ rx.phase = "Data"  => tx.phase \in {"Data", "Stop"}
  /\ rx.phase = "Stop"  => tx.phase \in {"Stop", "Idle"}

\* The simulation is stalled for a peer once, and by the first character only, at
\* whatever moment the accept thread succeeds: with that character the question is
\* settled, and a peer that comes after the decoder gave up is never written to
\* (uart_tx.rs `push_char`, `gave_up_on_socket`).
OneWait ==
  /\ waits <= 1
  /\ link = "pending" => delivered = <<>> /\ waits = 0
  /\ link = "gave_up" => waits = 1 /\ peer = <<>>

Stream == INSTANCE ByteStream
StreamSpec == Stream!Spec

\* Every byte handed over is decoded as long as the simulation keeps ticking.
Delivery == \A n \in 1..MaxBytes : (Len(sent) >= n) ~> (Len(delivered) >= n)
-----------------------------------------------------------------------------
\* The bytes of the runs: two with every kind of neighbouring bits.
ByteOf(ones) == [i \in BitIndex |-> IF i \in ones THEN 1 ELSE 0]

SamplePayload == {ByteOf({0, 2, 5, 7}), ByteOf({1, 2, 6})}
=============================================================================
