-------------------------------- MODULE Harness --------------------------------
(****************************************************************************)
(* `mimz test`: commands/test.rs runs the test blocks of a file in order;   *)
(* harness/mod.rs interprets the body of each one against a fresh `Sim` and *)
(* a fresh `EmulationHost`; emulate/host.rs is the host that owns the       *)
(* peripherals bound by a `sim` block and the terminal dashboard.           *)
(*                                                                          *)
(* The recursion of `exec` is the sequence `stack`, and the nested loops of *)
(* a `tick` statement run one call of the simulator or of the host per step.*)
(* The simulator itself is abstract: Ticked is a whole period of module     *)
(* Kernel, which is atomic for its caller.                                  *)
(****************************************************************************)
EXTENDS Integers, Sequences, SequencesExt

CONSTANTS
  Suites,                  \* files: sequences of tests [setup, body]
  Body,                    \* the statement lists of the tests, nested ones too
  Size,                    \* of each, in statements, those of its branches included
  Modes,                   \* command lines: [live, step]
  Clock, Input, Output,    \* ports of the module under test
  State, PowerOn,          \* the states of a Sim; a new one
  Driven(_, _, _),         \* Sim::set_val and Sim::set: state, leaf, value
  Ticked(_, _),            \* Sim::tick, without its checks: state, clock
  Settled(_),              \* the module-level asserts hold
  Peek(_, _),              \* Sim::peek: state, port
  Eval(_, _), Fails(_, _), \* expressions; where their evaluation is an Err
  Holds(_, _),             \* a known value whose lowest bit is 1
  DirectionOf,             \* the registry: "in" or "out" by peripheral name
  Fallible,                \* peripherals whose calls may return Err
  Level,                   \* what an input peripheral may drive
  Fps,                     \* DASHBOARD_FPS
  MaxSimCycles,            \* MAX_SIM_CYCLES
  Words,                   \* a cycle count is kept modulo this (u64)
  None                     \* an absent count or speed

ASSUME HarnessAssumption ==
  /\ Fps \in Nat \ {0} /\ Words \in Nat \ {0} /\ MaxSimCycles \in 0..(Words - 1)
  /\ Fallible \subseteq DOMAIN DirectionOf
  /\ \A k \in DOMAIN DirectionOf : DirectionOf[k] \in {"in", "out"}

\* What the parser makes of a test, and the loader of a file.
IsBody(b) ==
  \A i \in DOMAIN b :
    /\ b[i].kind \in {"drive", "tick", "expect", "if", "sim"}
    /\ b[i].kind = "if" => {b[i].then, b[i].els} \subseteq Body
    /\ b[i].kind = "sim" => b[i].binds \in Seq(Range(b[i].binds))

ASSUME BodyAssumption ==
  /\ \A b \in Body : b \in Seq(Range(b)) /\ IsBody(b)
  /\ \A b \in Body :
       /\ Size[b] \in Nat /\ Len(b) < Size[b]
       /\ \A i \in DOMAIN b : b[i].kind = "if" =>
            Size[b[i].then] + i <= Size[b] /\ Size[b[i].els] + i <= Size[b]
  /\ \A f \in Suites : /\ f \in Seq(Range(f)) /\ f # <<>>
                        /\ \A i \in DOMAIN f : f[i].body \in Body

\* A simulation stays within its states when a statement or a tick changes it.
ASSUME StateAssumption ==
  /\ PowerOn \in State
  /\ \A s \in State :
       /\ \A c \in Clock : Ticked(s, c) \in State
       /\ \A b \in Body : \A i \in DOMAIN b :
            b[i].kind = "drive" /\ b[i].port \in Input /\ ~Fails(b[i].val, s) =>
              Driven(s, b[i].port, Eval(b[i].val, s)) \in State

VARIABLES
  suite, mode, t,          \* the file, the command line, the running test
  pc, stack,               \* where `exec` is
  sim, cycle, checks,      \* the simulation, its cycles, the expects reached
  active,                  \* the `sim` block in force: its speed and ports
  host,                    \* peripherals [port, kind, since, drives, ticks, shown]
  call,                    \* tick loops: [clock, left, batch]
  screen,                  \* the dashboard: [open, cycle, quit]
  result, aborted, log     \* of this test; of the tests before

test == <<suite, mode>>
run  == <<sim, cycle, checks>>
vars == <<test, t, pc, stack, run, active, host, call, screen, result, aborted, log>>

NoSim == [on |-> FALSE, speed |-> None, bound |-> <<>>]
NoCall == [clock |-> None, left |-> 0, batch |-> 0]
Closed == [open |-> FALSE, cycle |-> 0, quit |-> FALSE]
At(body, i) == [body |-> body, at |-> i]

Live == mode.live
Stepping == mode.step /\ mode.live

Init ==
  /\ suite \in Suites /\ mode \in Modes
  /\ t = 1 /\ pc = "setup" /\ stack = <<>>
  /\ sim = PowerOn /\ cycle = 0 /\ checks = 0
  /\ active = NoSim /\ host = <<>> /\ call = NoCall /\ screen = Closed
  /\ result = "none" /\ aborted = FALSE /\ log = <<>>
-----------------------------------------------------------------------------
\* Fault: the peripherals of the previous test stay with the host.
FreshHostKept == host

FreshHost == <<>>

\* `run_test`: elaborate, build the simulation, and start on the body.
Begin ==
  /\ pc = "setup"
  /\ sim' = PowerOn /\ cycle' = 0 /\ checks' = 0
  /\ active' = NoSim /\ host' = FreshHost /\ call' = NoCall /\ screen' = Closed
  /\ aborted' = FALSE
  /\ IF suite[t].setup = "ok"
     THEN /\ pc' = "exec" /\ result' = "none" /\ stack' = <<At(suite[t].body, 1)>>
     ELSE /\ pc' = "report" /\ result' = "error" /\ stack' = <<>>
  /\ UNCHANGED <<test, t, log>>

\* Stop::Err returns from `run_test` at once: the host is dropped unfinished.
Raise ==
  /\ pc' = "report" /\ result' = "error"
  /\ UNCHANGED <<test, t, stack, run, active, host, call, screen, aborted, log>>

\* Every other end of the body lets the host finish.
End(outcome) ==
  /\ pc' = "finish" /\ result' = outcome
  /\ UNCHANGED <<test, t, stack, run, active, host, call, aborted, log>>

Top == Head(stack)
Stmt == Top.body[Top.at]
Reached(kind) ==
  pc = "exec" /\ stack # <<>> /\ Top.at \in DOMAIN Top.body /\ Stmt.kind = kind
Advanced == <<At(Top.body, Top.at + 1)>> \o Tail(stack)

Drive ==
  /\ Reached("drive")
  /\ ~Fails(Stmt.val, sim) /\ Stmt.port \in Input
  /\ sim' = Driven(sim, Stmt.port, Eval(Stmt.val, sim))
  /\ stack' = Advanced
  /\ UNCHANGED <<test, t, pc, cycle, checks, active, host, call, screen, result, aborted, log>>

DriveFails ==
  /\ Reached("drive")
  /\ Fails(Stmt.val, sim) \/ Stmt.port \notin Input
  /\ Raise

\* `checks` counts an expect before it is known to hold.
Expect ==
  /\ Reached("expect") /\ ~Fails(Stmt.cond, sim) /\ Holds(Stmt.cond, sim)
  /\ checks' = checks + 1 /\ stack' = Advanced
  /\ UNCHANGED <<test, t, pc, sim, cycle, active, host, call, screen, result, aborted, log>>

ExpectFails ==
  /\ Reached("expect") /\ ~Fails(Stmt.cond, sim) /\ ~Holds(Stmt.cond, sim)
  /\ checks' = checks + 1 /\ pc' = "finish" /\ result' = "fail"
  /\ UNCHANGED <<test, t, stack, sim, cycle, active, host, call, screen, aborted, log>>

If ==
  /\ Reached("if") /\ ~Fails(Stmt.cond, sim)
  /\ stack' = <<At(IF Holds(Stmt.cond, sim) THEN Stmt.then ELSE Stmt.els, 1)>> \o Advanced
  /\ UNCHANGED <<test, t, pc, run, active, host, call, screen, result, aborted, log>>

CondFails ==
  /\ Reached("expect") \/ Reached("if")
  /\ Fails(Stmt.cond, sim)
  /\ Raise

EndList ==
  /\ pc = "exec" /\ stack # <<>> /\ Top.at \notin DOMAIN Top.body
  /\ stack' = Tail(stack)
  /\ UNCHANGED <<test, t, pc, run, active, host, call, screen, result, aborted, log>>

EndBody == pc = "exec" /\ stack = <<>> /\ End("pass") /\ UNCHANGED screen
-----------------------------------------------------------------------------
\* A bind needs a known peripheral and a port of its direction.
Bindable(kind) ==
  IF kind \notin DOMAIN DirectionOf THEN {}
  ELSE IF DirectionOf[kind] = "out" THEN Output ELSE Input

BadBind(b) == b.port \notin Bindable(b.kind)

Peripheral(b) == [port |-> b.port, kind |-> b.kind, since |-> cycle,
                  drives |-> 0, ticks |-> 0, shown |-> None]

\* `require_i128` wants a number, the statement a positive one.
BadSpeed(e) == e # None /\ (Fails(e, sim) \/ Eval(e, sim) \notin Nat \ {0})

\* `sim { ... }`: the binds are added to the host, and the block takes the
\* place of an earlier one.
SimBlock ==
  /\ Reached("sim")
  /\ ~BadSpeed(Stmt.speed) /\ \A i \in DOMAIN Stmt.binds : ~BadBind(Stmt.binds[i])
  /\ host' = host \o [i \in DOMAIN Stmt.binds |-> Peripheral(Stmt.binds[i])]
  /\ active' = [on |-> TRUE,
                speed |-> IF Stmt.speed = None THEN None ELSE Eval(Stmt.speed, sim),
                bound |-> [i \in DOMAIN Stmt.binds |-> Stmt.binds[i].port]]
  /\ stack' = Advanced
  /\ UNCHANGED <<test, t, pc, run, call, screen, result, aborted, log>>

\* A constructor may also refuse its arguments (S0404).
SimBlockFails ==
  /\ Reached("sim")
  /\ \/ BadSpeed(Stmt.speed)
     \/ \E i \in DOMAIN Stmt.binds :
          BadBind(Stmt.binds[i]) \/ Stmt.binds[i].kind \in Fallible
  /\ Raise
-----------------------------------------------------------------------------
Batched == Live /\ active.on

\* Fault: a speed below the frame rate gives batches of no cycle.
BatchSizeUnfloored ==
  IF Stepping THEN 1
  ELSE IF active.speed = None THEN call.left ELSE active.speed \div Fps

\* Fault: the pacing of `speed` applies to a stepped run too.
BatchSizePaced ==
  IF active.speed = None THEN call.left
  ELSE IF active.speed \div Fps > 1 THEN active.speed \div Fps ELSE 1

\* `batch_cycles`: one batch for the whole statement when there is no speed.
BatchSize ==
  IF Stepping THEN 1
  ELSE IF active.speed = None THEN call.left
  ELSE IF active.speed \div Fps > 1 THEN active.speed \div Fps ELSE 1

\* Fault: the last batch is not cut to the cycles that are left.
NextBatchWhole(left, size) == size

\* `batch_sizes`, one element at a time.
NextBatch(left, size) == IF left < size THEN left ELSE size

\* The value of a count is an i128, negative or not; its cast keeps 64 bits.
Count == IF Stmt.count = None THEN 1 ELSE Eval(Stmt.count, sim) % Words

\* Fault: each statement is measured by itself.
OverLimitAlone(n) == ~Live /\ n > MaxSimCycles

OverLimit(n) == ~Live /\ cycle + n > MaxSimCycles

BadTick ==
  \/ Stmt.clock \notin Clock
  \/ Stmt.count # None /\ (Fails(Stmt.count, sim) \/ Eval(Stmt.count, sim) \notin Nat)
  \/ OverLimit(Count)

SkipsTick == active.on /\ ~Live

\* The checks of a tick statement come in the order: clock, skip, count, limit.
Tick ==
  /\ Reached("tick") /\ ~SkipsTick /\ ~BadTick
  /\ call' = [clock |-> Stmt.clock, left |-> Count, batch |-> 0]
  /\ pc' = IF Count = 0 THEN "exec" ELSE IF Batched THEN "batch" ELSE "cycle"
  /\ stack' = Advanced
  /\ UNCHANGED <<test, t, run, active, host, screen, result, aborted, log>>

TickSkips == Reached("tick") /\ Stmt.clock \in Clock /\ SkipsTick
             /\ End("skipped") /\ UNCHANGED screen

TickFails == Reached("tick") /\ (~SkipsTick \/ Stmt.clock \notin Clock) /\ BadTick /\ Raise

\* One period of the design.  A failed assert is an Err of the tick.
Advances(next) ==
  /\ Settled(Ticked(sim, call.clock))
  /\ sim' = Ticked(sim, call.clock) /\ cycle' = cycle + 1
  /\ pc' = next

AssertFails ==
  /\ pc \in {"cycle", "tick"} /\ ~Settled(Ticked(sim, call.clock))
  /\ Raise

\* Without a live `sim` block the cycles simply follow each other.
Cycle ==
  /\ pc = "cycle"
  /\ Advances(IF call.left = 1 THEN "exec" ELSE "cycle")
  /\ call' = [call EXCEPT !.left = @ - 1]
  /\ UNCHANGED <<test, t, stack, checks, active, host, screen, result, aborted, log>>

AfterCycle(batch) == IF batch = 0 THEN "frame" ELSE "drive"
AfterFrame == IF call.left > 0 THEN "batch" ELSE "exec"

StartBatch ==
  /\ pc = "batch"
  /\ call' = [call EXCEPT !.batch = NextBatch(call.left, BatchSize)]
  /\ pc' = AfterCycle(NextBatch(call.left, BatchSize))
  /\ UNCHANGED <<test, t, stack, run, active, host, screen, result, aborted, log>>

\* Calls find a peripheral by its port: the first one bound to it.
FirstOn(port) == CHOOSE i \in DOMAIN host :
  host[i].port = port /\ \A j \in DOMAIN host : host[j].port = port => i <= j

\* How often a pass over the bound ports calls the peripheral at i.
Calls(i) == Cardinality({b \in DOMAIN active.bound : FirstOn(active.bound[b]) = i})

Drivers == {b \in DOMAIN active.bound : active.bound[b] \in Input}

\* The state once the bound inputs are set to v, in the order of the binds.
AllDriven(v) ==
  LET upto[n \in 0 .. Len(active.bound)] ==
        IF n = 0 THEN sim
        ELSE IF n \in Drivers THEN Driven(upto[n - 1], active.bound[n], v[n])
        ELSE upto[n - 1]
  IN  upto[Len(active.bound)]

\* `drive_peripherals`: collect what every input peripheral drives, then set
\* the ports.
DrivePeripherals ==
  /\ pc = "drive"
  /\ \E v \in [Drivers -> Level] : sim' = AllDriven(v)
  /\ host' = [i \in DOMAIN host |->
                IF host[i].port \in Input THEN [host[i] EXCEPT !.drives = @ + Calls(i)]
                                          ELSE host[i]]
  /\ pc' = "tick"
  /\ UNCHANGED <<test, t, stack, cycle, checks, active, call, screen, result, aborted, log>>

SimTick ==
  /\ pc = "tick" /\ Advances("notify")
  /\ UNCHANGED <<test, t, stack, checks, active, host, call, screen, result, aborted, log>>

\* `notify_on_tick`, after every cycle, on both kinds of port.
Notify ==
  /\ pc = "notify"
  /\ host' = [i \in DOMAIN host |-> [host[i] EXCEPT !.ticks = @ + Calls(i)]]
  /\ call' = [call EXCEPT !.left = @ - 1, !.batch = @ - 1]
  /\ pc' = AfterCycle(call.batch - 1)
  /\ UNCHANGED <<test, t, stack, run, active, screen, result, aborted, log>>

\* A peripheral that opens its device on the first tick may fail there.
NotifyFails ==
  /\ pc = "notify" /\ \E i \in DOMAIN host : host[i].kind \in Fallible /\ Calls(i) > 0
  /\ Raise

\* The end of a batch: `notify_peripherals` shows the outputs, then `frame`
\* opens the dashboard if need be and draws it.
Frame ==
  /\ pc = "frame"
  /\ host' = [i \in DOMAIN host |->
                IF host[i].port \in Output /\ Calls(i) > 0
                THEN [host[i] EXCEPT !.shown = Peek(sim, host[i].port)] ELSE host[i]]
  /\ screen' = [screen EXCEPT !.open = TRUE, !.cycle = cycle]
  /\ pc' = IF Stepping THEN "stepKey" ELSE AfterFrame
  /\ UNCHANGED <<test, t, stack, run, active, call, result, aborted, log>>

\* `wait_for_step`: the user advances by one cycle, or quits the run.
StepEnter ==
  /\ pc = "stepKey"
  /\ pc' = AfterFrame
  /\ UNCHANGED <<test, t, stack, run, active, host, call, screen, result, aborted, log>>

StepQuit ==
  /\ pc = "stepKey"
  /\ End("skipped")
  /\ screen' = [screen EXCEPT !.quit = TRUE]
-----------------------------------------------------------------------------
\* `finish`: the peripherals flush what they deferred; an open dashboard waits
\* for the user, unless the user has quit already.
Finish ==
  /\ pc = "finish"
  /\ pc' = IF screen.open /\ ~screen.quit THEN "dismissKey" ELSE "report"
  /\ aborted' = screen.quit
  /\ UNCHANGED <<test, t, stack, run, active, host, call, screen, result, log>>

FinishFails ==
  /\ pc = "finish" /\ \E i \in DOMAIN host : host[i].kind \in Fallible
  /\ Raise

Dismiss ==
  /\ pc = "dismissKey"
  /\ aborted' \in BOOLEAN
  /\ pc' = "report"
  /\ UNCHANGED <<test, t, stack, run, active, host, call, screen, result, log>>

\* The terminal cannot be opened, drawn on or read.
TerminalFails == pc \in {"frame", "stepKey", "dismissKey"} /\ Raise

\* Fault: the loop over the tests goes on after a quit.
LastTestAlways == t = Len(suite)

\* The loop of commands/test.rs: a quit ends it, an error does not.
LastTest == t = Len(suite) \/ aborted

Report ==
  /\ pc = "report"
  /\ log' = Append(log, [result |-> result, checks |-> checks, cycle |-> cycle])
  /\ IF LastTest THEN pc' = "done" /\ UNCHANGED t
                 ELSE pc' = "setup" /\ t' = t + 1
  /\ UNCHANGED <<test, stack, run, active, host, call, screen, result, aborted>>
-----------------------------------------------------------------------------
Done == pc = "done" /\ UNCHANGED vars

\* What the program does by itself, and what it waits for.
Machine ==
  \/ Begin \/ Drive \/ DriveFails \/ Expect \/ ExpectFails \/ If \/ CondFails
  \/ EndList \/ EndBody \/ SimBlock \/ SimBlockFails
  \/ Tick \/ TickSkips \/ TickFails \/ AssertFails \/ Cycle
  \/ StartBatch \/ DrivePeripherals \/ SimTick \/ Notify \/ NotifyFails \/ Frame
  \/ Finish \/ FinishFails \/ TerminalFails \/ Report

Keyboard == StepEnter \/ StepQuit \/ Dismiss

Next == Machine \/ Keyboard \/ Done

Spec == Init /\ [][Next]_vars

\* The program runs on one thread; the user need never press a key.
FairSpec == Spec /\ WF_vars(Machine)
-----------------------------------------------------------------------------

\* The peripherals the block in force has bound.
InForce == {i \in DOMAIN host : i > Len(host) - Len(active.bound)}

\* Every peripheral of the block in force hears every cycle simulated since it
\* was bound exactly once, and an input peripheral drives each of them exactly
\* once, whatever the batches, the pauses, the branches and the tests before
\* ("Called once per simulated cycle", sim/host.rs).
InStep ==
  pc = "exec" => \A i \in InForce :
    /\ host[i].ticks = cycle - host[i].since
    /\ host[i].drives = IF host[i].port \in Input THEN cycle - host[i].since ELSE 0

Lag == cycle - screen.cycle

\* The dashboard shows the true cycle whenever the test's own statements run or
\* the user is asked for a key, with the outputs of that cycle; a stepped run
\* never simulates a second cycle before showing the first, and a paced one
\* never falls further behind than one frame's share of its speed.
FramePace ==
  screen.open =>
    /\ pc \in {"exec", "stepKey"} => Lag = 0
    /\ Stepping => Lag <= 1
    /\ active.speed # None => Lag <= 1 \/ Lag <= active.speed \div Fps
    /\ pc = "stepKey" => \A i \in InForce :
         host[i].port \in Output => host[i].shown = Peek(sim, host[i].port)

\* A headless test never simulates more than MaxSimCycles cycles, over all its
\* tick statements and branches together.
Limit == ~Live => cycle <= MaxSimCycles

\* What a body does, statement by statement, when a tick is n cycles in a row
\* and a `sim` block is nothing but its validation.
Outcome == [sim : State, cycle : Nat, checks : Nat,
            result : {"none", "fail", "error"}]
Start == [sim |-> PowerOn, cycle |-> 0, checks |-> 0, result |-> "none"]
Ended(r, outcome) == [r EXCEPT !.result = outcome]

Period(r, c) == [r EXCEPT !.sim = Ticked(@, c), !.cycle = @ + 1]

Cycles(c) ==
  LET cycles[n \in Nat] == [r \in Outcome |->
        IF n = 0 THEN r
        ELSE IF ~Settled(Ticked(r.sim, c)) THEN Ended(r, "error")
        ELSE cycles[n - 1][Period(r, c)]]
  IN  cycles

RefTick(s, r, live) ==
  LET n == IF s.count = None THEN 1 ELSE Eval(s.count, r.sim) IN
  IF \/ s.clock \notin Clock
     \/ s.count # None /\ (Fails(s.count, r.sim) \/ n \notin Nat)
     \/ ~live /\ r.cycle + n > MaxSimCycles
  THEN Ended(r, "error") ELSE Cycles(s.clock)[n][r]

RefSim(s, r) ==
  IF \/ s.speed # None /\ (Fails(s.speed, r.sim) \/ Eval(s.speed, r.sim) \notin Nat \ {0})
     \/ \E i \in DOMAIN s.binds : BadBind(s.binds[i])
  THEN Ended(r, "error") ELSE r

RefExpect(s, r) ==
  IF Fails(s.cond, r.sim) THEN Ended(r, "error")
  ELSE Ended([r EXCEPT !.checks = @ + 1], IF Holds(s.cond, r.sim) THEN "none" ELSE "fail")

RefDrive(s, r) ==
  IF Fails(s.val, r.sim) \/ s.port \notin Input THEN Ended(r, "error")
  ELSE [r EXCEPT !.sim = Driven(@, s.port, Eval(s.val, r.sim))]

\* The effect of one statement; read[b][i] is that of b from its i-th on.
Effect(s, r, live, read) ==
  CASE s.kind = "drive" -> RefDrive(s, r)
    [] s.kind = "tick" -> RefTick(s, r, live)
    [] s.kind = "expect" -> RefExpect(s, r)
    [] s.kind = "if" -> IF Fails(s.cond, r.sim) THEN Ended(r, "error")
                        ELSE read[IF Holds(s.cond, r.sim) THEN s.then ELSE s.els][1][r]
    [] s.kind = "sim" -> RefSim(s, r)

Reading(live) ==
  LET read[b \in Body] == [i \in Nat |-> [r \in Outcome |->
        IF r.result # "none" \/ i \notin DOMAIN b THEN r
        ELSE read[b][i + 1][Effect(b[i], r, live, read)]]]
  IN  read

Ref == LET r == Reading(Live)[suite[t].body][1][Start]
       IN  IF r.result = "none" THEN Ended(r, "pass") ELSE r

\* A test that passes or fails does so with the checks, the cycles and the
\* final state its statements have when read one after the other: batching,
\* pacing, stepping, watching its outputs and the tests before it change
\* nothing.  (What an input peripheral drives is not in the text of the test.)
RunsAsWritten ==
  pc = "report" /\ result \in {"pass", "fail"} /\ (\A i \in DOMAIN host : host[i].port \notin Input)
    => [sim |-> sim, cycle |-> cycle, checks |-> checks, result |-> result] = Ref

\* The command always comes to its end or to a question the user has to answer.
EndsOrAsks == []<>(pc \in {"done", "stepKey", "dismissKey"})
=============================================================================
