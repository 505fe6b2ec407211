----------------------------- MODULE HarnessProofs -----------------------------
(****************************************************************************)
(* Theorems about Harness for every test file, module under test, registry  *)
(* of peripherals, frame rate and limit: a headless test stays within the   *)
(* limit, the peripherals in force hear and drive every cycle once, the     *)
(* dashboard keeps the pace of the cycles it shows, and a test does what    *)
(* its text says.                                                           *)
(****************************************************************************)
EXTENDS Harness, TLAPS, SequenceTheorems, FiniteSetTheorems, WellFoundedInduction
-----------------------------------------------------------------------------
Places == [body : Body, at : Nat \ {0}]

FileOK ==
  /\ suite \in Suites /\ t \in DOMAIN suite
  /\ stack \in Seq(Places)

\* A list of a test, seen from the place reached in it.
LEMMA PlaceType ==
  ASSUME FileOK, stack # <<>>
  PROVE  /\ Top.body \in Body /\ Top.at \in Nat \ {0}
         /\ Tail(stack) \in Seq(Places) /\ Advanced \in Seq(Places)
<1>1. Top \in Places /\ Tail(stack) \in Seq(Places)
  BY HeadTailProperties DEF FileOK, Top
<1>2. Top.body \in Body /\ Top.at \in Nat \ {0}
  BY <1>1 DEF Places
<1>3. At(Top.body, Top.at + 1) \in Places
  BY <1>2 DEF At, Places
<1>4. <<At(Top.body, Top.at + 1)>> \in Seq(Places)
  BY <1>3
<1>5. Advanced \in Seq(Places)
  BY <1>1, <1>4, ConcatProperties DEF Advanced
<1>. QED BY <1>1, <1>2, <1>5

\* A file has its tests at the places 1 to their number.
LEMMA SuiteType ==
  ASSUME NEW f \in Suites
  PROVE  /\ Len(f) \in Nat \ {0} /\ DOMAIN f = 1 .. Len(f)
         /\ \A i \in DOMAIN f : f[i].body \in Body
<1>1. f \in Seq(Range(f)) /\ f # <<>>
  BY BodyAssumption
<1>2. Len(f) \in Nat /\ DOMAIN f = 1 .. Len(f) /\ Len(f) # 0
  BY <1>1, LenProperties, EmptySeq
<1>. QED BY <1>2, BodyAssumption

\* The file, the test and the place in its lists are of their types.
LEMMA FileStep == FileOK /\ [Next]_vars => FileOK'
<1>. SUFFICES ASSUME FileOK, [Next]_vars PROVE FileOK'
  OBVIOUS
<1>1. CASE Begin
  <2>1. suite[t].body \in Body
    BY SuiteType DEF FileOK
  <2>2. <<At(suite[t].body, 1)>> \in Seq(Places)
    BY <2>1 DEF At, Places
  <2>3. stack' = <<At(suite[t].body, 1)>> \/ stack' = <<>>
    BY <1>1 DEF Begin
  <2>4. stack' \in Seq(Places)
    BY <2>2, <2>3, EmptySeq
  <2>. QED BY <1>1, <2>4 DEF Begin, FileOK, test
<1>2. CASE Drive \/ Expect \/ SimBlock \/ Tick
  <2>1. stack' = Advanced /\ stack # <<>> /\ UNCHANGED <<suite, t>>
    BY <1>2 DEF Drive, Expect, SimBlock, Tick, Reached, test
  <2>. QED BY <2>1, PlaceType DEF FileOK
<1>3. CASE If
  <2>1. stack # <<>> /\ UNCHANGED <<suite, t>> /\ Top.at \in DOMAIN Top.body
        /\ Stmt.kind = "if"
    BY <1>3 DEF If, Reached, test
  <2>2. Stmt.then \in Body /\ Stmt.els \in Body
    BY <2>1, PlaceType, BodyAssumption DEF IsBody, Stmt
  <2>3. <<At(Stmt.then, 1)>> \in Seq(Places) /\ <<At(Stmt.els, 1)>> \in Seq(Places)
    BY <2>2 DEF At, Places
  <2>4. <<At(Stmt.then, 1)>> \o Advanced \in Seq(Places)
        /\ <<At(Stmt.els, 1)>> \o Advanced \in Seq(Places)
    BY <2>1, <2>3, PlaceType, ConcatProperties
  <2>. QED BY <1>3, <2>1, <2>4 DEF If, FileOK
<1>4. CASE EndList
  BY <1>4, PlaceType DEF EndList, FileOK, test
<1>5. CASE Report
  <2>1. t' \in DOMAIN suite
    BY <1>5, SuiteType DEF Report, LastTest, FileOK
  <2>. QED BY <1>5, <2>1 DEF Report, FileOK, test
<1>6. CASE \/ DriveFails \/ ExpectFails \/ CondFails \/ EndBody \/ SimBlockFails
           \/ TickSkips \/ TickFails \/ AssertFails \/ Cycle \/ StartBatch
           \/ DrivePeripherals \/ SimTick \/ Notify \/ NotifyFails \/ Frame
           \/ Finish \/ FinishFails \/ TerminalFails \/ Keyboard \/ Done \/ UNCHANGED vars
  <2>1. UNCHANGED <<suite, t, stack>>
    BY <1>6 DEF DriveFails, ExpectFails, CondFails, EndBody, SimBlockFails, TickSkips,
      TickFails, AssertFails, Cycle, StartBatch, DrivePeripherals, SimTick, Notify,
      NotifyFails, Frame, Finish, FinishFails, TerminalFails, Keyboard, StepEnter, StepQuit,
      Dismiss, Done, Raise, End, test, vars
  <2>. QED BY <2>1 DEF FileOK
<1>. QED BY <1>1, <1>2, <1>3, <1>4, <1>5, <1>6 DEF Next, Machine
-----------------------------------------------------------------------------
Record ==
  /\ cycle \in Nat
  /\ active \in [on : BOOLEAN, speed : {active.speed}, bound : Seq(Input \cup Output)]
  /\ active.speed # None => active.speed \in Nat \ {0}
  /\ call \in [clock : {call.clock}, left : Nat, batch : Nat]
  /\ screen \in [open : BOOLEAN, cycle : Nat, quit : BOOLEAN]

\* Batches run, and the dashboard opens, under a live `sim` block only; without
\* one nothing is bound.
Batches == {"batch", "drive", "tick", "notify", "frame", "stepKey"}

ByMode ==
  /\ pc \in Batches => Live /\ active.on
  /\ pc = "cycle" => ~active.on
  /\ screen.open => Live /\ active.on
  /\ ~active.on => active.bound = <<>>

\* What is left of a tick statement, and of its batch.
Counted ==
  /\ pc \in {"cycle", "batch"} => call.left > 0
  /\ pc \in {"drive", "tick", "notify"} => 0 < call.batch /\ call.batch <= call.left

\* The cycles a headless test has simulated and has been allowed to simulate.
Allowed ==
  ~Live => /\ cycle <= MaxSimCycles
           /\ pc = "cycle" => cycle + call.left <= MaxSimCycles

CallInv == FileOK /\ Record /\ ByMode /\ Counted /\ Allowed

\* A count is a natural number once its statement has passed the checks, and
\* a batch has at least one cycle and no more than are left.
LEMMA CountType ==
  ASSUME Reached("tick"), ~BadTick
  PROVE  Count \in Nat /\ ~OverLimit(Count)
BY HarnessAssumption DEF BadTick, Count

\* A quotient of naturals is a natural.
LEMMA QuotientType ==
  ASSUME NEW a \in Nat, NEW b \in Nat \ {0} PROVE a \div b \in Nat
OBVIOUS

\* A frame's share of the dashboard's speed is a natural.
LEMMA FrameShare ==
  ASSUME Record PROVE active.speed # None => active.speed \div Fps \in Nat
BY HarnessAssumption, QuotientType DEF Record

\* A batch is part of what is left of the call, one cycle when stepping, and
\* no more than a frame's share of the speed.
LEMMA BatchType ==
  ASSUME Record, call.left > 0
  PROVE  /\ NextBatch(call.left, BatchSize) \in 1 .. call.left
         /\ NextBatch(call.left, BatchSize) <= BatchSize /\ BatchSize \in Nat
         /\ Stepping => BatchSize <= 1
         /\ active.speed # None => BatchSize <= 1 \/ BatchSize <= active.speed \div Fps
<1>1. call.left \in Nat
  BY DEF Record
<1>2. active.speed # None => active.speed \div Fps \in Nat
  BY FrameShare
<1>3. /\ BatchSize \in Nat \ {0} /\ (Stepping => BatchSize <= 1)
      /\ active.speed # None => BatchSize <= 1 \/ BatchSize <= active.speed \div Fps
  BY <1>1, <1>2 DEF BatchSize
<1>. QED BY <1>1, <1>3 DEF NextBatch

\* The end of a test, and a step that moves on without a cycle, a statement or
\* a key, keep what the invariant says of the call.
Outside == {"setup", "report", "finish", "dismissKey", "done"}

\* A step that ends the run or leaves it outside any call, and changes neither
\* the counters nor the call, keeps the invariant of a call.
LEMMA OutsideStep ==
  ASSUME Record, ByMode, Allowed, pc' \in Outside,
         UNCHANGED <<test, cycle, active, call>>,
         screen' = screen \/ screen' = [screen EXCEPT !.quit = TRUE]
  PROVE  Record' /\ ByMode' /\ Counted' /\ Allowed'
<1>1. mode' = mode /\ (Live' <=> Live)
  BY DEF test, Live
<1>2. screen' \in [open : BOOLEAN, cycle : Nat, quit : BOOLEAN] /\ (screen'.open <=> screen.open)
  BY DEF Record
<1>3. Record'
  BY <1>2 DEF Record
<1>4. ByMode'
  BY <1>1, <1>2 DEF ByMode, Batches, Outside
<1>. QED BY <1>1, <1>3, <1>4 DEF Counted, Allowed, Outside

\* The steps that end a test, whatever its outcome, and those between two tests.
Ends ==
  \/ DriveFails \/ ExpectFails \/ CondFails \/ EndBody \/ SimBlockFails \/ TickSkips
  \/ TickFails \/ AssertFails \/ NotifyFails \/ TerminalFails \/ StepQuit
  \/ Finish \/ FinishFails \/ Dismiss \/ Report

\* Ending a run keeps the counters and the call; at most it quits the screen.
LEMMA EndsOutside ==
  ASSUME Ends
  PROVE  /\ pc' \in Outside /\ UNCHANGED <<test, cycle, active, host, call>>
         /\ screen' = screen \/ screen' = [screen EXCEPT !.quit = TRUE]
<1>1. CASE DriveFails \/ CondFails \/ SimBlockFails \/ TickFails \/ AssertFails
           \/ NotifyFails \/ TerminalFails \/ FinishFails
  BY <1>1 DEF DriveFails, CondFails, SimBlockFails, TickFails, AssertFails, NotifyFails,
              TerminalFails, FinishFails, Raise, Outside, run
<1>2. CASE ExpectFails \/ EndBody \/ TickSkips \/ StepQuit
  BY <1>2 DEF ExpectFails, EndBody, TickSkips, StepQuit, End, Outside, run
<1>3. CASE Finish
  BY <1>3 DEF Finish, Outside, run
<1>4. CASE Dismiss \/ Report
  BY <1>4 DEF Dismiss, Report, Outside, run
<1>. QED BY <1>1, <1>2, <1>3, <1>4 DEF Ends

\* The steps of the test's own statements that leave the call as it is.
LEMMA StatementCall ==
  ASSUME CallInv, Drive \/ Expect \/ If \/ EndList
  PROVE  /\ pc = "exec" /\ pc' = "exec" /\ UNCHANGED <<test, cycle, active, call, screen>>
         /\ Record' /\ ByMode' /\ Counted' /\ Allowed'
<1>1. pc = "exec" /\ pc' = "exec" /\ UNCHANGED <<test, cycle, active, call, screen>>
  BY DEF Drive, Expect, If, EndList, Reached, run
<1>2. mode' = mode /\ (Live' <=> Live)
  BY <1>1 DEF test, Live
<1>. QED BY <1>1, <1>2 DEF CallInv, Record, ByMode, Batches, Counted, Allowed

\* A `sim` block.
LEMMA SimBlockCall ==
  ASSUME CallInv, SimBlock
  PROVE  Record' /\ ByMode' /\ Counted' /\ Allowed'
<1>1. stack # <<>> /\ Top.at \in DOMAIN Top.body /\ Stmt.kind = "sim"
      /\ pc = "exec" /\ pc' = "exec" /\ UNCHANGED <<test, cycle, call, screen>>
  BY DEF SimBlock, Reached, run
<1>2. Stmt.binds \in Seq(Range(Stmt.binds))
  BY <1>1, PlaceType, BodyAssumption DEF IsBody, Stmt, CallInv
<1>3. Len(Stmt.binds) \in Nat /\ DOMAIN Stmt.binds = 1 .. Len(Stmt.binds)
  BY <1>2, LenProperties
<1>4. \A i \in DOMAIN Stmt.binds : Stmt.binds[i].port \in Input \cup Output
  BY DEF SimBlock, BadBind, Bindable
<1>. DEFINE ports == [i \in DOMAIN Stmt.binds |-> Stmt.binds[i].port]
            speed == IF Stmt.speed = None THEN None ELSE Eval(Stmt.speed, sim)
<1>5. ports \in Seq(Input \cup Output)
  BY <1>3, <1>4
<1>6. active' = [on |-> TRUE, speed |-> speed, bound |-> ports]
  BY DEF SimBlock
<1>7. speed = None \/ speed \in Nat \ {0}
  BY DEF SimBlock, BadSpeed
<1>. HIDE DEF ports, speed
<1>8. active' \in [on : BOOLEAN, speed : {active'.speed}, bound : Seq(Input \cup Output)]
      /\ active'.on /\ active'.speed = speed
  BY <1>5, <1>6
<1>9. Record'
  BY <1>1, <1>7, <1>8 DEF CallInv, Record
<1>10. mode' = mode /\ (Live' <=> Live)
  BY <1>1 DEF test, Live
<1>. QED BY <1>1, <1>8, <1>9, <1>10 DEF CallInv, ByMode, Batches, Counted, Allowed

\* The entry of a tick statement.
LEMMA TickCall ==
  ASSUME CallInv, Tick
  PROVE  Record' /\ ByMode' /\ Counted' /\ Allowed'
<1>1. Reached("tick") /\ ~BadTick /\ ~SkipsTick /\ pc = "exec"
      /\ UNCHANGED <<test, cycle, active, screen>>
      /\ call' = [clock |-> Stmt.clock, left |-> Count, batch |-> 0]
      /\ pc' = IF Count = 0 THEN "exec" ELSE IF Batched THEN "batch" ELSE "cycle"
  BY DEF Tick, Reached, run
<1>2. Count \in Nat /\ ~OverLimit(Count)
  BY <1>1, CountType
<1>3. mode' = mode /\ (Live' <=> Live)
  BY <1>1 DEF test, Live
<1>. HIDE DEF Count
<1>4. call' \in [clock : {call'.clock}, left : Nat, batch : Nat] /\ call'.left = Count
  BY <1>1, <1>2
<1>5. Record'
  BY <1>1, <1>4 DEF CallInv, Record
<1>6. pc' \in {"exec", "batch", "cycle"} /\ (pc' = "batch" => Live /\ active.on)
      /\ (pc' = "cycle" => ~(Live /\ active.on)) /\ (pc' # "exec" => Count > 0)
  BY <1>1, <1>2 DEF Batched
<1>7. pc' = "cycle" => ~active.on
  BY <1>1, <1>6 DEF SkipsTick
<1>8. ByMode'
  BY <1>1, <1>3, <1>6, <1>7 DEF CallInv, ByMode, Batches
<1>9. Counted'
  BY <1>4, <1>6 DEF Counted
<1>10. Allowed'
  BY <1>1, <1>2, <1>3, <1>4, HarnessAssumption DEF CallInv, Record, Allowed, OverLimit
<1>. QED BY <1>5, <1>8, <1>9, <1>10

\* The cycles of a tick statement, in a row or in batches.
LEMMA CycleCall ==
  ASSUME CallInv, Cycle \/ SimTick \/ Notify
  PROVE  Record' /\ ByMode' /\ Counted' /\ Allowed'
<1>1. UNCHANGED <<test, active, screen>> /\ mode' = mode /\ (Live' <=> Live)
  BY DEF Cycle, SimTick, Notify, test, Live
<1>2. CASE Cycle
  <2>1. pc = "cycle" /\ cycle' = cycle + 1 /\ call' = [call EXCEPT !.left = @ - 1]
        /\ pc' = IF call.left = 1 THEN "exec" ELSE "cycle"
    BY <1>2 DEF Cycle, Advances
  <2>2. call.left > 0 /\ call.left \in Nat
    BY <2>1 DEF CallInv, Counted, Record
  <2>3. call' \in [clock : {call'.clock}, left : Nat, batch : Nat]
        /\ call'.left = call.left - 1
    BY <2>1, <2>2 DEF CallInv, Record
  <2>4. Record'
    BY <1>1, <2>1, <2>3 DEF CallInv, Record
  <2>5. ByMode'
    BY <1>1, <2>1 DEF CallInv, ByMode, Batches
  <2>6. Counted'
    BY <2>1, <2>2, <2>3 DEF Counted
  <2>7. Allowed'
    BY <1>1, <2>1, <2>2, <2>3, HarnessAssumption DEF CallInv, Allowed, Record
  <2>. QED BY <2>4, <2>5, <2>6, <2>7
<1>3. CASE SimTick
  <2>1. pc = "tick" /\ pc' = "notify" /\ cycle' = cycle + 1 /\ call' = call
    BY <1>3 DEF SimTick, Advances
  <2>. QED BY <1>1, <2>1 DEF CallInv, Record, ByMode, Batches, Counted, Allowed
<1>4. CASE Notify
  <2>1. pc = "notify" /\ cycle' = cycle /\ pc' = AfterCycle(call.batch - 1)
        /\ call' = [call EXCEPT !.left = @ - 1, !.batch = @ - 1]
    BY <1>4 DEF Notify, run
  <2>2. call.left \in Nat /\ call.batch \in Nat /\ 0 < call.batch /\ call.batch <= call.left
    BY <2>1 DEF CallInv, Counted, Record
  <2>. DEFINE l == call.left - 1
              b == call.batch - 1
  <2>9. l \in Nat /\ b \in Nat
    BY <2>2
  <2>10. call' = [call EXCEPT !.left = l, !.batch = b]
    BY <2>1
  <2>. HIDE DEF l, b
  <2>11. call' \in [clock : {call'.clock}, left : Nat, batch : Nat]
         /\ call'.left = l /\ call'.batch = b
    BY <2>9, <2>10 DEF CallInv, Record
  <2>3. call' \in [clock : {call'.clock}, left : Nat, batch : Nat]
        /\ call'.left = call.left - 1 /\ call'.batch = call.batch - 1
    BY <2>11 DEF l, b
  <2>4. pc' \in {"frame", "drive"} /\ (pc' = "drive" => call.batch - 1 # 0)
    BY <2>1 DEF AfterCycle
  <2>5. Record'
    BY <1>1, <2>1, <2>3 DEF CallInv, Record
  <2>6. ByMode'
    BY <1>1, <2>1, <2>4 DEF CallInv, ByMode, Batches
  <2>7. Counted'
    BY <2>2, <2>3, <2>4 DEF Counted
  <2>8. Allowed'
    BY <1>1, <2>1, <2>4 DEF CallInv, Allowed
  <2>. QED BY <2>5, <2>6, <2>7, <2>8
<1>. QED BY <1>2, <1>3, <1>4

\* The other steps of a batch.
LEMMA BatchCall ==
  ASSUME CallInv, StartBatch \/ DrivePeripherals \/ Frame \/ StepEnter
  PROVE  Record' /\ ByMode' /\ Counted' /\ Allowed'
<1>1. UNCHANGED <<test, cycle, active>> /\ mode' = mode /\ (Live' <=> Live)
  BY DEF StartBatch, DrivePeripherals, Frame, StepEnter, test, run, Live
<1>2. pc \in Batches
  BY DEF StartBatch, DrivePeripherals, Frame, StepEnter, Batches
<1>3. Live /\ active.on
  BY <1>2 DEF CallInv, ByMode
<1>4. Allowed'
  BY <1>1, <1>3 DEF Allowed
<1>5. CASE StartBatch
  <2>. DEFINE n == NextBatch(call.left, BatchSize)
  <2>1. pc = "batch" /\ screen' = screen /\ call' = [call EXCEPT !.batch = n]
        /\ pc' = AfterCycle(n)
    BY <1>5 DEF StartBatch
  <2>2. n \in 1 .. call.left /\ call.left \in Nat
    BY <2>1, BatchType DEF CallInv, Counted, Record
  <2>. HIDE DEF n
  <2>3. call' \in [clock : {call'.clock}, left : Nat, batch : Nat]
        /\ call'.left = call.left /\ call'.batch = n /\ pc' = "drive"
    BY <2>1, <2>2 DEF CallInv, Record, AfterCycle
  <2>4. Record' /\ Counted'
    BY <1>1, <2>1, <2>2, <2>3 DEF CallInv, Record, Counted
  <2>. QED BY <1>1, <1>3, <1>4, <2>1, <2>3, <2>4 DEF CallInv, ByMode
<1>6. CASE DrivePeripherals
  <2>1. pc = "drive" /\ pc' = "tick" /\ UNCHANGED <<call, screen>>
    BY <1>6 DEF DrivePeripherals
  <2>. QED BY <1>1, <1>3, <1>4, <2>1 DEF CallInv, Record, ByMode, Counted
<1>7. CASE Frame
  <2>1. call' = call /\ screen' = [screen EXCEPT !.open = TRUE, !.cycle = cycle]
        /\ pc' \in {"stepKey", "batch", "exec"} /\ (pc' = "batch" => call.left > 0)
    BY <1>7 DEF Frame, AfterFrame
  <2>2. screen' \in [open : BOOLEAN, cycle : Nat, quit : BOOLEAN]
    BY <2>1 DEF CallInv, Record
  <2>. QED BY <1>1, <1>3, <1>4, <2>1, <2>2 DEF CallInv, Record, ByMode, Counted
<1>8. CASE StepEnter
  <2>1. UNCHANGED <<call, screen>> /\ pc' \in {"batch", "exec"}
        /\ (pc' = "batch" => call.left > 0)
    BY <1>8 DEF StepEnter, AfterFrame
  <2>. QED BY <1>1, <1>3, <1>4, <2>1 DEF CallInv, Record, ByMode, Counted
<1>. QED BY <1>5, <1>6, <1>7, <1>8

\* A new test starts from nothing.
LEMMA BeginCall ==
  ASSUME Begin PROVE Record' /\ ByMode' /\ Counted' /\ Allowed'
<1>1. cycle' = 0 /\ active' = NoSim /\ call' = NoCall /\ screen' = Closed
      /\ pc' \in {"exec", "report"}
  BY DEF Begin
<1>2. Record'
  BY <1>1, EmptySeq DEF Record, NoSim, NoCall, Closed
<1>. QED BY <1>1, <1>2, HarnessAssumption
  DEF ByMode, Batches, Counted, Allowed, NoSim, NoCall, Closed

\* Every step keeps the invariant of a call.
LEMMA CallStep == CallInv /\ [Next]_vars => CallInv'
<1>. SUFFICES ASSUME CallInv, [Next]_vars PROVE Record' /\ ByMode' /\ Counted' /\ Allowed'
  BY FileStep DEF CallInv
<1>1. CASE Ends
  BY <1>1, EndsOutside, OutsideStep DEF CallInv
<1>2. CASE Done \/ UNCHANGED vars
  <2>1. UNCHANGED <<test, cycle, active, call, screen, pc>>
    BY <1>2 DEF Done, vars, run
  <2>2. mode' = mode /\ (Live' <=> Live)
    BY <2>1 DEF test, Live
  <2>. QED BY <2>1, <2>2 DEF CallInv, Record, ByMode, Counted, Allowed
<1>. QED BY <1>1, <1>2, BeginCall, StatementCall, SimBlockCall, TickCall, CycleCall, BatchCall
  DEF Next, Machine, Keyboard, Ends

\* The initial states satisfy the invariant of a call.
LEMMA CallInit == Init => CallInv
<1>. SUFFICES ASSUME Init PROVE CallInv
  OBVIOUS
<1>1. FileOK
  BY SuiteType, EmptySeq DEF Init, FileOK
<1>2. Record
  BY EmptySeq DEF Init, Record, NoSim, NoCall, Closed
<1>. QED BY <1>1, <1>2, HarnessAssumption
  DEF Init, CallInv, ByMode, Batches, Counted, Allowed, NoSim, NoCall, Closed

\* A headless test never simulates more cycles than the limit, over all its
\* statements and branches, for any counts, conversions and limit.
THEOREM WithinLimit == Spec => []Limit
<1>1. CallInv => Limit
  BY DEF CallInv, Allowed, Limit
<1>. QED BY <1>1, CallInit, CallStep, PTL DEF Spec
-----------------------------------------------------------------------------
Device(p) ==
  p \in [port : Input \cup Output, kind : {p.kind}, since : Nat, drives : Nat, ticks : Nat,
         shown : {p.shown}]

HostOK == host \in Seq(Range(host)) /\ \A i \in DOMAIN host : Device(host[i])

\* The peripherals of the block in force are the last of the host, in the order
\* of its ports.
Placed ==
  /\ Len(active.bound) <= Len(host)
  /\ \A b \in DOMAIN active.bound :
       host[Len(host) - Len(active.bound) + b].port = active.bound[b]

\* No port of a test is bound twice.
BoundOnce == \A i, j \in DOMAIN host : host[i].port = host[j].port => i = j

HostInv == CallInv /\ HostOK /\ Placed

\* A function on the first n numbers is a sequence of its values.
LEMMA SequenceOfFunction ==
  ASSUME NEW n \in Nat, NEW f, f = [i \in 1 .. n |-> f[i]]
  PROVE  f \in Seq(Range(f)) /\ Len(f) = n /\ DOMAIN f = 1 .. n
<1>1. DOMAIN f = 1 .. n /\ \A i \in 1 .. n : f[i] \in Range(f)
  BY DEF Range
<1>2. f \in [1 .. n -> Range(f)]
  BY <1>1
<1>. QED BY <1>1, <1>2, LenProperties

\* The places of the host and of the ports in force.
LEMMA HostShape ==
  ASSUME Record, HostOK
  PROVE  /\ Len(host) \in Nat /\ DOMAIN host = 1 .. Len(host)
         /\ Len(active.bound) \in Nat /\ DOMAIN active.bound = 1 .. Len(active.bound)
<1>1. active.bound \in Seq(Input \cup Output)
  BY DEF Record
<1>. QED BY <1>1, LenProperties DEF HostOK

\* A pass over the bound ports calls each peripheral some number of times.
LEMMA CallsType ==
  ASSUME Record, HostOK, NEW i
  PROVE  Calls(i) \in Nat
<1>1. IsFiniteSet(1 .. Len(active.bound))
  BY HostShape, FS_Interval
<1>2. IsFiniteSet({b \in DOMAIN active.bound : FirstOn(active.bound[b]) = i})
  BY <1>1, HostShape, FS_Subset
<1>. QED BY <1>2, FS_CardinalityType DEF Calls

\* It calls each peripheral in force once, when no port is bound twice.
LEMMA CallsOnce ==
  ASSUME HostInv, BoundOnce, NEW i \in InForce
  PROVE  Calls(i) = 1
<1>. DEFINE n == Len(host)
            m == Len(active.bound)
<1>1. n \in Nat /\ DOMAIN host = 1 .. n /\ m \in Nat /\ DOMAIN active.bound = 1 .. m /\ m <= n
  BY HostShape DEF HostInv, CallInv, Placed
<1>2. \A b \in 1 .. m : host[n - m + b].port = active.bound[b]
  BY <1>1 DEF HostInv, Placed
<1>3. i \in 1 .. n /\ i > n - m
  BY <1>1 DEF InForce
<1>. HIDE DEF n, m
<1>4. \A b \in 1 .. m : n - m + b \in 1 .. n
  BY <1>1
<1>5. ASSUME NEW b \in 1 .. m PROVE FirstOn(active.bound[b]) = n - m + b
  <2>. DEFINE k == n - m + b
              First(x) == /\ x \in DOMAIN host
                          /\ host[x].port = active.bound[b]
                          /\ \A j \in DOMAIN host : host[j].port = active.bound[b] => x <= j
  <2>1. k \in DOMAIN host /\ k \in Nat /\ host[k].port = active.bound[b]
    BY <1>1, <1>2, <1>4
  <2>. HIDE DEF k
  <2>2. \A j \in DOMAIN host : host[j].port = active.bound[b] => j = k
    BY <2>1 DEF BoundOnce
  <2>3. First(k) /\ \A x : First(x) => x = k
    BY <2>1, <2>2
  <2>4. FirstOn(active.bound[b]) = CHOOSE x : First(x)
    BY DEF FirstOn
  <2>. HIDE DEF First
  <2>5. (CHOOSE x : First(x)) = k
    BY <2>3
  <2>. QED BY <2>4, <2>5 DEF k
<1>6. i - (n - m) \in 1 .. m
  BY <1>1, <1>3
<1>7. \A b \in 1 .. m : n - m + b = i <=> b = i - (n - m)
  BY <1>1, <1>3
<1>8. {b \in DOMAIN active.bound : FirstOn(active.bound[b]) = i} = {i - (n - m)}
  BY <1>1, <1>5, <1>6, <1>7
<1>. QED BY <1>8, FS_Singleton DEF Calls

\* A step that changes what the host has counted or shown, and nothing else of
\* it, keeps its shape.
LEMMA SameShape ==
  ASSUME HostInv, active' = active,
         host' = [i \in DOMAIN host |-> host'[i]],
         \A i \in DOMAIN host : Device(host'[i]) /\ host'[i].port = host[i].port
  PROVE  HostOK' /\ Placed' /\ InForce' = InForce /\ DOMAIN host' = DOMAIN host
<1>1. Len(host) \in Nat /\ DOMAIN host = 1 .. Len(host)
      /\ Len(active.bound) \in Nat /\ DOMAIN active.bound = 1 .. Len(active.bound)
  BY HostShape DEF HostInv, CallInv
<1>2. host' \in Seq(Range(host')) /\ Len(host') = Len(host) /\ DOMAIN host' = DOMAIN host
  BY <1>1, SequenceOfFunction
<1>3. \A b \in DOMAIN active.bound : Len(host) - Len(active.bound) + b \in DOMAIN host
  BY <1>1 DEF HostInv, Placed
<1>. QED BY <1>1, <1>2, <1>3 DEF HostOK, Placed, InForce, HostInv

\* The three calls on the host: what they do to a peripheral.
LEMMA HostCalls ==
  ASSUME HostInv, DrivePeripherals \/ Notify \/ Frame
  PROVE  /\ HostOK' /\ Placed' /\ InForce' = InForce /\ DOMAIN host' = DOMAIN host
         /\ \A i \in DOMAIN host :
              /\ host'[i].port = host[i].port /\ host'[i].since = host[i].since
              /\ host'[i].drives = IF DrivePeripherals /\ host[i].port \in Input
                                   THEN host[i].drives + Calls(i) ELSE host[i].drives
              /\ host'[i].ticks = IF Notify THEN host[i].ticks + Calls(i) ELSE host[i].ticks
<1>. DEFINE Rest(i) ==
       /\ host'[i].port = host[i].port /\ host'[i].since = host[i].since
       /\ host'[i].drives = IF DrivePeripherals /\ host[i].port \in Input
                            THEN host[i].drives + Calls(i) ELSE host[i].drives
       /\ host'[i].ticks = IF Notify THEN host[i].ticks + Calls(i) ELSE host[i].ticks
<1>1. \A i \in DOMAIN host : Device(host[i]) /\ Calls(i) \in Nat
  BY CallsType DEF HostInv, CallInv, HostOK
<1>2. active' = active
  BY DEF DrivePeripherals, Notify, Frame
<1>3. host' = [i \in DOMAIN host |-> host'[i]] /\ \A i \in DOMAIN host : Device(host'[i]) /\ Rest(i)
  <2>1. CASE DrivePeripherals
    <3>1. ~Notify
      BY <2>1 DEF DrivePeripherals, Notify
    <3>2. host' = [i \in DOMAIN host |->
                     IF host[i].port \in Input THEN [host[i] EXCEPT !.drives = @ + Calls(i)]
                                               ELSE host[i]]
      BY <2>1 DEF DrivePeripherals
    <3>3. ASSUME NEW i \in DOMAIN host PROVE Device(host'[i]) /\ Rest(i)
      <4>. DEFINE d == host[i].drives + Calls(i)
      <4>1. d \in Nat
        BY <1>1 DEF Device
      <4>2. host'[i] = IF host[i].port \in Input THEN [host[i] EXCEPT !.drives = d]
                                                 ELSE host[i]
        BY <3>2
      <4>. HIDE DEF d
      <4>3. CASE host[i].port \in Input
        <5>1. host'[i] = [host[i] EXCEPT !.drives = d]
          BY <4>2, <4>3
        <5>2. Device(host'[i]) /\ host'[i].port = host[i].port
              /\ host'[i].since = host[i].since /\ host'[i].drives = d
              /\ host'[i].ticks = host[i].ticks
          BY <1>1, <4>1, <5>1 DEF Device
        <5>. QED BY <2>1, <3>1, <4>3, <5>2 DEF d
      <4>4. CASE host[i].port \notin Input
        <5>1. host'[i] = host[i]
          BY <4>2, <4>4
        <5>. QED BY <1>1, <3>1, <4>4, <5>1
      <4>. QED BY <4>3, <4>4
    <3>. QED BY <3>2, <3>3
  <2>2. CASE Notify
    <3>1. ~DrivePeripherals
      BY <2>2 DEF DrivePeripherals, Notify
    <3>2. host' = [i \in DOMAIN host |-> [host[i] EXCEPT !.ticks = @ + Calls(i)]]
      BY <2>2 DEF Notify
    <3>3. ASSUME NEW i \in DOMAIN host PROVE Device(host'[i]) /\ Rest(i)
      <4>. DEFINE d == host[i].ticks + Calls(i)
      <4>1. d \in Nat
        BY <1>1 DEF Device
      <4>2. host'[i] = [host[i] EXCEPT !.ticks = d]
        BY <3>2
      <4>. HIDE DEF d
      <4>3. Device(host'[i]) /\ host'[i].port = host[i].port
            /\ host'[i].since = host[i].since /\ host'[i].drives = host[i].drives
            /\ host'[i].ticks = d
        BY <1>1, <4>1, <4>2 DEF Device
      <4>. QED BY <2>2, <3>1, <4>3 DEF d
    <3>. QED BY <3>2, <3>3
  <2>3. CASE Frame
    <3>1. ~DrivePeripherals /\ ~Notify
      BY <2>3 DEF DrivePeripherals, Notify, Frame
    <3>2. host' = [i \in DOMAIN host |->
                     IF host[i].port \in Output /\ Calls(i) > 0
                     THEN [host[i] EXCEPT !.shown = Peek(sim, host[i].port)] ELSE host[i]]
      BY <2>3 DEF Frame
    <3>3. ASSUME NEW i \in DOMAIN host PROVE Device(host'[i]) /\ Rest(i)
      <4>1. host'[i] = host[i] \/ host'[i] = [host[i] EXCEPT !.shown = Peek(sim, host[i].port)]
        BY <3>2
      <4>2. Device(host'[i]) /\ host'[i].port = host[i].port
            /\ host'[i].since = host[i].since /\ host'[i].drives = host[i].drives
            /\ host'[i].ticks = host[i].ticks
        BY <1>1, <4>1 DEF Device
      <4>. QED BY <3>1, <4>2
    <3>. QED BY <3>2, <3>3
  <2>. QED BY <2>1, <2>2, <2>3
<1>. HIDE DEF Rest
<1>4. \A i \in DOMAIN host : host'[i].port = host[i].port
  BY <1>3 DEF Rest
<1>5. HostOK' /\ Placed' /\ InForce' = InForce /\ DOMAIN host' = DOMAIN host
  BY <1>2, <1>3, <1>4, SameShape
<1>. QED BY <1>3, <1>5 DEF Rest

\* A `sim` block puts its peripherals behind those of the host.
LEMMA SimBlockHost ==
  ASSUME HostInv, SimBlock
  PROVE  /\ HostOK' /\ Placed'
         /\ \A i \in DOMAIN host : i \in DOMAIN host' /\ host'[i] = host[i]
         /\ \A i \in InForce' :
              host'[i].since = cycle /\ host'[i].drives = 0 /\ host'[i].ticks = 0
<1>1. stack # <<>> /\ Top.at \in DOMAIN Top.body /\ Stmt.kind = "sim"
  BY DEF SimBlock, Reached
<1>2. Stmt.binds \in Seq(Range(Stmt.binds))
  BY <1>1, PlaceType, BodyAssumption DEF IsBody, Stmt, HostInv, CallInv
<1>. DEFINE k == Len(Stmt.binds)
            new == [i \in DOMAIN Stmt.binds |-> Peripheral(Stmt.binds[i])]
            n == Len(host)
            ports == [i \in DOMAIN Stmt.binds |-> Stmt.binds[i].port]
<1>3. k \in Nat /\ DOMAIN Stmt.binds = 1 .. k
  BY <1>2, LenProperties
<1>4. \A i \in 1 .. k : Stmt.binds[i].port \in Input \cup Output
  BY <1>3 DEF SimBlock, BadBind, Bindable
<1>5. cycle \in Nat
  BY DEF HostInv, CallInv, Record
<1>6. \A i \in 1 .. k : /\ Device(new[i]) /\ new[i].port = Stmt.binds[i].port
                        /\ new[i].since = cycle /\ new[i].drives = 0 /\ new[i].ticks = 0
  BY <1>3, <1>4, <1>5 DEF Device, Peripheral
<1>7. new = [i \in 1 .. k |-> new[i]]
  BY <1>3
<1>8. host' = host \o new /\ active'.bound = ports
  BY DEF SimBlock
<1>9. ports = [i \in 1 .. k |-> ports[i]] /\ \A i \in 1 .. k : ports[i] = Stmt.binds[i].port
  BY <1>3
<1>10. n \in Nat /\ DOMAIN host = 1 .. n /\ host \in Seq(Range(host))
       /\ \A i \in 1 .. n : Device(host[i])
  BY HostShape DEF HostInv, CallInv, HostOK
<1>. HIDE DEF k, new, ports, n
<1>11. new \in Seq(Range(new)) /\ Len(new) = k
  BY <1>3, <1>7, SequenceOfFunction
<1>12. Len(ports) = k /\ DOMAIN ports = 1 .. k
  BY <1>3, <1>9, SequenceOfFunction
<1>13. host \in Seq(Range(host) \cup Range(new)) /\ new \in Seq(Range(host) \cup Range(new))
  BY <1>10, <1>11
<1>14. /\ host' \in Seq(Range(host) \cup Range(new)) /\ Len(host') = n + k
       /\ \A i \in 1 .. n + k : host'[i] = IF i <= n THEN host[i] ELSE new[i - n]
  BY <1>8, <1>11, <1>13, ConcatProperties DEF n
<1>15. DOMAIN host' = 1 .. n + k
  BY <1>14, LenProperties
<1>16. n + k \in Nat
  BY <1>3, <1>10
<1>17. host' = [i \in 1 .. n + k |-> host'[i]]
  BY <1>14, <1>15, LenProperties
<1>18. host' \in Seq(Range(host'))
  BY <1>16, <1>17, SequenceOfFunction
<1>19. \A i \in 1 .. n + k : i > n => i - n \in 1 .. k
  BY <1>3, <1>10
<1>20. HostOK'
  <2>. SUFFICES ASSUME NEW i \in 1 .. n + k PROVE Device(host'[i])
    BY <1>15, <1>18 DEF HostOK
  <2>1. CASE i <= n
    BY <1>10, <1>14, <2>1
  <2>2. CASE i > n
    BY <1>6, <1>10, <1>14, <1>19, <2>2
  <2>. QED BY <1>10, <2>1, <2>2
<1>21. Placed'
  <2>1. \A b \in 1 .. k : n + b \in 1 .. n + k /\ n + b > n /\ (n + b) - n = b
        /\ (n + k) - k + b = n + b
    BY <1>3, <1>10
  <2>4. \A b \in 1 .. k : host'[n + b] = new[b]
    <3>. TAKE b \in 1 .. k
    <3>1. ~(n + b <= n)
      BY <2>1, <1>10
    <3>. QED BY <1>14, <2>1, <3>1
  <2>2. \A b \in 1 .. k : host'[n + b].port = ports[b]
    BY <1>6, <1>9, <2>4
  <2>3. Len(active'.bound) = k /\ Len(host') = n + k /\ k <= n + k
    BY <1>3, <1>8, <1>10, <1>12, <1>14
  <2>. QED BY <1>8, <1>12, <2>1, <2>2, <2>3 DEF Placed
<1>22. \A i \in InForce' : i \in 1 .. n + k /\ i > n
  <2>1. Len(active'.bound) = k /\ Len(host') = n + k /\ (n + k) - k = n
    BY <1>3, <1>8, <1>10, <1>12, <1>14
  <2>. QED BY <1>15, <2>1 DEF InForce
<1>23. \A i \in DOMAIN host : i \in DOMAIN host' /\ host'[i] = host[i]
  <2>1. \A i \in 1 .. n : i \in 1 .. n + k /\ i <= n
    BY <1>3, <1>10
  <2>. QED BY <1>10, <1>14, <1>15, <2>1
<1>. QED BY <1>6, <1>10, <1>14, <1>19, <1>20, <1>21, <1>22, <1>23

\* The other steps of a test leave the host alone.
Quiet ==
  \/ Drive \/ Expect \/ If \/ EndList \/ Tick \/ Cycle \/ StartBatch \/ SimTick \/ StepEnter
  \/ Ends \/ Done \/ UNCHANGED vars

\* A quiet step changes neither the peripherals nor the dashboard.
LEMMA QuietHost ==
  ASSUME Quiet
  PROVE  UNCHANGED <<host, active>>
BY EndsOutside DEF Quiet, Drive, Expect, If, EndList, Tick, Cycle, StartBatch, SimTick,
  StepEnter, Done, vars

\* The next step is one of these.
LEMMA NextSteps ==
  ASSUME [Next]_vars
  PROVE  Quiet \/ Begin \/ SimBlock \/ DrivePeripherals \/ Notify \/ Frame
BY DEF Next, Machine, Keyboard, Quiet, Ends

\* The steps keep the host in order.
LEMMA HostStep == HostInv /\ [Next]_vars => HostInv'
<1>. SUFFICES ASSUME HostInv, [Next]_vars PROVE HostOK' /\ Placed'
  BY CallStep DEF HostInv
<1>1. CASE Quiet
  BY <1>1, QuietHost DEF HostInv, HostOK, Device, Placed
<1>2. CASE Begin
  <2>1. host' = <<>> /\ active'.bound = <<>>
    BY <1>2 DEF Begin, FreshHost, NoSim
  <2>2. Len(<<>>) = 0 /\ <<>> \in Seq(Range(<<>>)) /\ \A i \in DOMAIN <<>> : FALSE
    BY EmptySeq
  <2>. QED BY <2>1, <2>2 DEF HostOK, Placed
<1>3. CASE SimBlock
  BY <1>3, SimBlockHost
<1>4. CASE DrivePeripherals \/ Notify \/ Frame
  BY <1>4, HostCalls
<1>. QED BY <1>1, <1>2, <1>3, <1>4, NextSteps

\* How often a peripheral in force has been called so far: the cycle that is
\* being simulated has been driven from the tick on, and is heard last.
Heard ==
  pc \in Batches \cup {"exec", "cycle"} => \A i \in InForce :
    /\ host[i].ticks = cycle - host[i].since - (IF pc = "notify" THEN 1 ELSE 0)
    /\ host[i].drives = IF host[i].port \in Input
                        THEN cycle - host[i].since + (IF pc = "tick" THEN 1 ELSE 0) ELSE 0

\* The steps keep the counts.
LEMMA HeardStep == HostInv /\ BoundOnce /\ Heard /\ [Next]_vars => Heard'
<1>. SUFFICES ASSUME HostInv, BoundOnce, Heard, [Next]_vars PROVE Heard'
  OBVIOUS
<1>. DEFINE Going == Batches \cup {"exec", "cycle"}
<1>1. /\ cycle \in Nat /\ InForce \subseteq DOMAIN host
      /\ \A i \in DOMAIN host : /\ host[i].since \in Nat /\ host[i].drives \in Nat
                                /\ host[i].ticks \in Nat
  BY DEF HostInv, CallInv, Record, HostOK, Device, InForce
<1>2. CASE Begin
  <2>1. host' = <<>>
    BY <1>2 DEF Begin, FreshHost
  <2>2. InForce' = {}
    BY <2>1 DEF InForce
  <2>. QED BY <2>2 DEF Heard
<1>3. CASE SimBlock
  <2>1. cycle' = cycle /\ pc' = "exec"
    BY <1>3 DEF SimBlock, Reached, run
  <2>. QED BY <1>1, <1>3, <2>1, SimBlockHost DEF Heard
<1>4. CASE DrivePeripherals
  <2>1. pc = "drive" /\ pc' = "tick" /\ cycle' = cycle
    BY <1>4 DEF DrivePeripherals
  <2>2. ~Notify
    BY <2>1 DEF Notify
  <2>3. \A i \in InForce : Calls(i) = 1
    BY CallsOnce
  <2>4. InForce' = InForce /\ \A i \in InForce :
          /\ host'[i].port = host[i].port /\ host'[i].since = host[i].since
          /\ host'[i].drives = IF host[i].port \in Input THEN host[i].drives + 1
                                                         ELSE host[i].drives
          /\ host'[i].ticks = host[i].ticks
    BY <1>1, <1>4, <2>2, <2>3, HostCalls
  <2>5. \A i \in InForce : /\ host[i].ticks = cycle - host[i].since
                           /\ host[i].drives = IF host[i].port \in Input
                                               THEN cycle - host[i].since ELSE 0
    BY <1>1, <2>1 DEF Heard, Batches
  <2>. QED BY <1>1, <2>1, <2>4, <2>5 DEF Heard
<1>5. CASE Notify
  <2>1. pc = "notify" /\ cycle' = cycle /\ pc' \in {"frame", "drive"}
    BY <1>5 DEF Notify, AfterCycle, run
  <2>2. ~DrivePeripherals
    BY <2>1 DEF DrivePeripherals
  <2>3. \A i \in InForce : Calls(i) = 1
    BY CallsOnce
  <2>4. InForce' = InForce /\ \A i \in InForce :
          /\ host'[i].port = host[i].port /\ host'[i].since = host[i].since
          /\ host'[i].drives = host[i].drives /\ host'[i].ticks = host[i].ticks + 1
    BY <1>1, <1>5, <2>2, <2>3, HostCalls
  <2>5. \A i \in InForce : /\ host[i].ticks = cycle - host[i].since - 1
                           /\ host[i].drives = IF host[i].port \in Input
                                               THEN cycle - host[i].since ELSE 0
    BY <1>1, <2>1 DEF Heard, Batches
  <2>. QED BY <1>1, <2>1, <2>4, <2>5 DEF Heard
<1>6. CASE Frame
  <2>1. pc = "frame" /\ cycle' = cycle /\ pc' \in {"stepKey", "batch", "exec"}
    BY <1>6 DEF Frame, AfterFrame, run
  <2>2. ~DrivePeripherals /\ ~Notify
    BY <2>1 DEF DrivePeripherals, Notify
  <2>4. InForce' = InForce /\ \A i \in InForce :
          /\ host'[i].port = host[i].port /\ host'[i].since = host[i].since
          /\ host'[i].drives = host[i].drives /\ host'[i].ticks = host[i].ticks
    BY <1>1, <1>6, <2>2, HostCalls
  <2>5. \A i \in InForce : /\ host[i].ticks = cycle - host[i].since
                           /\ host[i].drives = IF host[i].port \in Input
                                               THEN cycle - host[i].since ELSE 0
    BY <1>1, <2>1 DEF Heard, Batches
  <2>. QED BY <1>1, <2>1, <2>4, <2>5 DEF Heard
<1>7. CASE Quiet
  <2>1. UNCHANGED <<host, active>> /\ InForce' = InForce
    BY <1>7, QuietHost DEF InForce
  <2>2. CASE Ends
    BY <2>2, EndsOutside DEF Heard, Outside, Batches
  <2>3. CASE SimTick
    <3>1. pc = "tick" /\ pc' = "notify" /\ cycle' = cycle + 1
      BY <2>3 DEF SimTick, Advances
    <3>2. \A i \in InForce : /\ host[i].ticks = cycle - host[i].since
                             /\ host[i].drives = IF host[i].port \in Input
                                                 THEN cycle - host[i].since + 1 ELSE 0
      BY <1>1, <3>1 DEF Heard, Batches
    <3>. QED BY <1>1, <2>1, <3>1, <3>2 DEF Heard
  <2>4. CASE Cycle
    <3>1. active.bound = <<>>
      BY <2>4 DEF Cycle, HostInv, CallInv, ByMode
    <3>2. InForce = {}
      BY <3>1, HostShape, EmptySeq DEF InForce, HostInv, CallInv
    <3>. QED BY <2>1, <3>2 DEF Heard
  <2>5. CASE \/ Drive \/ Expect \/ If \/ EndList \/ Tick \/ StartBatch \/ StepEnter
             \/ Done \/ UNCHANGED vars
    <3>1. cycle' = cycle
      BY <2>5 DEF Drive, Expect, If, EndList, Tick, StartBatch, StepEnter, Done, vars, run
    <3>2. pc' # pc => pc' \in Going \ {"tick", "notify"} /\ pc \in Going \ {"tick", "notify"}
      BY <2>5 DEF Drive, Expect, If, EndList, Tick, StartBatch, StepEnter, Done, vars,
        Reached, AfterCycle, AfterFrame, Batches
    <3>. QED BY <1>1, <2>1, <3>1, <3>2 DEF Heard
  <2>. QED BY <1>7, <2>2, <2>3, <2>4, <2>5 DEF Quiet
<1>. QED BY <1>2, <1>3, <1>4, <1>5, <1>6, <1>7, NextSteps

\* At first there are no peripherals, so all of them have heard every cycle.
LEMMA HostInit == Init => HostInv /\ Heard
<1>. SUFFICES ASSUME Init PROVE HostInv /\ Heard
  OBVIOUS
<1>1. host = <<>> /\ active.bound = <<>>
  BY DEF Init, NoSim
<1>2. Len(<<>>) = 0 /\ <<>> \in Seq(Range(<<>>)) /\ \A i \in DOMAIN <<>> : FALSE
  BY EmptySeq
<1>3. HostOK /\ Placed /\ InForce = {}
  BY <1>1, <1>2 DEF HostOK, Placed, InForce
<1>. QED BY <1>3, CallInit DEF HostInv, Heard

\* Every peripheral in force hears each cycle once, and drives it once if it is
\* an input, in every test that binds no port twice.
THEOREM PeripheralsInStep == Spec /\ []BoundOnce => []InStep
<1>1. HostInv /\ Heard => InStep
  <2>. SUFFICES ASSUME HostInv, Heard, pc = "exec", NEW i \in InForce
                PROVE  /\ host[i].ticks = cycle - host[i].since
                       /\ host[i].drives = IF host[i].port \in Input
                                           THEN cycle - host[i].since ELSE 0
    BY DEF InStep
  <2>1. host[i].since \in Nat /\ cycle \in Nat
    BY DEF HostInv, CallInv, Record, HostOK, Device, InForce
  <2>. QED BY <2>1 DEF Heard
<1>. QED BY <1>1, HostInit, HostStep, HeardStep, PTL DEF Spec
-----------------------------------------------------------------------------
\* How far the dashboard may be behind: not at all where a user can look at it,
\* and what is behind and still to come of a batch is within one frame.
Within(n) ==
  /\ Stepping => n <= 1
  /\ active.speed # None => n <= 1 \/ n <= active.speed \div Fps

Pace ==
  screen.open =>
    /\ pc \in {"exec", "batch", "stepKey"} => Lag = 0
    /\ pc \in {"drive", "tick"} => Within(Lag + call.batch)
    /\ pc = "notify" => Within(Lag + call.batch - 1)
    /\ Within(Lag)

Shown ==
  pc = "stepKey" => \A i \in InForce :
    host[i].port \in Output => host[i].shown = Peek(sim, host[i].port)

\* What is within a frame stays there when it shrinks; none at all is within.
LEMMA WithinLess ==
  ASSUME Record, NEW m \in Int, NEW n \in Int, n <= m, Within(m)
  PROVE  Within(n)
<1>1. active.speed # None => active.speed \div Fps \in Nat
  BY FrameShare
<1>2. Stepping => n <= 1
  BY DEF Within
<1>3. active.speed # None => n <= 1 \/ n <= active.speed \div Fps
  BY <1>1 DEF Within
<1>. QED BY <1>2, <1>3 DEF Within

\* Being no cycle behind is always within the pace.
LEMMA WithinNone == ASSUME Record PROVE Within(0)
BY DEF Within

\* Within speaks of the mode and of the speed in force only.
LEMMA WithinSame ==
  ASSUME UNCHANGED <<test, active>>, NEW n
  PROVE  Within(n)' <=> Within(n)
<1>1. mode' = mode
  BY DEF test
<1>2. Stepping' <=> Stepping
  BY <1>1 DEF Stepping
<1>. QED BY <1>2 DEF Within

\* The steps keep the pace.
LEMMA PaceStep == CallInv /\ Pace /\ [Next]_vars => Pace'
<1>. SUFFICES ASSUME CallInv, Pace, [Next]_vars, screen'.open PROVE Pace'
  BY DEF Pace
<1>1. Record /\ Record' /\ cycle \in Nat /\ screen.cycle \in Nat /\ call.batch \in Nat
      /\ call.left \in Nat
  BY CallStep DEF CallInv, Record
<1>2. Lag \in Int
  BY <1>1 DEF Lag
<1>3. CASE Begin
  BY <1>3 DEF Begin, Closed
<1>4. CASE Frame
  <2>1. pc' \in {"stepKey", "batch", "exec"} /\ screen'.cycle = cycle /\ cycle' = cycle
    BY <1>1, <1>4 DEF Frame, AfterFrame, run, Record
  <2>2. Lag' = 0
    BY <1>1, <2>1 DEF Lag
  <2>3. Within(0)'
    BY <1>1, WithinNone DEF Within, Record
  <2>4. Within(Lag)'
    BY <2>2, <2>3 DEF Within
  <2>. QED BY <2>1, <2>2, <2>4 DEF Pace
<1>5. CASE SimBlock
  <2>1. pc = "exec" /\ pc' = "exec" /\ UNCHANGED <<screen, cycle>>
    BY <1>5 DEF SimBlock, Reached, run
  <2>2. Lag' = 0
    BY <2>1 DEF Pace, Lag
  <2>3. Within(Lag)'
    BY <1>1, <2>2 DEF Within, Record
  <2>. QED BY <2>1, <2>2, <2>3 DEF Pace
<1>6. CASE Ends
  <2>1. pc' \in Outside /\ UNCHANGED <<test, cycle, active, call>> /\ screen'.cycle = screen.cycle
        /\ screen.open
    BY <1>1, <1>6, EndsOutside DEF Record
  <2>2. Lag' = Lag
    BY <2>1 DEF Lag
  <2>3. Within(Lag)'
    BY <2>1, <2>2, WithinSame DEF Pace, Within
  <2>. QED BY <2>1, <2>3 DEF Pace, Outside
<1>7. CASE Drive \/ Expect \/ If \/ EndList \/ Tick \/ StepEnter \/ Done \/ UNCHANGED vars
  <2>1. UNCHANGED <<test, cycle, active, screen>>
    BY <1>7 DEF Drive, Expect, If, EndList, Tick, StepEnter, Done, vars, run
  <2>2. Lag' = Lag /\ screen.open
    BY <2>1 DEF Lag
  <2>3. Within(Lag)'
    BY <2>1, <2>2, WithinSame DEF Pace, Within
  <2>4. CASE Drive \/ Expect \/ If \/ EndList \/ Tick \/ StepEnter
    <3>1. pc \in {"exec", "stepKey"} /\ pc' \in {"exec", "batch", "cycle"}
      BY <2>4 DEF Drive, Expect, If, EndList, Tick, StepEnter, Reached, AfterFrame
    <3>. QED BY <2>2, <2>3, <3>1 DEF Pace
  <2>5. CASE Done \/ UNCHANGED vars
    <3>1. UNCHANGED <<pc, call>>
      BY <2>5 DEF Done, vars
    <3>2. \A n : Within(n)' <=> Within(n)
      BY <2>1, WithinSame
    <3>. QED BY <2>1, <2>2, <2>3, <3>1, <3>2 DEF Pace, Within
  <2>. QED BY <1>7, <2>4, <2>5
<1>8. CASE Cycle
  BY <1>8 DEF Cycle, CallInv, ByMode
<1>9. CASE StartBatch
  <2>. DEFINE n == NextBatch(call.left, BatchSize)
  <2>1. pc = "batch" /\ UNCHANGED <<test, cycle, active, screen>> /\ pc' = AfterCycle(n)
        /\ call' = [call EXCEPT !.batch = n]
    BY <1>9 DEF StartBatch, run
  <2>2. call.left > 0
    BY <2>1 DEF CallInv, Counted
  <2>3. n \in 1 .. call.left /\ n <= BatchSize /\ BatchSize \in Nat /\ Within(BatchSize)
    BY <1>1, <2>2, BatchType DEF Within
  <2>4. Within(n)
    BY <1>1, <2>3, WithinLess
  <2>. HIDE DEF n
  <2>5. pc' = "drive" /\ call'.batch = n
    BY <1>1, <2>1, <2>3 DEF AfterCycle, Record
  <2>6. Lag' = 0 /\ Lag = 0
    BY <2>1 DEF Pace, Lag
  <2>7. Lag' + call'.batch = n
    BY <1>1, <2>3, <2>5, <2>6
  <2>8. Within(Lag + call.batch)'
    BY <2>1, <2>4, <2>7, WithinSame DEF Within
  <2>9. Within(Lag)'
    BY <1>1, <2>6 DEF Within, Record
  <2>. QED BY <2>5, <2>8, <2>9 DEF Pace
<1>10. CASE DrivePeripherals
  <2>1. pc = "drive" /\ pc' = "tick" /\ UNCHANGED <<test, cycle, active, screen, call>>
    BY <1>10 DEF DrivePeripherals
  <2>2. Lag' = Lag
    BY <2>1 DEF Lag
  <2>3. Within(Lag)' /\ Within(Lag + call.batch)'
    BY <2>1, <2>2, WithinSame DEF Pace, Within
  <2>. QED BY <2>1, <2>3 DEF Pace
<1>11. CASE SimTick
  <2>1. pc = "tick" /\ pc' = "notify" /\ cycle' = cycle + 1
        /\ UNCHANGED <<test, active, screen, call>>
    BY <1>11 DEF SimTick, Advances
  <2>2. 0 < call.batch
    BY <2>1 DEF CallInv, Counted
  <2>3. Lag' = Lag + 1
    BY <1>1, <2>1 DEF Lag
  <2>4. Within(Lag + call.batch)
    BY <2>1 DEF Pace
  <2>5. Within(Lag + 1)
    BY <1>1, <1>2, <2>2, <2>4, WithinLess
  <2>6. Lag' + call'.batch - 1 = Lag + call.batch
    BY <1>1, <1>2, <2>1, <2>3
  <2>7. Within(Lag + call.batch - 1)'
    BY <2>1, <2>4, <2>6, WithinSame DEF Within
  <2>8. Within(Lag)'
    BY <2>1, <2>3, <2>5, WithinSame DEF Within
  <2>. QED BY <2>1, <2>7, <2>8 DEF Pace
<1>12. CASE Notify
  <2>1. pc = "notify" /\ pc' \in {"drive", "frame"} /\ UNCHANGED <<test, cycle, active, screen>>
        /\ call' = [call EXCEPT !.left = @ - 1, !.batch = @ - 1]
    BY <1>12 DEF Notify, AfterCycle, run
  <2>2. call'.batch = call.batch - 1
    BY <1>1, <2>1 DEF Record
  <2>3. Lag' = Lag
    BY <2>1 DEF Lag
  <2>4. Lag' + call'.batch = Lag + call.batch - 1
    BY <1>1, <1>2, <2>2, <2>3
  <2>5. Within(Lag + call.batch)'
    BY <2>1, <2>4, WithinSame DEF Pace, Within
  <2>6. Within(Lag)'
    BY <2>1, <2>3, WithinSame DEF Pace, Within
  <2>. QED BY <2>1, <2>5, <2>6 DEF Pace
<1>. QED BY <1>3, <1>4, <1>5, <1>6, <1>7, <1>8, <1>9, <1>10, <1>11, <1>12
  DEF Next, Machine, Keyboard, Ends

\* A step pause shows every output in force as it is.
LEMMA ShownStep == HostInv /\ BoundOnce /\ Shown /\ [Next]_vars => Shown'
<1>. SUFFICES ASSUME HostInv, BoundOnce, Shown, [Next]_vars, pc' = "stepKey" PROVE Shown'
  BY DEF Shown
<1>1. CASE Frame
  <2>1. \A i \in InForce : Calls(i) = 1 /\ i \in DOMAIN host
    BY CallsOnce DEF InForce
  <2>2. \A i \in DOMAIN host : Device(host[i])
    BY DEF HostInv, HostOK
  <2>3. sim' = sim /\ host' = [i \in DOMAIN host |->
                     IF host[i].port \in Output /\ Calls(i) > 0
                     THEN [host[i] EXCEPT !.shown = Peek(sim, host[i].port)] ELSE host[i]]
    BY <1>1 DEF Frame, run
  <2>4. InForce' = InForce /\ \A i \in DOMAIN host : host'[i].port = host[i].port
    BY <1>1, HostCalls
  <2>5. ASSUME NEW i \in InForce, host[i].port \in Output
        PROVE  host'[i].shown = Peek(sim, host[i].port)
    <3>1. host'[i] = [host[i] EXCEPT !.shown = Peek(sim, host[i].port)]
      BY <2>1, <2>3, <2>5
    <3>. QED BY <2>1, <2>2, <3>1 DEF Device
  <2>. QED BY <2>1, <2>3, <2>4, <2>5 DEF Shown
<1>2. CASE Done \/ UNCHANGED vars
  BY <1>2 DEF Done, vars, run, Shown, InForce
<1>3. CASE Ends
  BY <1>3, EndsOutside DEF Outside
<1>4. CASE \/ Begin \/ Drive \/ Expect \/ If \/ EndList \/ SimBlock \/ Tick \/ Cycle
           \/ StartBatch \/ DrivePeripherals \/ SimTick \/ Notify \/ StepEnter
  BY <1>4 DEF Begin, Drive, Expect, If, EndList, SimBlock, Tick, Cycle, StartBatch,
    DrivePeripherals, SimTick, Notify, StepEnter, Advances, AfterCycle, AfterFrame, Reached
<1>. QED BY <1>1, <1>2, <1>3, <1>4 DEF Next, Machine, Keyboard, Ends

\* The dashboard keeps the pace at any speed and frame rate, and a step pause
\* shows the outputs of its cycle, in every test that binds no port twice.
THEOREM DashboardPace == Spec /\ []BoundOnce => []FramePace
<1>1. Init => Pace /\ Shown
  BY DEF Init, Pace, Shown, Closed
<1>2. Pace /\ Shown => FramePace
  BY DEF Pace, Shown, Within, FramePace
<1>3. HostInv => CallInv
  BY DEF HostInv
<1>. QED BY <1>1, <1>2, <1>3, HostInit, HostStep, PaceStep, ShownStep, PTL DEF Spec
-----------------------------------------------------------------------------
\* A set of naturals that is not empty has a least element.
LEMMA LeastNatural ==
  ASSUME NEW S \in SUBSET Nat, S # {}
  PROVE  \E n \in S : \A m \in S : n <= m
<1>. DEFINE R == OpToRel(<, Nat)
<1>1. IsWellFoundedOn(R, Nat) BY NatLessThanWellFounded
<1>2. PICK x \in S : \A y \in S : ~(<<y, x>> \in R)
  <2>. HIDE DEF R
  <2>. QED BY <1>1, WFMin
<1>3. ASSUME NEW y \in S, ~(x <= y) PROVE FALSE
  <2>1. y < x /\ <<y, x>> \in Nat \X Nat BY <1>3
  <2>2. <<y, x>> \in {ss \in Nat \X Nat : ss[1] < ss[2]}
    BY <2>1
  <2>3. <<y, x>> \in R
    BY <2>2 DEF OpToRel
  <2>. QED BY <1>2, <2>3
<1>. QED BY <1>3

\* Induction over the naturals, for membership of a set.
LEMMA NatSetInduction ==
  ASSUME NEW S, 0 \in S, \A n \in Nat : n \in S => n + 1 \in S
  PROVE  Nat \subseteq S
<1>. DEFINE T == Nat \ S
<1>1. CASE T # {}
  <2>1. PICK n \in T : \A m \in T : n <= m
     BY <1>1, LeastNatural
  <2>2. n # 0 /\ n - 1 \in Nat /\ n - 1 \notin T
    BY <2>1
  <2>. QED BY <2>1, <2>2
<1>. QED BY <1>1

\* Iteration: a function from the naturals given by its first value and a step.
IsIteration(f, S, a, step) ==
  f \in [Nat -> S] /\ f[0] = a /\ \A n \in Nat : f[n + 1] = step[n][f[n]]
Iterated(S, a, step) == CHOOSE f : IsIteration(f, S, a, step)

\* There is one.
LEMMA Iteration ==
  ASSUME NEW S, NEW a \in S, NEW step \in [Nat -> [S -> S]]
  PROVE  IsIteration(Iterated(S, a, step), S, a, step)
<1>. DEFINE Upto(n) == {g \in [0 .. n -> S] :
                          g[0] = a /\ \A i \in 0 .. (n - 1) : g[i + 1] = step[i][g[i]]}
            Good == {n \in Nat : Upto(n) # {}}
<1>1. 0 \in Good
  <2>1. [i \in 0 .. 0 |-> a] \in Upto(0)
    OBVIOUS
  <2>. QED BY <2>1
<1>2. ASSUME NEW n \in Nat, n \in Good PROVE n + 1 \in Good
  <2>1. PICK g \in Upto(n) : TRUE
    BY <1>2
  <2>. DEFINE h == [i \in 0 .. (n + 1) |-> IF i = n + 1 THEN step[n][g[n]] ELSE g[i]]
  <2>2. g \in [0 .. n -> S] /\ g[0] = a /\ \A i \in 0 .. (n - 1) : g[i + 1] = step[i][g[i]]
    BY <2>1
  <2>3. step[n][g[n]] \in S
    BY <2>2
  <2>4. h \in [0 .. (n + 1) -> S]
    BY <2>2, <2>3
  <2>5. h[0] = a
    BY <2>2
  <2>6. ASSUME NEW i \in 0 .. n PROVE h[i + 1] = step[i][h[i]]
    <3>3. i + 1 \in 0 .. (n + 1) /\ i \in 0 .. (n + 1) /\ (i + 1 = n + 1 <=> i = n) /\ i # n + 1
      BY <1>2
    <3>4. h[i + 1] = (IF i + 1 = n + 1 THEN step[n][g[n]] ELSE g[i + 1]) /\ h[i] = g[i]
      BY <3>3
    <3>. HIDE DEF h
    <3>1. CASE i = n
      BY <3>1, <3>3, <3>4
    <3>2. CASE i # n
      <4>1. i \in 0 .. (n - 1)
        BY <1>2, <3>2
      <4>2. g[i + 1] = step[i][g[i]]
        BY <2>2, <4>1
      <4>. QED BY <3>2, <3>3, <3>4, <4>2
    <3>. QED BY <3>1, <3>2
  <2>7. h \in Upto(n + 1)
    BY <2>4, <2>5, <2>6
  <2>8. Upto(n + 1) # {} /\ n + 1 \in Nat
    <3>. HIDE DEF h, Upto
    <3>. QED BY <2>7
  <2>. QED BY <2>8
<1>3. \A n \in Nat : Upto(n) # {}
  <2>1. Nat \subseteq Good
    <3>. HIDE DEF Good
    <3>. QED BY <1>1, <1>2, NatSetInduction
  <2>. QED BY <2>1
<1>4. ASSUME NEW m \in Nat, NEW n \in Nat, NEW g \in Upto(m), NEW h \in Upto(n)
      PROVE  \A i \in Nat : i <= m /\ i <= n => g[i] = h[i]
  <2>. DEFINE Same == {i \in Nat : i <= m /\ i <= n => g[i] = h[i]}
  <2>1. 0 \in Same
    OBVIOUS
  <2>2. ASSUME NEW i \in Nat, i \in Same PROVE i + 1 \in Same
    <3>1. SUFFICES ASSUME i + 1 <= m, i + 1 <= n PROVE g[i + 1] = h[i + 1]
      OBVIOUS
    <3>2. g[i] = h[i] /\ i \in 0 .. (m - 1) /\ i \in 0 .. (n - 1)
      BY <2>2, <3>1
    <3>. QED BY <3>2
  <2>3. Nat \subseteq Same
    <3>. HIDE DEF Same
    <3>. QED BY <2>1, <2>2, NatSetInduction
  <2>. QED BY <2>3
<1>. DEFINE G(n) == CHOOSE g \in Upto(n) : TRUE
            f == [n \in Nat |-> G(n)[n]]
<1>5. \A n \in Nat : G(n) \in Upto(n)
  BY <1>3
<1>6. f \in [Nat -> S] /\ f[0] = a
  <2>. HIDE DEF G
  <2>1. \A n \in Nat : G(n) \in [0 .. n -> S] /\ G(n)[0] = a
    BY <1>5
  <2>. QED BY <2>1
<1>7. ASSUME NEW n \in Nat PROVE f[n + 1] = step[n][f[n]]
  <2>. HIDE DEF G
  <2>1. G(n) \in Upto(n) /\ G(n + 1) \in Upto(n + 1)
    BY <1>5
  <2>2. G(n)[n] = G(n + 1)[n]
    <3>. HIDE DEF Upto
    <3>. QED BY <1>4, <2>1
  <2>3. G(n + 1)[n + 1] = step[n][G(n + 1)[n]]
    BY <2>1
  <2>. QED BY <2>2, <2>3
<1>8. IsIteration(f, S, a, step)
  <2>. HIDE DEF f
  <2>. QED BY <1>6, <1>7 DEF IsIteration
<1>. QED
  <2>. HIDE DEF f
  <2>. QED BY <1>8 DEF Iterated
-----------------------------------------------------------------------------
\* The types of what a reading of a test says.
LEMMA OutcomeType ==
  ASSUME NEW r \in Outcome
  PROVE  /\ r.sim \in State /\ r.cycle \in Nat /\ r.checks \in Nat
         /\ r.result \in {"none", "fail", "error"}
         /\ Ended(r, "error") \in Outcome
         /\ \A c \in Clock : Period(r, c) \in Outcome
<1>1. r.sim \in State /\ r.cycle \in Nat /\ r.checks \in Nat
      /\ r.result \in {"none", "fail", "error"}
  BY DEF Outcome
<1>2. Ended(r, "error") \in Outcome
  BY DEF Outcome, Ended
<1>3. ASSUME NEW c \in Clock PROVE Period(r, c) \in Outcome
  <2>1. Ticked(r.sim, c) \in State /\ r.cycle + 1 \in Nat
    BY <1>1, StateAssumption
  <2>. QED BY <2>1 DEF Outcome, Period
<1>. QED BY <1>1, <1>2, <1>3

Turns == [Outcome -> Outcome]

\* One period, and then what g does.
Turn(c, g) == [r \in Outcome |->
  IF ~Settled(Ticked(r.sim, c)) THEN Ended(r, "error") ELSE g[Period(r, c)]]

\* A turn turns outcomes to outcomes.
LEMMA TurnType ==
  ASSUME NEW c \in Clock, NEW g \in Turns
  PROVE  Turn(c, g) \in Turns
<1>1. ASSUME NEW r \in Outcome
      PROVE  (IF ~Settled(Ticked(r.sim, c)) THEN Ended(r, "error") ELSE g[Period(r, c)]) \in Outcome
  <2>1. Ended(r, "error") \in Outcome /\ Period(r, c) \in Outcome
    BY OutcomeType
  <2>. QED BY <2>1 DEF Turns
<1>. QED BY <1>1 DEF Turn, Turns

\* No cycles change nothing, and any others begin with a period.
LEMMA CyclesLaw ==
  ASSUME NEW c \in Clock, NEW r \in Outcome, NEW n \in Nat
  PROVE  /\ Cycles(c)[n][r] \in Outcome
         /\ Cycles(c)[0][r] = r
         /\ Cycles(c)[n + 1][r] = IF ~Settled(Ticked(r.sim, c)) THEN Ended(r, "error")
                                  ELSE Cycles(c)[n][Period(r, c)]
<1>. DEFINE id == [x \in Outcome |-> x]
            step == [k \in Nat |-> [g \in Turns |-> Turn(c, g)]]
            F == Iterated(Turns, id, step)
            Row(u, k) == [x \in Outcome |->
                            IF k = 0 THEN x
                            ELSE IF ~Settled(Ticked(x.sim, c)) THEN Ended(x, "error")
                            ELSE u[k - 1][Period(x, c)]]
            Solves(u) == u = [k \in Nat |-> Row(u, k)]
            U == CHOOSE u : Solves(u)
<1>1. id \in Turns /\ step \in [Nat -> [Turns -> Turns]]
  BY TurnType DEF Turns
<1>2. IsIteration(F, Turns, id, step)
  <2>. HIDE DEF id, step
  <2>. QED BY <1>1, Iteration
<1>3. F \in [Nat -> Turns] /\ F[0] = id /\ \A k \in Nat : F[k + 1] = step[k][F[k]]
  <2>. HIDE DEF F, id, step
  <2>. QED BY <1>2 DEF IsIteration
<1>. HIDE DEF F
<1>4. \A k \in Nat : F[k + 1] = Turn(c, F[k])
  BY <1>3
<1>. HIDE DEF step
<1>5. ASSUME NEW k \in Nat PROVE F[k] = Row(F, k)
  <2>1. CASE k = 0
    BY <1>3, <2>1
  <2>2. CASE k # 0
    <3>1. k - 1 \in Nat /\ (k - 1) + 1 = k
      BY <2>2
    <3>2. F[k] = Turn(c, F[k - 1])
      BY <1>4, <3>1
    <3>. QED BY <2>2, <3>2 DEF Turn
  <2>. QED BY <2>1, <2>2
<1>6. Solves(F)
  <2>1. F = [k \in Nat |-> F[k]]
    BY <1>3
  <2>. HIDE DEF Row
  <2>. QED BY <1>5, <2>1
<1>7. Solves(U)
  <2>. HIDE DEF Solves
  <2>. QED BY <1>6
<1>8. Cycles(c) = U
  BY DEF Cycles
<1>. HIDE DEF U
<1>9. \A k \in Nat : U[k] = Row(U, k)
  <2>. HIDE DEF Row
  <2>. QED BY <1>7
<1>10. U[0] = id
  BY <1>9
<1>11. ASSUME NEW k \in Nat PROVE U[k + 1] = Turn(c, U[k])
  <2>1. k + 1 \in Nat /\ k + 1 # 0 /\ (k + 1) - 1 = k
    OBVIOUS
  <2>2. U[k + 1] = Row(U, k + 1)
    <3>. HIDE DEF Row
    <3>. QED BY <1>9, <2>1
  <2>. QED BY <2>1, <2>2 DEF Turn
<1>. DEFINE Good == {k \in Nat : U[k] \in Turns}
<1>12. 0 \in Good
  BY <1>1, <1>10
<1>13. \A k \in Nat : k \in Good => k + 1 \in Good
  BY <1>11, TurnType
<1>14. Nat \subseteq Good
  <2>. HIDE DEF Good
  <2>. QED BY <1>12, <1>13, NatSetInduction
<1>15. U[n] \in Turns
  BY <1>14
<1>16. U[n][r] \in Outcome
  BY <1>15 DEF Turns
<1>17. U[0][r] = r
  BY <1>10
<1>18. U[n + 1][r] = Turn(c, U[n])[r]
  BY <1>11
<1>19. Turn(c, U[n])[r] = IF ~Settled(Ticked(r.sim, c)) THEN Ended(r, "error") ELSE U[n][Period(r, c)]
  BY DEF Turn
<1>. QED BY <1>8, <1>16, <1>17, <1>18, <1>19
-----------------------------------------------------------------------------
Tables == [Body -> [Nat -> Turns]]

\* How much text a list has from its i-th statement on.
Rank(b, i) == IF i \in DOMAIN b THEN Size[b] - i ELSE 0

\* The places of a list, and what is at them.
LEMMA ListType ==
  ASSUME NEW b \in Body
  PROVE  /\ Len(b) \in Nat /\ DOMAIN b = 1 .. Len(b)
         /\ \A i \in DOMAIN b :
              /\ i \in Nat /\ i + 1 \in Nat
              /\ b[i].kind \in {"drive", "tick", "expect", "if", "sim"}
              /\ b[i].kind = "if" => b[i].then \in Body /\ b[i].els \in Body
<1>1. b \in Seq(Range(b)) /\ IsBody(b)
  BY BodyAssumption
<1>2. Len(b) \in Nat /\ DOMAIN b = 1 .. Len(b)
  BY <1>1, LenProperties
<1>. QED BY <1>1, <1>2 DEF IsBody

\* There is less of it after a statement, and less in a branch.
LEMMA RankLess ==
  ASSUME NEW b \in Body, NEW i \in Nat
  PROVE  /\ Rank(b, i) \in Nat
         /\ i \in DOMAIN b => /\ Rank(b, i + 1) < Rank(b, i)
                              /\ b[i].kind = "if" => /\ Rank(b[i].then, 1) < Rank(b, i)
                                                     /\ Rank(b[i].els, 1) < Rank(b, i)
<1>1. /\ Len(b) \in Nat /\ DOMAIN b = 1 .. Len(b) /\ Size[b] \in Nat /\ Len(b) < Size[b]
      /\ b[i].kind = "if" /\ i \in DOMAIN b =>
           /\ b[i].then \in Body /\ Size[b[i].then] + i <= Size[b]
           /\ b[i].els \in Body /\ Size[b[i].els] + i <= Size[b]
  BY ListType, BodyAssumption
<1>2. Rank(b, i) \in Nat /\ (i \in DOMAIN b => Rank(b, i) = Size[b] - i /\ Rank(b, i) > 0)
  BY <1>1 DEF Rank
<1>3. i \in DOMAIN b => Rank(b, i + 1) < Rank(b, i)
  BY <1>1, <1>2 DEF Rank
<1>4. ASSUME NEW c \in Body, i \in DOMAIN b, Size[c] + i <= Size[b]
      PROVE  Rank(c, 1) < Rank(b, i)
  <2>1. Size[c] \in Nat
    BY BodyAssumption
  <2>2. Rank(c, 1) = Size[c] - 1 \/ Rank(c, 1) = 0
    BY DEF Rank
  <2>. QED BY <1>1, <1>2, <1>4, <2>1, <2>2
<1>. QED BY <1>1, <1>2, <1>3, <1>4

\* A statement turns an outcome to an outcome.
LEMMA EffectType ==
  ASSUME NEW b \in Body, NEW i \in DOMAIN b, NEW r \in Outcome, NEW live, NEW g \in Tables
  PROVE  Effect(b[i], r, live, g) \in Outcome
<1>. DEFINE s == b[i]
<1>1. /\ s.kind \in {"drive", "tick", "expect", "if", "sim"}
      /\ s.kind = "if" => s.then \in Body /\ s.els \in Body
  BY ListType
<1>2. /\ r.sim \in State /\ r.checks \in Nat /\ Ended(r, "error") \in Outcome
  BY OutcomeType
<1>3. CASE s.kind = "drive"
  <2>1. RefDrive(s, r) \in Outcome
    <3>1. CASE Fails(s.val, r.sim) \/ s.port \notin Input
      BY <1>2, <3>1 DEF RefDrive
    <3>2. CASE ~Fails(s.val, r.sim) /\ s.port \in Input
      <4>1. Driven(r.sim, s.port, Eval(s.val, r.sim)) \in State
        BY <1>2, <1>3, <3>2, StateAssumption
      <4>2. [r EXCEPT !.sim = Driven(@, s.port, Eval(s.val, r.sim))] \in Outcome
        BY <4>1 DEF Outcome
      <4>. QED BY <3>2, <4>2 DEF RefDrive
    <3>. QED BY <3>1, <3>2
  <2>. QED BY <1>3, <2>1 DEF Effect
<1>4. CASE s.kind = "tick"
  <2>1. RefTick(s, r, live) \in Outcome
    <3>. DEFINE n == IF s.count = None THEN 1 ELSE Eval(s.count, r.sim)
                bad == \/ s.clock \notin Clock
                       \/ s.count # None /\ (Fails(s.count, r.sim) \/ n \notin Nat)
                       \/ ~live /\ r.cycle + n > MaxSimCycles
    <3>1. RefTick(s, r, live) = IF bad THEN Ended(r, "error") ELSE Cycles(s.clock)[n][r]
      BY DEF RefTick
    <3>2. ~bad => s.clock \in Clock /\ n \in Nat
      OBVIOUS
    <3>. HIDE DEF bad, n
    <3>3. ~bad => Cycles(s.clock)[n][r] \in Outcome
      BY <3>2, CyclesLaw
    <3>. QED BY <1>2, <3>1, <3>3
  <2>. QED BY <1>4, <2>1 DEF Effect
<1>5. CASE s.kind = "expect"
  <2>1. RefExpect(s, r) \in Outcome
    <3>1. ASSUME NEW x \in {"none", "fail"}
          PROVE  Ended([r EXCEPT !.checks = @ + 1], x) \in Outcome
      <4>1. r.checks + 1 \in Nat
        BY <1>2
      <4>2. [r EXCEPT !.checks = @ + 1] \in Outcome
        BY <4>1 DEF Outcome
      <4>. QED BY <4>2 DEF Outcome, Ended
    <3>. QED BY <1>2, <3>1 DEF RefExpect
  <2>. QED BY <1>5, <2>1 DEF Effect
<1>6. CASE s.kind = "if"
  <2>1. ASSUME NEW c \in Body PROVE g[c][1][r] \in Outcome
    BY DEF Tables, Turns
  <2>2. Effect(s, r, live, g) = IF Fails(s.cond, r.sim) THEN Ended(r, "error")
                                ELSE g[IF Holds(s.cond, r.sim) THEN s.then ELSE s.els][1][r]
    BY <1>6 DEF Effect
  <2>3. (IF Holds(s.cond, r.sim) THEN s.then ELSE s.els) \in Body
    BY <1>1, <1>6
  <2>. QED BY <1>2, <2>1, <2>2, <2>3
<1>7. CASE s.kind = "sim"
  BY <1>2, <1>7 DEF Effect, RefSim
<1>. QED BY <1>1, <1>3, <1>4, <1>5, <1>6, <1>7

\* One round of the recursion of Reading.
Round(live, g) == [b \in Body |-> [i \in Nat |-> [r \in Outcome |->
  IF r.result # "none" \/ i \notin DOMAIN b THEN r
  ELSE g[b][i + 1][Effect(b[i], r, live, g)]]]]

\* A round gives a table.
LEMMA RoundType ==
  ASSUME NEW live, NEW g \in Tables
  PROVE  Round(live, g) \in Tables
<1>1. ASSUME NEW b \in Body, NEW i \in Nat, NEW r \in Outcome
      PROVE  (IF r.result # "none" \/ i \notin DOMAIN b THEN r
              ELSE g[b][i + 1][Effect(b[i], r, live, g)]) \in Outcome
  <2>1. CASE r.result # "none" \/ i \notin DOMAIN b
    BY <2>1
  <2>2. CASE ~(r.result # "none" \/ i \notin DOMAIN b)
    <3>1. Effect(b[i], r, live, g) \in Outcome
      BY <2>2, EffectType
    <3>2. g[b][i + 1] \in Turns
      BY DEF Tables
    <3>. QED BY <2>2, <3>1, <3>2 DEF Turns
  <2>. QED BY <2>1, <2>2
<1>. QED BY <1>1 DEF Round, Tables, Turns

\* Two tables agree on what has less text than k.
Alike(g, h, k) ==
  \A c \in Body : \A j \in Nat : Rank(c, j) < k => g[c][j] = h[c][j]

\* A round reads only what has less text.
LEMMA RoundSame ==
  ASSUME NEW live, NEW g, NEW h, NEW b \in Body, NEW i \in Nat, Alike(g, h, Rank(b, i))
  PROVE  Round(live, g)[b][i] = Round(live, h)[b][i]
<1>. DEFINE Row(u) == [r \in Outcome |-> IF r.result # "none" \/ i \notin DOMAIN b THEN r
                                         ELSE u[b][i + 1][Effect(b[i], r, live, u)]]
<1>1. Round(live, g)[b][i] = Row(g) /\ Round(live, h)[b][i] = Row(h)
  BY DEF Round
<1>2. CASE i \notin DOMAIN b
  <2>1. Row(g) = Row(h)
    BY <1>2
  <2>. QED BY <1>1, <2>1
<1>3. CASE i \in DOMAIN b
  <2>1. g[b][i + 1] = h[b][i + 1] /\ i + 1 \in Nat
    BY <1>3, RankLess DEF Alike
  <2>2. b[i].kind = "if" => /\ b[i].then \in Body /\ g[b[i].then][1] = h[b[i].then][1]
                            /\ b[i].els \in Body /\ g[b[i].els][1] = h[b[i].els][1]
    BY <1>3, RankLess, ListType DEF Alike
  <2>3. ASSUME NEW r \in Outcome
        PROVE  Effect(b[i], r, live, g) = Effect(b[i], r, live, h)
    <3>1. CASE b[i].kind = "if"
      <4>1. ASSUME NEW u
            PROVE  Effect(b[i], r, live, u) =
                     IF Fails(b[i].cond, r.sim) THEN Ended(r, "error")
                     ELSE u[IF Holds(b[i].cond, r.sim) THEN b[i].then ELSE b[i].els][1][r]
        BY <3>1 DEF Effect
      <4>2. g[IF Holds(b[i].cond, r.sim) THEN b[i].then ELSE b[i].els][1]
            = h[IF Holds(b[i].cond, r.sim) THEN b[i].then ELSE b[i].els][1]
        BY <2>2, <3>1
      <4>. QED BY <4>1, <4>2
    <3>2. CASE b[i].kind # "if"
      <4>1. b[i].kind \in {"drive", "tick", "expect", "sim"}
        BY <1>3, <3>2, ListType
      <4>. QED BY <4>1 DEF Effect
    <3>. QED BY <3>1, <3>2
  <2>4. \A r \in Outcome : g[b][i + 1][Effect(b[i], r, live, g)]
                           = h[b][i + 1][Effect(b[i], r, live, h)]
    BY <2>1, <2>3
  <2>5. Row(g) = Row(h)
    BY <2>4
  <2>. QED BY <1>1, <2>5
<1>. QED BY <1>2, <1>3

\* Reading is what one round of itself gives.
LEMMA ReadingRound ==
  ASSUME NEW live
  PROVE  Reading(live) \in Tables /\ Reading(live) = Round(live, Reading(live))
<1>. DEFINE id == [b \in Body |-> [i \in Nat |-> [r \in Outcome |-> r]]]
            step == [n \in Nat |-> [g \in Tables |-> Round(live, g)]]
            F == Iterated(Tables, id, step)
<1>1. id \in Tables
  BY DEF Tables, Turns
<1>2. step \in [Nat -> [Tables -> Tables]]
  BY RoundType
<1>3. IsIteration(F, Tables, id, step)
  <2>. HIDE DEF id, step
  <2>. QED BY <1>1, <1>2, Iteration
<1>4. F \in [Nat -> Tables] /\ \A n \in Nat : F[n + 1] = step[n][F[n]]
  <2>. HIDE DEF F, id, step
  <2>. QED BY <1>3 DEF IsIteration
<1>. HIDE DEF F, id
<1>5. \A n \in Nat : F[n] \in Tables /\ F[n + 1] = Round(live, F[n])
  BY <1>4
<1>. HIDE DEF step
<1>0. \A b \in Body : \A i \in Nat : Rank(b, i) \in Nat
  BY RankLess
<1>. DEFINE Stable == {n \in Nat : \A b \in Body : \A i \in Nat :
                         Rank(b, i) < n => F[n][b][i] = F[n + 1][b][i]}
<1>6. 0 \in Stable
  BY <1>0
<1>7. ASSUME NEW n \in Nat, n \in Stable PROVE n + 1 \in Stable
  <2>1. SUFFICES ASSUME NEW b \in Body, NEW i \in Nat, Rank(b, i) < n + 1
                 PROVE  F[n + 1][b][i] = F[(n + 1) + 1][b][i]
    OBVIOUS
  <2>2. Alike(F[n], F[n + 1], Rank(b, i))
    BY <1>0, <1>7, <2>1 DEF Alike
  <2>3. Round(live, F[n])[b][i] = Round(live, F[n + 1])[b][i]
    BY <2>2, RoundSame
  <2>4. F[n + 1] = Round(live, F[n]) /\ F[(n + 1) + 1] = Round(live, F[n + 1])
    BY <1>5
  <2>. QED BY <2>3, <2>4
<1>8. Nat \subseteq Stable
  <2>. HIDE DEF Stable
  <2>. QED BY <1>6, <1>7, NatSetInduction
<1>9. ASSUME NEW b \in Body, NEW i \in Nat, NEW m \in Nat, Rank(b, i) < m
      PROVE  F[m][b][i] = F[Rank(b, i) + 1][b][i]
  <2>. DEFINE k == Rank(b, i)
              Fixed == {j \in Nat : F[k + 1 + j][b][i] = F[k + 1][b][i]}
  <2>0. k \in Nat
    BY <1>0
  <2>. HIDE DEF k
  <2>1. 0 \in Fixed
    BY <2>0
  <2>2. ASSUME NEW j \in Nat, j \in Fixed PROVE j + 1 \in Fixed
    <3>. DEFINE n == k + 1 + j
    <3>1. n \in Nat /\ k < n /\ k + 1 + (j + 1) = n + 1
      BY <2>0
    <3>2. F[n][b][i] = F[n + 1][b][i]
      <4>. HIDE DEF n
      <4>. QED BY <1>8, <3>1 DEF k
    <3>. QED BY <2>2, <3>1, <3>2
  <2>3. Nat \subseteq Fixed
    <3>. HIDE DEF Fixed
    <3>. QED BY <2>1, <2>2, NatSetInduction
  <2>4. m - (k + 1) \in Nat /\ k + 1 + (m - (k + 1)) = m
    BY <1>9, <2>0 DEF k
  <2>5. F[m][b][i] = F[k + 1][b][i]
    BY <2>3, <2>4
  <2>. QED BY <2>5 DEF k
<1>. DEFINE G == [b \in Body |-> [i \in Nat |-> F[Rank(b, i) + 1][b][i]]]
<1>10. G = Round(live, G)
  <2>1. ASSUME NEW b \in Body, NEW i \in Nat PROVE G[b][i] = Round(live, G)[b][i]
    <3>. DEFINE k == Rank(b, i)
    <3>0. k \in Nat
      BY <1>0
    <3>1. Alike(F[k], G, k)
      BY <1>9, <3>0 DEF Alike
    <3>2. Round(live, F[k])[b][i] = Round(live, G)[b][i]
      <4>. HIDE DEF G
      <4>. QED BY <3>1, RoundSame
    <3>3. F[k + 1] = Round(live, F[k])
      <4>. HIDE DEF k
      <4>. QED BY <1>5, <3>0
    <3>. QED BY <3>2, <3>3
  <2>2. ASSUME NEW b \in Body
        PROVE  G[b] = [i \in Nat |-> G[b][i]]
               /\ Round(live, G)[b] = [i \in Nat |-> Round(live, G)[b][i]]
    BY DEF Round
  <2>3. G = [b \in Body |-> G[b]] /\ Round(live, G) = [b \in Body |-> Round(live, G)[b]]
    BY DEF Round
  <2>. HIDE DEF G
  <2>4. \A b \in Body : G[b] = Round(live, G)[b]
    BY <2>1, <2>2
  <2>. QED BY <2>3, <2>4
<1>. HIDE DEF G
<1>. DEFINE Solves(u) == u = Round(live, u)
            U == CHOOSE u : Solves(u)
<1>11. Solves(U)
  <2>1. Solves(G)
    BY <1>10
  <2>. HIDE DEF Solves
  <2>. QED BY <2>1
<1>12. Reading(live) = U
  BY DEF Reading, Round
<1>. HIDE DEF U
<1>13. U = Round(live, U)
  BY <1>11
<1>14. U \in Tables
  <2>. DEFINE Agree == {n \in Nat : \A b \in Body : \A i \in Nat :
                          Rank(b, i) < n => U[b][i] = F[n][b][i]}
  <2>1. 0 \in Agree
    BY <1>0
  <2>2. ASSUME NEW n \in Nat, n \in Agree PROVE n + 1 \in Agree
    <3>1. SUFFICES ASSUME NEW b \in Body, NEW i \in Nat, Rank(b, i) < n + 1
                   PROVE  U[b][i] = F[n + 1][b][i]
      OBVIOUS
    <3>2. Alike(U, F[n], Rank(b, i))
      BY <1>0, <2>2, <3>1 DEF Alike
    <3>3. Round(live, U)[b][i] = Round(live, F[n])[b][i]
      BY <3>2, RoundSame
    <3>4. F[n + 1] = Round(live, F[n]) /\ U[b] = Round(live, U)[b]
      BY <1>5, <1>13
    <3>. QED BY <3>3, <3>4
  <2>3. Nat \subseteq Agree
    <3>. HIDE DEF Agree
    <3>. QED BY <2>1, <2>2, NatSetInduction
  <2>4. ASSUME NEW b \in Body, NEW i \in Nat PROVE U[b][i] \in Turns
    <3>. DEFINE m == Rank(b, i) + 1
    <3>1. m \in Nat /\ Rank(b, i) < m
      BY <1>0
    <3>. HIDE DEF m
    <3>2. U[b][i] = F[m][b][i] /\ F[m] \in Tables
      BY <1>5, <2>3, <3>1
    <3>. QED BY <3>2 DEF Tables
  <2>5. ASSUME NEW b \in Body PROVE U[b] = [i \in Nat |-> U[b][i]]
    <3>1. Round(live, U)[b] = [i \in Nat |-> Round(live, U)[b][i]]
      BY DEF Round
    <3>. QED BY <1>13, <3>1
  <2>6. U = [b \in Body |-> U[b]]
    <3>1. Round(live, U) = [b \in Body |-> Round(live, U)[b]]
      BY DEF Round
    <3>. QED BY <1>13, <3>1
  <2>7. \A b \in Body : U[b] \in [Nat -> Turns]
    BY <2>4, <2>5
  <2>8. [b \in Body |-> U[b]] \in Tables
    BY <2>7 DEF Tables
  <2>. QED BY <2>6, <2>8
<1>. QED BY <1>12, <1>13, <1>14

\* A list is read one statement after the other, up to its end or a verdict.
LEMMA ReadingLaw ==
  ASSUME NEW live, NEW b \in Body, NEW i \in Nat, NEW r \in Outcome
  PROVE  /\ Reading(live)[b][i][r] \in Outcome
         /\ r.result # "none" \/ i \notin DOMAIN b => Reading(live)[b][i][r] = r
         /\ r.result = "none" /\ i \in DOMAIN b =>
              /\ Effect(b[i], r, live, Reading(live)) \in Outcome
              /\ Reading(live)[b][i][r]
                   = Reading(live)[b][i + 1][Effect(b[i], r, live, Reading(live))]
<1>1. Reading(live) \in Tables /\ Reading(live) = Round(live, Reading(live))
  BY ReadingRound
<1>. DEFINE R == Reading(live)
<1>. HIDE DEF R
<1>2. R[b][i][r] \in Outcome
  BY <1>1 DEF R, Tables, Turns
<1>3. Round(live, R)[b][i][r] = IF r.result # "none" \/ i \notin DOMAIN b THEN r
                                ELSE R[b][i + 1][Effect(b[i], r, live, R)]
  BY DEF Round
<1>4. R[b][i][r] = Round(live, R)[b][i][r]
  BY <1>1 DEF R
<1>5. i \in DOMAIN b => Effect(b[i], r, live, R) \in Outcome
  BY <1>1, EffectType DEF R
<1>. QED BY <1>2, <1>3, <1>4, <1>5 DEF R
-----------------------------------------------------------------------------
\* o[i] is the outcome with which the i-th list of stk is resumed, from its
\* innermost one on, and w is the last of them.
Resumed(o, live, stk, w) ==
  /\ o \in [1 .. Len(stk) + 1 -> Outcome] /\ o[Len(stk) + 1] = w
  /\ \A i \in 1 .. Len(stk) : o[i + 1] = Reading(live)[stk[i].body][stk[i].at][o[i]]

\* What is left of the lists of stk turns x to w.
Leads(live, stk, x, w) == \E o : Resumed(o, live, stk, w) /\ o[1] = x

\* Nothing is left of no list.
LEMMA LeadsEmpty ==
  ASSUME NEW live, NEW x \in Outcome, NEW w
  PROVE  Leads(live, <<>>, x, w) <=> x = w
<1>1. Len(<<>>) = 0
  OBVIOUS
<1>2. ASSUME Leads(live, <<>>, x, w) PROVE x = w
  BY <1>1, <1>2 DEF Leads, Resumed
<1>3. ASSUME x = w PROVE Leads(live, <<>>, x, w)
  <2>. DEFINE o == [i \in 1 .. 1 |-> x]
  <2>1. o \in [1 .. 0 + 1 -> Outcome] /\ o[0 + 1] = w /\ o[1] = x /\ \A i \in 1 .. 0 : FALSE
    BY <1>3
  <2>. HIDE DEF o
  <2>2. Resumed(o, live, <<>>, w)
    BY <1>1, <2>1 DEF Resumed
  <2>. QED BY <2>1, <2>2 DEF Leads
<1>. QED BY <1>2, <1>3

\* The top list is read from its place on, and the others follow.
LEMMA LeadsPush ==
  ASSUME NEW live, NEW b \in Body, NEW a \in Nat \ {0}, NEW stk \in Seq(Places),
         NEW x \in Outcome, NEW w
  PROVE  Leads(live, <<At(b, a)>> \o stk, x, w)
           <=> Leads(live, stk, Reading(live)[b][a][x], w)
<1>. DEFINE s == <<At(b, a)>> \o stk
            n == Len(stk)
            y == Reading(live)[b][a][x]
<1>1. n \in Nat /\ Len(s) = n + 1 /\ s[1] = At(b, a) /\ \A i \in 1 .. n : s[i + 1] = stk[i]
  <2>1. At(b, a) \in Places
    BY DEF At, Places
  <2>. HIDE DEF n
  <2>2. <<At(b, a)>> \in Seq(Places) /\ Len(<<At(b, a)>>) = 1 /\ <<At(b, a)>>[1] = At(b, a)
    BY <2>1
  <2>3. /\ Len(s) = 1 + Len(stk) /\ Len(stk) \in Nat
        /\ \A i \in 1 .. 1 + Len(stk) : s[i] = IF i <= 1 THEN <<At(b, a)>>[i] ELSE stk[i - 1]
    BY <2>2, ConcatProperties, LenProperties
  <2>4. \A i \in 1 .. Len(stk) : i + 1 \in 1 .. 1 + Len(stk) /\ ~(i + 1 <= 1) /\ (i + 1) - 1 = i
    BY <2>3
  <2>5. 1 \in 1 .. 1 + Len(stk)
    BY <2>3
  <2>. QED BY <2>2, <2>3, <2>4, <2>5 DEF n
<1>2. At(b, a).body = b /\ At(b, a).at = a
  BY DEF At
<1>3. y \in Outcome
  BY ReadingLaw
<1>. HIDE DEF s, n, y
<1>4. ASSUME Leads(live, s, x, w) PROVE Leads(live, stk, y, w)
  <2>1. PICK o : Resumed(o, live, s, w) /\ o[1] = x
    BY <1>4 DEF Leads
  <2>2. /\ o \in [1 .. n + 1 + 1 -> Outcome] /\ o[n + 1 + 1] = w
        /\ \A i \in 1 .. n + 1 : o[i + 1] = Reading(live)[s[i].body][s[i].at][o[i]]
    BY <1>1, <2>1 DEF Resumed
  <2>. DEFINE p == [i \in 1 .. n + 1 |-> o[i + 1]]
  <2>3. p \in [1 .. n + 1 -> Outcome] /\ p[n + 1] = w
    BY <1>1, <2>2
  <2>4. o[1 + 1] = y
    BY <1>1, <1>2, <2>1, <2>2 DEF y
  <2>5. p[1] = y
    BY <1>1, <2>4
  <2>6. ASSUME NEW i \in 1 .. n PROVE p[i + 1] = Reading(live)[stk[i].body][stk[i].at][p[i]]
    <3>1. i \in 1 .. n + 1 /\ i + 1 \in 1 .. n + 1
      BY <1>1
    <3>2. p[i] = o[i + 1] /\ p[i + 1] = o[i + 1 + 1] /\ s[i + 1] = stk[i]
      BY <1>1, <3>1
    <3>. HIDE DEF p
    <3>3. o[i + 1 + 1] = Reading(live)[s[i + 1].body][s[i + 1].at][o[i + 1]]
      BY <2>2, <3>1
    <3>. QED BY <3>2, <3>3
  <2>. HIDE DEF p
  <2>7. Resumed(p, live, stk, w)
    BY <2>3, <2>6 DEF Resumed, n
  <2>. QED BY <2>5, <2>7 DEF Leads
<1>5. ASSUME Leads(live, stk, y, w) PROVE Leads(live, s, x, w)
  <2>1. PICK o : Resumed(o, live, stk, w) /\ o[1] = y
    BY <1>5 DEF Leads
  <2>2. /\ o \in [1 .. n + 1 -> Outcome] /\ o[n + 1] = w
        /\ \A i \in 1 .. n : o[i + 1] = Reading(live)[stk[i].body][stk[i].at][o[i]]
    BY <1>1, <2>1 DEF Resumed, n
  <2>. DEFINE p == [i \in 1 .. n + 1 + 1 |-> IF i = 1 THEN x ELSE o[i - 1]]
  <2>3. p \in [1 .. n + 1 + 1 -> Outcome] /\ p[n + 1 + 1] = w /\ p[1] = x
    BY <1>1, <2>2
  <2>4. ASSUME NEW i \in 1 .. n + 1 PROVE p[i + 1] = Reading(live)[s[i].body][s[i].at][p[i]]
    <3>1. i + 1 \in 1 .. n + 1 + 1 /\ i + 1 # 1 /\ (i + 1) - 1 = i /\ i \in 1 .. n + 1 + 1
      BY <1>1
    <3>2. p[i + 1] = o[i] /\ p[i] = IF i = 1 THEN x ELSE o[i - 1]
      BY <3>1
    <3>. HIDE DEF p
    <3>3. CASE i = 1
      BY <1>1, <1>2, <2>1, <3>2, <3>3 DEF y
    <3>4. CASE i # 1
      <4>1. i - 1 \in 1 .. n /\ (i - 1) + 1 = i
        BY <1>1, <3>4
      <4>2. s[i] = stk[i - 1]
        BY <1>1, <4>1
      <4>3. o[i] = Reading(live)[stk[i - 1].body][stk[i - 1].at][o[i - 1]]
        BY <2>2, <4>1
      <4>. QED BY <3>2, <3>4, <4>2, <4>3
    <3>. QED BY <3>3, <3>4
  <2>. HIDE DEF p
  <2>5. Resumed(p, live, s, w)
    BY <1>1, <2>3, <2>4 DEF Resumed
  <2>. QED BY <2>3, <2>5 DEF Leads
<1>. QED BY <1>4, <1>5 DEF s, y

\* A verdict passes through what is left.
LEMMA LeadsVerdict ==
  ASSUME NEW live, NEW stk \in Seq(Places), NEW x \in Outcome, x.result # "none", NEW w,
         Leads(live, stk, x, w)
  PROVE  w = x
<1>. DEFINE n == Len(stk)
<1>1. n \in Nat /\ \A i \in 1 .. n : stk[i].body \in Body /\ stk[i].at \in Nat
  <2>1. Len(stk) \in Nat /\ \A i \in 1 .. Len(stk) : stk[i] \in Places
    OBVIOUS
  <2>. QED BY <2>1 DEF Places
<1>2. PICK o : Resumed(o, live, stk, w) /\ o[1] = x
  BY DEF Leads
<1>3. /\ o \in [1 .. n + 1 -> Outcome] /\ o[n + 1] = w
      /\ \A i \in 1 .. n : o[i + 1] = Reading(live)[stk[i].body][stk[i].at][o[i]]
  BY <1>2 DEF Resumed
<1>. HIDE DEF n
<1>. DEFINE Kept == {i \in Nat : i <= n => o[i + 1] = x}
<1>4. 0 \in Kept
  BY <1>2
<1>5. ASSUME NEW i \in Nat, i \in Kept PROVE i + 1 \in Kept
  <2>1. SUFFICES ASSUME i + 1 <= n PROVE o[(i + 1) + 1] = x
    OBVIOUS
  <2>2. i + 1 \in 1 .. n /\ o[i + 1] = x
    BY <1>1, <1>5, <2>1
  <2>3. o[(i + 1) + 1] = Reading(live)[stk[i + 1].body][stk[i + 1].at][x]
    BY <1>3, <2>2
  <2>4. stk[i + 1].body \in Body /\ stk[i + 1].at \in Nat
    BY <1>1, <2>2
  <2>. QED BY <2>3, <2>4, ReadingLaw
<1>6. Nat \subseteq Kept
  <2>. HIDE DEF Kept
  <2>. QED BY <1>4, <1>5, NatSetInduction
<1>. QED BY <1>1, <1>3, <1>6
-----------------------------------------------------------------------------
\* No input peripheral is bound.
Plain == \A i \in DOMAIN host : host[i].port \notin Input

\* Every count fits in 64 bits.
CountsFit ==
  \A b \in Body : \A i \in DOMAIN b : \A s \in State :
    b[i].kind = "tick" /\ b[i].count # None /\ ~Fails(b[i].count, s)
      /\ Eval(b[i].count, s) \in Nat => Eval(b[i].count, s) < Words

Sofar == [sim |-> sim, cycle |-> cycle, checks |-> checks, result |-> "none"]

\* The whole body, read from its start.
Whole == Reading(Live)[suite[t].body][1][Start]

\* The cycles of the call that the simulator has not run.
ToRun == IF pc = "notify" THEN call.left - 1 ELSE call.left

\* The outcome when the call is over.
Owed == IF pc = "exec" THEN Sofar ELSE Cycles(call.clock)[ToRun][Sofar]

Calling == Batches \cup {"cycle"}

\* The outcome so far, the cycles left of the call and the statements left of the
\* body give what the whole body gives; a verdict is that of the whole body.
RunInv ==
  Plain =>
    /\ Sofar \in Outcome
    /\ pc \in Calling => call.clock \in Clock
    /\ pc \in Calling \cup {"exec"} => Leads(Live, stack, Owed, Whole)
    /\ pc \in {"finish", "dismissKey", "report"} =>
         /\ result = "pass" => Whole = Sofar
         /\ result = "fail" => Whole = Ended(Sofar, "fail")

\* A step keeps the host plain or begins a test.
LEMMA PlainBefore ==
  ASSUME HostInv, [Next]_vars, ~Begin, Plain'
  PROVE  Plain
<1>1. CASE Quiet
  BY <1>1, QuietHost DEF Plain
<1>2. CASE SimBlock
  <2>1. \A i \in DOMAIN host : i \in DOMAIN host' /\ host'[i] = host[i]
    BY <1>2, SimBlockHost
  <2>. QED BY <2>1 DEF Plain
<1>3. CASE DrivePeripherals \/ Notify \/ Frame
  <2>1. DOMAIN host' = DOMAIN host /\ \A i \in DOMAIN host : host'[i].port = host[i].port
    BY <1>3, HostCalls
  <2>. QED BY <2>1 DEF Plain
<1>. QED BY <1>1, <1>2, <1>3, NextSteps

\* The whole body is the same until the next test.
LEMMA WholeSame ==
  ASSUME UNCHANGED <<test, t>>
  PROVE  Whole' = Whole /\ Live' = Live
BY DEF test, Whole, Live

\* With no input peripheral, driving the peripherals leaves the simulation alone.
LEMMA NothingDriven ==
  ASSUME HostInv, Plain, NEW v
  PROVE  AllDriven(v) = sim
<1>. DEFINE n == Len(active.bound)
            m == Len(host)
<1>1. n \in Nat /\ DOMAIN active.bound = 1 .. n /\ m \in Nat /\ DOMAIN host = 1 .. m
  BY HostShape DEF HostInv, CallInv
<1>2. \A b \in 1 .. n : m - n + b \in 1 .. m /\ host[m - n + b].port = active.bound[b]
  <2>1. n <= m /\ \A b \in DOMAIN active.bound : host[m - n + b].port = active.bound[b]
    BY DEF HostInv, Placed
  <2>. HIDE DEF n, m
  <2>2. \A b \in 1 .. n : m - n + b \in 1 .. m
    BY <1>1, <2>1
  <2>. QED BY <1>1, <2>1, <2>2
<1>. HIDE DEF n, m
<1>3. Drivers = {}
  BY <1>1, <1>2 DEF Drivers, Plain
<1>. DEFINE Row(u, i) == IF i = 0 THEN sim
                         ELSE IF i \in Drivers THEN Driven(u[i - 1], active.bound[i], v[i])
                         ELSE u[i - 1]
            Solves(u) == u = [i \in 0 .. n |-> Row(u, i)]
            U == CHOOSE u : Solves(u)
            S == [i \in 0 .. n |-> sim]
<1>4. \A i \in 0 .. n : S[i] = Row(S, i)
  BY <1>1, <1>3
<1>5. Solves(S)
  <2>1. S = [i \in 0 .. n |-> S[i]]
    OBVIOUS
  <2>. HIDE DEF S, Row
  <2>. QED BY <1>4, <2>1
<1>6. Solves(U)
  <2>. HIDE DEF Solves, S
  <2>. QED BY <1>5
<1>7. AllDriven(v) = U[n]
  BY DEF AllDriven, n
<1>. HIDE DEF U
<1>8. \A i \in 0 .. n : U[i] = Row(U, i)
  <2>. HIDE DEF Row
  <2>. QED BY <1>6
<1>. HIDE DEF Solves
<1>. DEFINE Same == {i \in Nat : i <= n => U[i] = sim}
<1>9. 0 \in Same
  BY <1>1, <1>8
<1>10. ASSUME NEW i \in Nat, i \in Same PROVE i + 1 \in Same
  <2>1. SUFFICES ASSUME i + 1 <= n PROVE U[i + 1] = sim
    OBVIOUS
  <2>2. i + 1 \in 0 .. n /\ i + 1 # 0 /\ (i + 1) - 1 = i /\ U[i] = sim
    BY <1>1, <1>10, <2>1
  <2>. QED BY <1>3, <1>8, <2>2
<1>11. Nat \subseteq Same
  <2>. HIDE DEF Same
  <2>. QED BY <1>9, <1>10, NatSetInduction
<1>. QED BY <1>1, <1>7, <1>11
-----------------------------------------------------------------------------
\* The statement that has been reached, and what is left after it.
LEMMA ReachedStatement ==
  ASSUME HostInv, RunInv, Plain, pc = "exec", stack # <<>>
  PROVE  /\ Top.body \in Body /\ Top.at \in Nat \ {0} /\ Tail(stack) \in Seq(Places)
         /\ Sofar \in Outcome
         /\ Leads(Live, Tail(stack), Reading(Live)[Top.body][Top.at][Sofar], Whole)
         /\ Top.at \in DOMAIN Top.body =>
              LET e == Effect(Stmt, Sofar, Live, Reading(Live)) IN
              /\ e \in Outcome
              /\ Leads(Live, Advanced, e, Whole)
<1>1. /\ Top.body \in Body /\ Top.at \in Nat \ {0} /\ Tail(stack) \in Seq(Places)
      /\ stack \in Seq(Places)
  BY PlaceType DEF HostInv, CallInv, FileOK
<1>2. Sofar \in Outcome /\ Leads(Live, stack, Sofar, Whole)
  BY DEF RunInv, Owed
<1>3. stack = <<At(Top.body, Top.at)>> \o Tail(stack)
  <2>1. Top \in Places /\ stack = <<Top>> \o Tail(stack)
    BY <1>1, HeadTailProperties DEF Top
  <2>2. Top = At(Top.body, Top.at)
    BY <2>1 DEF Places, At
  <2>. QED BY <2>1, <2>2
<1>. DEFINE y == Reading(Live)[Top.body][Top.at][Sofar]
            e == Effect(Stmt, Sofar, Live, Reading(Live))
<1>4. Leads(Live, <<At(Top.body, Top.at)>> \o Tail(stack), Sofar, Whole)
  BY <1>2, <1>3
<1>5. Leads(Live, Tail(stack), y, Whole)
  <2>. HIDE DEF Top
  <2>. QED BY <1>1, <1>2, <1>4, LeadsPush
<1>6. ASSUME Top.at \in DOMAIN Top.body PROVE e \in Outcome /\ Leads(Live, Advanced, e, Whole)
  <2>1. Sofar.result = "none"
    BY DEF Sofar
  <2>2. e \in Outcome /\ y = Reading(Live)[Top.body][Top.at + 1][e]
    BY <1>1, <1>2, <1>6, <2>1, ReadingLaw DEF Stmt
  <2>. HIDE DEF e, y
  <2>3. Leads(Live, Tail(stack), Reading(Live)[Top.body][Top.at + 1][e], Whole)
    BY <1>5, <2>2
  <2>4. Top.at + 1 \in Nat \ {0}
    BY <1>1
  <2>5. Leads(Live, <<At(Top.body, Top.at + 1)>> \o Tail(stack), e, Whole)
    BY <1>1, <2>2, <2>3, <2>4, LeadsPush
  <2>. QED BY <2>2, <2>5 DEF Advanced
<1>. QED BY <1>1, <1>2, <1>5, <1>6

\* What a step has to show that keeps the test running.
LEMMA RunOn ==
  ASSUME UNCHANGED <<test, t>>, Sofar' \in Outcome,
         pc' \in Calling \cup {"exec"}, pc' \in Calling => call'.clock \in Clock,
         Leads(Live, stack', Owed', Whole)
  PROVE  RunInv'
<1>1. Leads(Live', stack', Owed', Whole')
  BY WholeSame
<1>2. pc' \notin {"finish", "dismissKey", "report"}
  BY DEF Calling, Batches
<1>. QED BY <1>1, <1>2 DEF RunInv

\* A step that leaves the test without a verdict has nothing to show.
LEMMA NoVerdict ==
  ASSUME RunInv, Plain' => Plain, Sofar' = Sofar,
         pc' \notin Calling \cup {"exec"},
         pc' \in {"finish", "dismissKey", "report"} => result' \notin {"pass", "fail"}
  PROVE  RunInv'
BY DEF RunInv

\* Statements that run at once.
LEMMA DriveRuns ==
  ASSUME HostInv, RunInv, Plain, Drive
  PROVE  RunInv'
<1>. DEFINE e == Effect(Stmt, Sofar, Live, Reading(Live))
<1>1. /\ pc = "exec" /\ stack # <<>> /\ Top.at \in DOMAIN Top.body /\ Stmt.kind = "drive"
      /\ ~Fails(Stmt.val, sim) /\ Stmt.port \in Input
      /\ sim' = Driven(sim, Stmt.port, Eval(Stmt.val, sim)) /\ stack' = Advanced
      /\ UNCHANGED <<test, t, pc, cycle, checks>>
  BY DEF Drive, Reached
<1>2. e \in Outcome /\ Leads(Live, Advanced, e, Whole)
  BY <1>1, ReachedStatement
<1>3. e = RefDrive(Stmt, Sofar)
  BY <1>1 DEF Effect
<1>4. Sofar.sim = sim
  BY DEF Sofar
<1>5. RefDrive(Stmt, Sofar) = [Sofar EXCEPT !.sim = Driven(sim, Stmt.port, Eval(Stmt.val, sim))]
  BY <1>1, <1>4 DEF RefDrive
<1>6. Sofar' = [Sofar EXCEPT !.sim = sim']
  BY <1>1 DEF Sofar
<1>7. Sofar' = e
  BY <1>1, <1>3, <1>5, <1>6
<1>8. Owed' = Sofar' /\ pc' = "exec" /\ pc' \notin Calling
  BY <1>1 DEF Owed, Calling, Batches
<1>. HIDE DEF e
<1>. QED BY <1>1, <1>2, <1>7, <1>8, RunOn

\* The outcome so far, and with one more check.
LEMMA SofarTold ==
  /\ Sofar.sim = sim /\ Sofar.cycle = cycle /\ Sofar.checks = checks
  /\ \A x : Ended([Sofar EXCEPT !.checks = @ + 1], x)
              = [sim |-> sim, cycle |-> cycle, checks |-> checks + 1, result |-> x]
<1>1. [Sofar EXCEPT !.checks = @ + 1]
        = [sim |-> sim, cycle |-> cycle, checks |-> checks + 1, result |-> "none"]
  BY DEF Sofar
<1>2. ASSUME NEW x, NEW f,
             f = [sim |-> sim, cycle |-> cycle, checks |-> checks + 1, result |-> "none"]
      PROVE  Ended(f, x)
               = [sim |-> sim, cycle |-> cycle, checks |-> checks + 1, result |-> x]
  BY <1>2 DEF Ended
<1>. QED BY <1>1, <1>2 DEF Sofar

\* A condition that holds.
LEMMA ExpectRuns ==
  ASSUME HostInv, RunInv, Plain, Expect
  PROVE  RunInv'
<1>. DEFINE e == Effect(Stmt, Sofar, Live, Reading(Live))
<1>1. /\ pc = "exec" /\ stack # <<>> /\ Top.at \in DOMAIN Top.body /\ Stmt.kind = "expect"
      /\ ~Fails(Stmt.cond, sim) /\ Holds(Stmt.cond, sim)
      /\ checks' = checks + 1 /\ stack' = Advanced
      /\ UNCHANGED <<test, t, pc, sim, cycle>>
  BY DEF Expect, Reached
<1>2. e \in Outcome /\ Leads(Live, Advanced, e, Whole)
  BY <1>1, ReachedStatement
<1>3. e = RefExpect(Stmt, Sofar)
  BY <1>1 DEF Effect
<1>4. Sofar.sim = sim
  BY DEF Sofar
<1>5. RefExpect(Stmt, Sofar) = [sim |-> sim, cycle |-> cycle, checks |-> checks + 1,
                              result |-> "none"]
  BY <1>1, SofarTold DEF RefExpect
<1>6. Sofar' = [sim |-> sim, cycle |-> cycle, checks |-> checks + 1, result |-> "none"]
  BY <1>1 DEF Sofar
<1>7. Sofar' = e
  BY <1>3, <1>5, <1>6
<1>8. Owed' = Sofar' /\ pc' = "exec" /\ pc' \notin Calling
  BY <1>1 DEF Owed, Calling, Batches
<1>. HIDE DEF e
<1>. QED BY <1>1, <1>2, <1>7, <1>8, RunOn

\* A condition that does not: the rest of the body is not read.
LEMMA ExpectFailsRuns ==
  ASSUME HostInv, RunInv, Plain, ExpectFails
  PROVE  RunInv'
<1>. DEFINE e == Effect(Stmt, Sofar, Live, Reading(Live))
<1>1. /\ pc = "exec" /\ stack # <<>> /\ Top.at \in DOMAIN Top.body /\ Stmt.kind = "expect"
      /\ ~Fails(Stmt.cond, sim) /\ ~Holds(Stmt.cond, sim)
      /\ checks' = checks + 1 /\ pc' = "finish" /\ result' = "fail"
      /\ UNCHANGED <<test, t, sim, cycle>>
  BY DEF ExpectFails, Reached
<1>2. e \in Outcome /\ Leads(Live, Advanced, e, Whole) /\ Sofar \in Outcome
      /\ Advanced \in Seq(Places)
  BY <1>1, ReachedStatement, PlaceType DEF HostInv, CallInv
<1>3. e = RefExpect(Stmt, Sofar)
  BY <1>1 DEF Effect
<1>4. Sofar.sim = sim
  BY DEF Sofar
<1>5. RefExpect(Stmt, Sofar) = [sim |-> sim, cycle |-> cycle, checks |-> checks + 1,
                              result |-> "fail"]
  BY <1>1, SofarTold DEF RefExpect
<1>6. [sim |-> sim, cycle |-> cycle, checks |-> checks + 1, result |-> "fail"]
        = Ended(Sofar', "fail")
  BY <1>1 DEF Sofar, Ended
<1>7. e = Ended(Sofar', "fail") /\ e.result = "fail"
  BY <1>3, <1>5, <1>6 DEF Ended, Sofar
<1>8. Whole = e
  <2>. HIDE DEF e
  <2>. QED BY <1>2, <1>7, LeadsVerdict
<1>9. Sofar' \in Outcome
  <2>1. checks + 1 \in Nat
    BY <1>2 DEF Outcome, Sofar
  <2>. QED BY <1>1, <1>2, <2>1 DEF Outcome, Sofar
<1>10. Whole' = Ended(Sofar', "fail")
  BY <1>1, <1>7, <1>8, WholeSame
<1>. QED BY <1>1, <1>9, <1>10 DEF RunInv, Calling, Batches

\* A branch is read before the rest of the list.
LEMMA IfRuns ==
  ASSUME HostInv, RunInv, Plain, If
  PROVE  RunInv'
<1>. DEFINE e == Effect(Stmt, Sofar, Live, Reading(Live))
            c == IF Holds(Stmt.cond, sim) THEN Stmt.then ELSE Stmt.els
<1>1. /\ pc = "exec" /\ stack # <<>> /\ Top.at \in DOMAIN Top.body /\ Stmt.kind = "if"
      /\ ~Fails(Stmt.cond, sim)
      /\ UNCHANGED <<test, t, pc, sim, cycle, checks>>
  BY DEF If, Reached, run
<1>2. /\ e \in Outcome /\ Leads(Live, Advanced, e, Whole) /\ Sofar \in Outcome
      /\ Advanced \in Seq(Places) /\ Top.body \in Body
  BY <1>1, ReachedStatement, PlaceType DEF HostInv, CallInv
<1>3. c \in Body
  BY <1>1, <1>2, ListType DEF Stmt
<1>4. stack' = <<At(c, 1)>> \o Advanced
  BY DEF If
<1>5. e = Reading(Live)[c][1][Sofar]
  BY <1>1, SofarTold DEF Effect
<1>. HIDE DEF e, c
<1>6. Leads(Live, <<At(c, 1)>> \o Advanced, Sofar, Whole)
  <2>1. 1 \in Nat \ {0} /\ Leads(Live, Advanced, Reading(Live)[c][1][Sofar], Whole)
    BY <1>2, <1>5
  <2>. QED BY <1>2, <1>3, <2>1, LeadsPush
<1>7. Sofar' = Sofar /\ Owed' = Sofar' /\ pc' = "exec" /\ pc' \notin Calling
  BY <1>1 DEF Sofar, Owed, Calling, Batches
<1>. QED BY <1>1, <1>2, <1>4, <1>6, <1>7, RunOn

\* The end of a list.
LEMMA EndListRuns ==
  ASSUME HostInv, RunInv, Plain, EndList
  PROVE  RunInv'
<1>1. /\ pc = "exec" /\ stack # <<>> /\ Top.at \notin DOMAIN Top.body /\ stack' = Tail(stack)
      /\ UNCHANGED <<test, t, pc, sim, cycle, checks>>
  BY DEF EndList, run
<1>2. /\ Top.body \in Body /\ Top.at \in Nat /\ Sofar \in Outcome
      /\ Leads(Live, Tail(stack), Reading(Live)[Top.body][Top.at][Sofar], Whole)
  BY <1>1, ReachedStatement
<1>3. Reading(Live)[Top.body][Top.at][Sofar] = Sofar
  BY <1>1, <1>2, ReadingLaw
<1>4. Sofar' = Sofar /\ Owed' = Sofar' /\ pc' = "exec" /\ pc' \notin Calling
  BY <1>1 DEF Sofar, Owed, Calling, Batches
<1>. QED BY <1>1, <1>2, <1>3, <1>4, RunOn

\* A `sim` block that is accepted.
LEMMA SimBlockRuns ==
  ASSUME HostInv, RunInv, Plain, SimBlock
  PROVE  RunInv'
<1>. DEFINE e == Effect(Stmt, Sofar, Live, Reading(Live))
<1>1. /\ pc = "exec" /\ stack # <<>> /\ Top.at \in DOMAIN Top.body /\ Stmt.kind = "sim"
      /\ ~BadSpeed(Stmt.speed) /\ \A i \in DOMAIN Stmt.binds : ~BadBind(Stmt.binds[i])
      /\ stack' = Advanced /\ UNCHANGED <<test, t, pc, sim, cycle, checks>>
  BY DEF SimBlock, Reached, run
<1>2. e \in Outcome /\ Leads(Live, Advanced, e, Whole)
  BY <1>1, ReachedStatement
<1>3. e = RefSim(Stmt, Sofar)
  BY <1>1 DEF Effect
<1>4. RefSim(Stmt, Sofar) = Sofar
  BY <1>1, SofarTold DEF RefSim, BadSpeed
<1>5. Sofar' = Sofar /\ Owed' = Sofar' /\ pc' = "exec" /\ pc' \notin Calling
  BY <1>1 DEF Sofar, Owed, Calling, Batches
<1>. HIDE DEF e
<1>. QED BY <1>1, <1>2, <1>3, <1>4, <1>5, RunOn

\* The entry of a tick statement owes all of its cycles.
LEMMA TickRuns ==
  ASSUME HostInv, RunInv, Plain, CountsFit, Tick
  PROVE  RunInv'
<1>. DEFINE e == Effect(Stmt, Sofar, Live, Reading(Live))
            n == IF Stmt.count = None THEN 1 ELSE Eval(Stmt.count, sim)
<1>1. /\ pc = "exec" /\ stack # <<>> /\ Top.at \in DOMAIN Top.body /\ Stmt.kind = "tick"
      /\ ~BadTick
      /\ call' = [clock |-> Stmt.clock, left |-> Count, batch |-> 0]
      /\ pc' = IF Count = 0 THEN "exec" ELSE IF Batched THEN "batch" ELSE "cycle"
      /\ stack' = Advanced /\ UNCHANGED <<test, t, sim, cycle, checks>>
  BY DEF Tick, Reached, run
<1>2. /\ e \in Outcome /\ Leads(Live, Advanced, e, Whole) /\ Sofar \in Outcome
      /\ Top.body \in Body
  BY <1>1, ReachedStatement
<1>3. Stmt.clock \in Clock /\ (Stmt.count # None => ~Fails(Stmt.count, sim) /\ Eval(Stmt.count, sim) \in Nat)
      /\ ~OverLimit(Count)
  BY <1>1 DEF BadTick
<1>4. sim \in State
  BY <1>2, SofarTold, OutcomeType
<1>5. n \in Nat /\ Count = n
  <2>1. CASE Stmt.count = None
    BY <2>1 DEF Count
  <2>2. CASE Stmt.count # None
    <3>. DEFINE v == Eval(Stmt.count, sim)
    <3>1. v \in Nat /\ v < Words
      BY <1>1, <1>2, <1>3, <1>4, <2>2 DEF CountsFit, Stmt
    <3>2. Count = v % Words /\ n = v
      BY <2>2 DEF Count
    <3>3. Words \in Nat \ {0}
      BY HarnessAssumption
    <3>. HIDE DEF v, n
    <3>4. v % Words = v
      BY <3>1, <3>3
    <3>. QED BY <3>1, <3>2, <3>4
  <2>. QED BY <2>1, <2>2
<1>6. e = RefTick(Stmt, Sofar, Live)
  BY <1>1 DEF Effect
<1>7. RefTick(Stmt, Sofar, Live) =
        IF \/ Stmt.clock \notin Clock
           \/ Stmt.count # None /\ (Fails(Stmt.count, sim) \/ n \notin Nat)
           \/ ~Live /\ cycle + n > MaxSimCycles
        THEN Ended(Sofar, "error") ELSE Cycles(Stmt.clock)[n][Sofar]
  BY SofarTold DEF RefTick
<1>. HIDE DEF n
<1>8. ~(~Live /\ cycle + n > MaxSimCycles)
  BY <1>3, <1>5 DEF OverLimit
<1>9. RefTick(Stmt, Sofar, Live) = Cycles(Stmt.clock)[n][Sofar]
  BY <1>3, <1>5, <1>7, <1>8
<1>10. Sofar' = Sofar
  BY <1>1 DEF Sofar
<1>11. call'.clock = Stmt.clock /\ call'.left = n
  BY <1>1, <1>5
<1>12. pc' \in Calling \cup {"exec"} /\ pc' # "notify" /\ (pc' = "exec" => n = 0)
       /\ "exec" \notin Calling
  BY <1>1, <1>5 DEF Calling, Batches
<1>13. Owed' = Cycles(Stmt.clock)[n][Sofar]
  <2>1. CASE pc' = "exec"
    <3>1. Owed' = Sofar /\ n = 0
      BY <1>10, <1>12, <2>1 DEF Owed
    <3>2. Cycles(Stmt.clock)[0][Sofar] = Sofar
      BY <1>2, <1>3, CyclesLaw
    <3>. QED BY <3>1, <3>2
  <2>2. CASE pc' # "exec"
    <3>1. ToRun' = n
      BY <1>11, <1>12 DEF ToRun
    <3>2. Owed' = Cycles(call'.clock)[ToRun'][Sofar']
      BY <2>2 DEF Owed
    <3>. QED BY <1>10, <1>11, <3>1, <3>2
  <2>. QED BY <2>1, <2>2
<1>. HIDE DEF e
<1>. QED BY <1>1, <1>2, <1>3, <1>6, <1>9, <1>10, <1>11, <1>12, <1>13, RunOn

\* The steps of a call that simulate no cycle owe what was owed.
LEMMA IdleRuns ==
  ASSUME HostInv, RunInv, Plain, StartBatch \/ DrivePeripherals \/ Notify \/ Frame \/ StepEnter
  PROVE  RunInv'
<1>1. /\ pc \in Calling /\ pc # "exec" /\ pc' \in Calling \cup {"exec"}
      /\ UNCHANGED <<test, t, stack, cycle, checks>> /\ call'.clock = call.clock
      /\ "exec" \notin Calling
  BY DEF StartBatch, DrivePeripherals, Notify, Frame, StepEnter, AfterCycle, AfterFrame,
    Calling, Batches, run, HostInv, CallInv, Record
<1>2. sim' = sim
  <2>1. CASE DrivePeripherals
    BY <2>1, NothingDriven DEF DrivePeripherals
  <2>2. CASE StartBatch \/ Notify \/ Frame \/ StepEnter
    BY <2>2 DEF StartBatch, Notify, Frame, StepEnter, run
  <2>. QED BY <2>1, <2>2
<1>3. Sofar' = Sofar
  BY <1>1, <1>2 DEF Sofar
<1>4. Sofar \in Outcome /\ call.clock \in Clock /\ Leads(Live, stack, Owed, Whole)
      /\ Owed = Cycles(call.clock)[ToRun][Sofar]
  BY <1>1 DEF RunInv, Owed
<1>5. call.left \in Nat /\ call \in [clock : {call.clock}, left : Nat, batch : Nat]
  BY DEF HostInv, CallInv, Record
<1>6. (IF pc' = "exec" THEN 0 ELSE ToRun') = ToRun
  <2>1. CASE Notify
    <3>1. pc = "notify" /\ call' = [call EXCEPT !.left = @ - 1, !.batch = @ - 1]
          /\ pc' \in {"frame", "drive"}
      BY <2>1 DEF Notify, AfterCycle
    <3>2. call'.left = call.left - 1
      BY <1>5, <3>1
    <3>. QED BY <3>1, <3>2 DEF ToRun
  <2>2. CASE StartBatch
    <3>1. pc = "batch" /\ call' = [call EXCEPT !.batch = NextBatch(call.left, BatchSize)]
          /\ pc' \in {"frame", "drive"}
      BY <2>2 DEF StartBatch, AfterCycle
    <3>2. call'.left = call.left
      BY <1>5, <3>1
    <3>. QED BY <3>1, <3>2 DEF ToRun
  <2>3. CASE DrivePeripherals
    BY <2>3 DEF DrivePeripherals, ToRun
  <2>4. CASE Frame \/ StepEnter
    <3>1. pc \in {"frame", "stepKey"} /\ call' = call
          /\ pc' \in {"stepKey", AfterFrame}
      BY <2>4 DEF Frame, StepEnter
    <3>2. pc' = "exec" => call.left = 0
      BY <1>5, <3>1 DEF AfterFrame
    <3>3. pc' # "notify"
      BY <3>1 DEF AfterFrame
    <3>. QED BY <3>1, <3>2, <3>3 DEF ToRun
  <2>. QED BY <2>1, <2>2, <2>3, <2>4
<1>7. Owed' = Owed
  <2>1. CASE pc' = "exec"
    <3>1. Owed' = Sofar /\ ToRun = 0
      BY <1>3, <1>6, <2>1 DEF Owed
    <3>2. Cycles(call.clock)[0][Sofar] = Sofar
      BY <1>4, CyclesLaw
    <3>. QED BY <1>4, <3>1, <3>2
  <2>2. CASE pc' # "exec"
    <3>1. ToRun' = ToRun
      BY <1>6, <2>2
    <3>2. Owed' = Cycles(call'.clock)[ToRun'][Sofar']
      BY <2>2 DEF Owed
    <3>. QED BY <1>1, <1>3, <1>4, <3>1, <3>2
  <2>. QED BY <2>1, <2>2
<1>. QED BY <1>1, <1>3, <1>4, <1>7, RunOn

\* A period of the simulator is one of the cycles owed.
LEMMA CycleRuns ==
  ASSUME HostInv, RunInv, Plain, Cycle \/ SimTick
  PROVE  RunInv'
<1>. DEFINE c == call.clock
            k == call.left - 1
<1>1. /\ pc \in {"cycle", "tick"} /\ Settled(Ticked(sim, c))
      /\ sim' = Ticked(sim, c) /\ cycle' = cycle + 1
      /\ UNCHANGED <<test, t, stack, checks>>
  BY DEF Cycle, SimTick, Advances
<1>2. /\ call.left \in Nat /\ call.left > 0
      /\ call \in [clock : {call.clock}, left : Nat, batch : Nat]
  BY <1>1 DEF HostInv, CallInv, Record, Counted
<1>3. /\ pc' \in {"exec", "cycle", "notify"} /\ (pc' = "exec" => call.left = 1)
      /\ call'.clock = c /\ call'.left = IF pc' = "notify" THEN call.left ELSE call.left - 1
  <2>1. CASE Cycle
    <3>1. call' = [call EXCEPT !.left = @ - 1]
          /\ pc' = IF call.left = 1 THEN "exec" ELSE "cycle"
      BY <2>1 DEF Cycle, Advances
    <3>. QED BY <1>2, <3>1
  <2>2. CASE SimTick
    <3>1. call' = call /\ pc' = "notify"
      BY <2>2 DEF SimTick, Advances
    <3>. QED BY <3>1
  <2>. QED BY <2>1, <2>2
<1>4. /\ Sofar \in Outcome /\ c \in Clock /\ Leads(Live, stack, Owed, Whole)
      /\ Owed = Cycles(c)[call.left][Sofar]
  BY <1>1 DEF RunInv, Owed, ToRun, Calling, Batches
<1>5. Sofar' = Period(Sofar, c)
  <2>1. [Sofar EXCEPT !.sim = Ticked(@, c)]
          = [sim |-> Ticked(sim, c), cycle |-> cycle, checks |-> checks, result |-> "none"]
    BY DEF Sofar
  <2>. DEFINE mid == [sim |-> Ticked(sim, c), cycle |-> cycle, checks |-> checks,
                      result |-> "none"]
  <2>2. [mid EXCEPT !.cycle = @ + 1] = Sofar'
    BY <1>1 DEF Sofar
  <2>3. Period(Sofar, c) = [[Sofar EXCEPT !.sim = Ticked(@, c)] EXCEPT !.cycle = @ + 1]
    BY DEF Period
  <2>. HIDE DEF mid
  <2>. QED BY <2>1, <2>2, <2>3 DEF mid
<1>6. k \in Nat /\ k + 1 = call.left
  BY <1>2
<1>. HIDE DEF c
<1>7. Sofar' \in Outcome
  BY <1>4, <1>5, OutcomeType
<1>8. Owed = Cycles(c)[k][Sofar']
  <2>1. Cycles(c)[k + 1][Sofar] = Cycles(c)[k][Period(Sofar, c)]
    <3>. HIDE DEF k
    <3>. QED BY <1>1, <1>4, <1>6, CyclesLaw, SofarTold
  <2>. QED BY <1>4, <1>5, <1>6, <2>1
<1>9. Owed' = Owed
  <2>1. CASE pc' = "exec"
    <3>1. Owed' = Sofar' /\ k = 0
      BY <1>3, <2>1 DEF Owed
    <3>2. Cycles(c)[0][Sofar'] = Sofar'
      BY <1>4, <1>7, CyclesLaw
    <3>. QED BY <1>8, <3>1, <3>2
  <2>2. CASE pc' # "exec"
    <3>1. ToRun' = k
      BY <1>3, <2>2 DEF ToRun
    <3>2. Owed' = Cycles(call'.clock)[ToRun'][Sofar']
      BY <2>2 DEF Owed
    <3>. QED BY <1>3, <1>8, <3>1, <3>2
  <2>. QED BY <2>1, <2>2
<1>10. pc' \in Calling \cup {"exec"}
  BY <1>3 DEF Calling, Batches
<1>. HIDE DEF k
<1>. QED BY <1>1, <1>3, <1>4, <1>7, <1>9, <1>10, RunOn

\* The end of the body: nothing is left.
LEMMA EndBodyRuns ==
  ASSUME HostInv, RunInv, Plain, EndBody
  PROVE  RunInv'
<1>1. /\ pc = "exec" /\ stack = <<>> /\ pc' = "finish" /\ result' = "pass"
      /\ UNCHANGED <<test, t, sim, cycle, checks>>
  BY DEF EndBody, End, run
<1>2. Sofar \in Outcome /\ Leads(Live, <<>>, Sofar, Whole)
  BY <1>1 DEF RunInv, Owed
<1>3. Whole = Sofar
  BY <1>2, LeadsEmpty
<1>4. Sofar' = Sofar /\ Whole' = Whole
  BY <1>1, WholeSame DEF Sofar
<1>. QED BY <1>1, <1>2, <1>3, <1>4 DEF RunInv, Calling, Batches

\* The beginning of a test: all of its body is left.
LEMMA BeginRuns ==
  ASSUME HostInv, Begin
  PROVE  RunInv'
<1>1. /\ sim' = PowerOn /\ cycle' = 0 /\ checks' = 0 /\ UNCHANGED <<test, t>>
      /\ suite \in Suites /\ t \in DOMAIN suite
  BY DEF Begin, HostInv, CallInv, FileOK
<1>2. Sofar' = Start
  BY <1>1 DEF Sofar, Start
<1>3. Start \in Outcome
  BY StateAssumption DEF Start, Outcome
<1>4. CASE suite[t].setup = "ok"
  <2>1. pc' = "exec" /\ stack' = <<At(suite[t].body, 1)>>
    BY <1>4 DEF Begin
  <2>2. suite[t].body \in Body
    BY <1>1, SuiteType
  <2>3. <<>> \in Seq(Places) /\ 1 \in Nat \ {0}
    OBVIOUS
  <2>4. Whole \in Outcome
    BY <1>3, <2>2, ReadingLaw DEF Whole
  <2>5. Leads(Live, <<>>, Whole, Whole)
    BY <2>4, LeadsEmpty
  <2>6. Leads(Live, <<At(suite[t].body, 1)>> \o <<>>, Start, Whole)
    <3>1. Leads(Live, <<>>, Reading(Live)[suite[t].body][1][Start], Whole)
      BY <2>5 DEF Whole
    <3>. HIDE DEF Whole
    <3>. QED BY <1>3, <2>2, <2>3, <3>1, LeadsPush
  <2>7. <<At(suite[t].body, 1)>> \o <<>> = <<At(suite[t].body, 1)>>
    <3>. DEFINE a == At(suite[t].body, 1)
    <3>. HIDE DEF a
    <3>1. <<a>> \in Seq({a})
      OBVIOUS
    <3>2. <<a>> \o <<>> = <<a>>
      BY <3>1, ConcatEmptySeq
    <3>. QED BY <3>2 DEF a
  <2>8. Leads(Live, stack', Start, Whole)
    BY <2>1, <2>6, <2>7
  <2>9. Owed' = Start /\ pc' \in Calling \cup {"exec"} /\ pc' \notin Calling
    BY <1>2, <2>1 DEF Owed, Calling, Batches
  <2>. QED BY <1>1, <1>2, <1>3, <2>8, <2>9, RunOn
<1>5. CASE suite[t].setup # "ok"
  BY <1>2, <1>3, <1>5 DEF Begin, RunInv, Calling, Batches
<1>. QED BY <1>4, <1>5

\* The ends without a verdict, the steps from a verdict to its report, and the
\* step to the next test.
LEMMA EndRuns ==
  ASSUME HostInv, RunInv, Plain' => Plain, Ends, ~ExpectFails, ~EndBody
  PROVE  RunInv'
<1>1. CASE DriveFails \/ CondFails \/ SimBlockFails \/ TickFails \/ AssertFails
           \/ NotifyFails \/ TerminalFails \/ FinishFails
  <2>1. Raise
    BY <1>1 DEF DriveFails, CondFails, SimBlockFails, TickFails, AssertFails, NotifyFails,
      TerminalFails, FinishFails
  <2>2. pc' = "report" /\ result' = "error" /\ Sofar' = Sofar
    BY <2>1 DEF Raise, Sofar, run
  <2>. QED BY <2>2, NoVerdict DEF Calling, Batches
<1>2. CASE TickSkips \/ StepQuit
  <2>1. pc' = "finish" /\ result' = "skipped" /\ Sofar' = Sofar
    BY <1>2 DEF TickSkips, StepQuit, End, Sofar, run
  <2>. QED BY <2>1, NoVerdict DEF Calling, Batches
<1>3. CASE Finish \/ Dismiss
  <2>1. /\ pc \in {"finish", "dismissKey"} /\ pc' \in {"dismissKey", "report"}
        /\ UNCHANGED <<test, t, result, sim, cycle, checks>>
    BY <1>3 DEF Finish, Dismiss, run
  <2>2. Sofar' = Sofar /\ Whole' = Whole
    BY <2>1, WholeSame DEF Sofar
  <2>. QED BY <2>1, <2>2 DEF RunInv, Calling, Batches
<1>4. CASE Report
  <2>1. pc' \in {"done", "setup"} /\ Sofar' = Sofar
    BY <1>4 DEF Report, Sofar, run
  <2>. QED BY <2>1, NoVerdict DEF Calling, Batches
<1>. QED BY <1>1, <1>2, <1>3, <1>4 DEF Ends

\* Every step keeps what is left in line with the text.
LEMMA RunStep == HostInv /\ CountsFit /\ RunInv /\ [Next]_vars => RunInv'
<1>. SUFFICES ASSUME HostInv, CountsFit, RunInv, [Next]_vars PROVE RunInv'
  OBVIOUS
<1>1. CASE Begin
  BY <1>1, BeginRuns
<1>2. CASE ~Begin /\ ~Plain'
  BY <1>2 DEF RunInv
<1>3. CASE ~Begin /\ Plain'
  <2>1. Plain
    BY <1>3, PlainBefore
  <2>2. CASE Done \/ UNCHANGED vars
    <3>1. UNCHANGED <<test, t, pc, stack, sim, cycle, checks, call, result, host>>
      BY <2>2 DEF Done, vars, run
    <3>2. Sofar' = Sofar /\ Whole' = Whole /\ Live' = Live /\ Plain' = Plain /\ Owed' = Owed
      <4>1. Whole' = Whole /\ Live' = Live
        BY <3>1, WholeSame
      <4>. QED BY <3>1, <4>1 DEF Sofar, Plain, Owed, ToRun
    <3>. QED BY <3>1, <3>2 DEF RunInv
  <2>3. CASE Ends
    BY <2>1, <2>3, EndRuns, ExpectFailsRuns, EndBodyRuns
  <2>. QED BY <1>3, <2>1, <2>2, <2>3, DriveRuns, ExpectRuns, IfRuns, EndListRuns, SimBlockRuns,
        TickRuns, CycleRuns, IdleRuns, NextSteps DEF Quiet
<1>. QED BY <1>1, <1>2, <1>3

\* At first no statement has been read.
LEMMA RunInit == Init => RunInv
<1>. SUFFICES ASSUME Init PROVE RunInv
  OBVIOUS
<1>1. Sofar \in Outcome
  BY StateAssumption DEF Init, Sofar, Outcome
<1>. QED BY <1>1 DEF Init, RunInv, Calling, Batches

\* A test that passes or fails does what its text says, read one statement after
\* the other: batches, frames, pauses, peripherals that watch the outputs and the
\* tests before it change nothing.
THEOREM HarnessRunsAsWritten ==
  ASSUME CountsFit PROVE Spec => []RunsAsWritten
<1>1. RunInv => RunsAsWritten
  <2>. SUFFICES ASSUME RunInv, pc = "report", result \in {"pass", "fail"}, Plain
                PROVE  [sim |-> sim, cycle |-> cycle, checks |-> checks, result |-> result] = Ref
    BY DEF RunsAsWritten, Plain
  <2>1. Ref = IF Whole.result = "none" THEN Ended(Whole, "pass") ELSE Whole
    BY DEF Ref, Whole
  <2>2. CASE result = "pass"
    <3>1. Whole = Sofar
      BY <2>2 DEF RunInv
    <3>. QED BY <2>1, <2>2, <3>1 DEF Sofar, Ended
  <2>3. CASE result = "fail"
    <3>1. Whole = Ended(Sofar, "fail")
      BY <2>3 DEF RunInv
    <3>2. Ended(Sofar, "fail") = [sim |-> sim, cycle |-> cycle, checks |-> checks, result |-> "fail"]
      BY DEF Ended, Sofar
    <3>. QED BY <2>1, <2>3, <3>1, <3>2
  <2>. QED BY <2>2, <2>3
<1>. QED BY <1>1, HostInit, HostStep, RunInit, RunStep, PTL DEF Spec
=============================================================================
