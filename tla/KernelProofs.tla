----------------------------- MODULE KernelProofs -----------------------------
(****************************************************************************)
(* Theorems about Kernel for every design: any signals, widths, memories,   *)
(* programs and evaluation function that satisfy the assumptions of Design. *)
(****************************************************************************)
EXTENDS Kernel, TLAPS, SequenceTheorems, FiniteSetTheorems, WellFoundedInduction
-----------------------------------------------------------------------------
\* Reducing an integer to the width of a signal gives a word of that signal.
LEMMA FitType ==
  ASSUME NEW n \in Leaf \cup Reg \cup Mem, NEW v \in Int
  PROVE  Fit(v, n) \in Word(n) /\ Word(n) \subseteq AnyWord
<1>1. Width[n] \in 0 .. MaxWidth /\ 2^Width[n] \in 1 .. 2^MaxWidth
  BY SignalAssumption
<1>2. 2^MaxWidth \in Int
  BY SignalAssumption
<1>. QED BY <1>1, <1>2 DEF Fit, Word, AnyWord

\* Changing one register to a word of its own keeps a register state.
LEMMA RegUpdate ==
  ASSUME NEW f \in RegState, NEW r \in Reg, NEW v \in Int
  PROVE  [f EXCEPT ![r] = Fit(v, r)] \in RegState
BY FitType DEF RegState

\* What the expressions see is a state they can be evaluated in.
LEMMA EnvType ==
  ASSUME SimOK, SeqOK PROVE Env \in EvalState
<1>1. \A m \in Mem, a \in Address : MemRead(m, a) \in Word(m) /\ Word(m) \subseteq AnyWord
  <2>. TAKE m \in Mem, a \in Address
  <2>1. MemInit[m] \in Int
    BY SignalAssumption
  <2>. QED BY <2>1, FitType DEF MemRead, SimOK, CellsOK
<1>2. Env.cells \in CellState
  <2>. DEFINE C == [c \in Mem \X Address |-> MemRead(c[1], c[2])]
  <2>1. \A c \in Mem \X Address : C[c] \in Word(c[1]) /\ C[c] \in AnyWord
    BY <1>1
  <2>2. C \in CellState
    BY <2>1 DEF CellState
  <2>. QED BY <2>2 DEF Env
<1>. QED BY <1>2 DEF Env, EvalState, SimOK, SeqOK

\* Evaluation gives integers, naturals within the bound for a loop's bounds,
\* addresses for an address.
LEMMA ValueType ==
  ASSUME SimOK, SeqOK
  PROVE  /\ \A e \in Expr : Value(e) \in Int
         /\ \A e \in BoundExpr : Value(e) \in 0 .. MaxBound
         /\ \A e \in AddrExpr : Value(e) \in Address
BY EnvType, EvalAssumption DEF Value
-----------------------------------------------------------------------------
Frames == BodyFrame \cup LoopFrame

\* The frame on top of a stack, and what is under it.
LEMMA TopType ==
  ASSUME SeqOK, stack # <<>>
  PROVE  Top \in Frames /\ Tail(stack) \in Seq(Frames)
BY HeadTailProperties DEF SeqOK, Top, Frames

\* Pushing on a sequence of frames.
LEMMA PushType ==
  ASSUME NEW s \in Seq(Frames), NEW f \in Frames
  PROVE  <<f>> \o s \in Seq(Frames)
<1>1. <<f>> \in Seq(Frames)
  OBVIOUS
<1>. QED BY <1>1, ConcatProperties

\* The statement that has been reached, and the frame that follows it.
LEMMA StmtType ==
  ASSUME SeqOK, Reached("defaults") \/ Reached("rest")
  PROVE  /\ Top \in BodyFrame /\ Stmt \in Statement
         /\ Top.body \in Body /\ Top.at \in DOMAIN Top.body
         /\ Tail(stack) \in Seq(Frames) /\ Advanced \in Seq(Frames)
<1>1. Top \in Frames /\ Tail(stack) \in Seq(Frames) /\ Top.pass \in {"defaults", "rest"}
      /\ Top.at \in DOMAIN Top.body
  BY TopType DEF Reached, Running
<1>2. Top \in BodyFrame
  BY <1>1 DEF Frames, LoopFrame
<1>3. Top.body \in Seq(Statement) /\ Top.body \in Body
  BY <1>2, BodyAssumption DEF BodyFrame
<1>4. Stmt \in Statement
  BY <1>1, <1>3 DEF Stmt
<1>5. Frame(Top.pass, Top.body, Top.at + 1) \in Frames
  BY <1>1, <1>2 DEF Frame, BodyFrame, Frames
<1>. QED BY <1>1, <1>2, <1>3, <1>4, <1>5, PushType DEF Advanced

\* The fields of a statement, by its kind.
LEMMA FieldTypes ==
  ASSUME NEW s \in Statement
  PROVE  /\ s.kind \in {"default", "assign"} => s.reg \in Reg /\ s.val \in Expr
         /\ s.kind = "patch" => s.reg \in Reg /\ s.val \in Expr /\ s.hi \in Int /\ s.lo \in Int
         /\ s.kind = "memWrite" => s.mem \in Mem /\ s.addr \in AddrExpr /\ s.val \in Expr
         /\ s.kind = "if" => s.cond \in Expr /\ s.then \in Body /\ s.els \in Body
         /\ s.kind = "loop" => s.var \in Var /\ s.lo \in BoundExpr /\ s.hi \in BoundExpr
                               /\ s.body \in Body
         /\ s.kind \in {"assert", "cover"} => s.cond \in Expr
         /\ s.kind = "cover" => s.id \in Cover
BY DEF Statement
-----------------------------------------------------------------------------
\* The initial values are of their types.
LEMMA InitType == Init => TypeOK
<1>. SUFFICES ASSUME Init PROVE TypeOK
  OBVIOUS
<1>1. \A n \in Leaf \cup Reg : 0 \in Word(n) /\ 0 \in AnyWord
  BY SignalAssumption, FitType DEF Word, AnyWord
<1>2. [n \in Leaf |-> 0] \in LeafState
  BY <1>1 DEF LeafState
<1>3. \A r \in Reg : Fit(ResetValue[r], r) \in Word(r) /\ Fit(ResetValue[r], r) \in AnyWord
  BY FitType, SignalAssumption
<1>4. [r \in Reg |-> Fit(ResetValue[r], r)] \in RegState
  BY <1>3 DEF RegState
<1>5. NoHits \in [Cover -> Nat]
  BY DEF NoHits
<1>6. CellsOK(<<>>)
  BY DEF CellsOK
<1>7. SimOK /\ ScratchOK
  BY <1>2, <1>4, <1>5, <1>6 DEF Init, SimOK, ScratchOK
<1>8. CallOK
  <2>1. 0 \in 0 .. MaxTicks
    BY TicksAssumption
  <2>2. ticks = 0 /\ fallDue = FALSE /\ clock \in Clock /\ edge = "rise"
        /\ pc = "ready" /\ error = "none"
    BY DEF Init
  <2>3. fallDue \in BOOLEAN
    BY <2>2
  <2>. QED BY <2>1, <2>2, <2>3 DEF CallOK, Edge
<1>9. SeqOK
  BY DEF Init, SeqOK, KnownState
<1>. QED BY <1>7, <1>8, <1>9 DEF TypeOK

\* A leaf takes a word of its own.
LEMMA SetType ==
  ASSUME TypeOK, NEW n \in Leaf, NEW v \in 0 .. 2^MaxWidth, Set(n, v)
  PROVE  TypeOK'
<1>1. v \in Int
  BY SignalAssumption
<1>2. leaves' \in LeafState
  BY <1>1, FitType DEF Set, TypeOK, SimOK, LeafState
<1>. QED BY <1>2 DEF Set, TypeOK, SimOK, CallOK, SeqOK, ScratchOK, call, seq, scratch

\* The entry of tick_edge keeps the types, the fields of the call aside.
LEMMA StartType ==
  ASSUME TypeOK, NEW c \in Clock, NEW e \in Edge, StartEdge(c, e)
  PROVE  SimOK' /\ SeqOK' /\ ScratchOK' /\ clock' \in Clock /\ edge' \in Edge
         /\ pc' = "body" /\ error' = error
<1>1. \A r \in Reg : Fit(ResetValue[r], r) \in Word(r) /\ Fit(ResetValue[r], r) \in AnyWord
  BY FitType, SignalAssumption
<1>2. next' \in RegState
  BY <1>1 DEF StartEdge, TypeOK, SimOK, RegState
<1>3. ScratchOK'
  BY <1>2 DEF StartEdge, TypeOK, SimOK, ScratchOK, StartMems, NoHits, CellsOK
<1>4. Len(program) + 1 \in Nat \ {0}
  BY BodyAssumption, LenProperties DEF TypeOK, SimOK
<1>5. SeqOK'
  BY <1>4 DEF StartEdge, SeqOK, KnownState
<1>6. SimOK'
  BY DEF StartEdge, TypeOK, SimOK, sim
<1>. QED BY <1>3, <1>5, <1>6 DEF StartEdge

\* The requests of the caller, and the falling half of a tick.
LEMMA RequestType ==
  ASSUME TypeOK, Request \/ TickFall PROVE TypeOK'
<1>1. ASSUME NEW n \in Leaf, NEW v \in 0 .. 2^MaxWidth, Set(n, v) PROVE TypeOK'
  BY <1>1, SetType
<1>2. ASSUME NEW c \in Clock, Tick(c) PROVE TypeOK'
  BY <1>2, StartType, TicksAssumption DEF Tick, TypeOK, CallOK, Edge
<1>3. ASSUME NEW c \in Clock, NEW e \in Edge, TickEdge(c, e) PROVE TypeOK'
  BY <1>3, StartType, TicksAssumption DEF TickEdge, TypeOK, CallOK
<1>4. ASSUME TickFall PROVE TypeOK'
  BY <1>4, StartType DEF TickFall, TypeOK, CallOK, Edge
<1>. QED BY <1>1, <1>2, <1>3, <1>4 DEF Request

\* A call that returns Err keeps everything else.
LEMMA StopType ==
  ASSUME TypeOK, NEW why \in {"eval", "index", "budget", "assert"}, Stop(why)
  PROVE  TypeOK'
BY DEF Stop, TypeOK, SimOK, CallOK, SeqOK, ScratchOK, sim, call, seq, scratch

\* What a statement needs to run: the frame, the statement and its fields.
LEMMA ExecuteType ==
  ASSUME TypeOK, NEW kinds, Execute(kinds)
  PROVE  /\ Stmt \in Statement /\ Stmt.kind \in kinds /\ pc = "body"
         /\ Advanced \in Seq(Frames)
BY StmtType DEF Execute, TypeOK, Reached, Running

\* The steps that only move through the bodies.
LEMMA WalkType ==
  ASSUME TypeOK, EnterProcess \/ Skip \/ EndPass PROVE TypeOK'
<1>1. ASSUME EnterProcess PROVE stack' \in Seq(Frames) /\ proc' \in Nat \ {0}
  <2>1. program \in Seq(Process) /\ proc \in 1 .. Len(program)
    BY <1>1, BodyAssumption, LenProperties DEF EnterProcess, TypeOK, SimOK, SeqOK
  <2>2. program[proc] \in Process
    BY <2>1, ElementOfSeq
  <2>4. program[proc].body \in Body
    BY <2>2 DEF Process
  <2>3. Frame("defaults", program[proc].body, 1) \in Frames
    BY <2>4 DEF Frame, Frames, BodyFrame
  <2>. QED BY <1>1, <2>1, <2>3 DEF EnterProcess
<1>2. ASSUME Skip PROVE stack' \in Seq(Frames) /\ proc' \in Nat \ {0}
  BY <1>2, StmtType DEF Skip, Advance, TypeOK, SeqOK
<1>3. ASSUME EndPass PROVE stack' \in Seq(Frames) /\ proc' \in Nat \ {0}
  <2>1. Top \in BodyFrame /\ Tail(stack) \in Seq(Frames)
    BY <1>3, TopType DEF EndPass, Running, TypeOK, Frames, LoopFrame
  <2>2. Frame("rest", Top.body, 1) \in Frames
    BY <2>1 DEF Frame, Frames, BodyFrame
  <2>. QED BY <1>3, <2>1, <2>2, PushType DEF EndPass, TypeOK, SeqOK
<1>4. stack' \in Seq(Frames) /\ proc' \in Nat \ {0}
  BY <1>1, <1>2, <1>3
<1>5. UNCHANGED <<program, sim, call, pc, known, scratch, error, ticks>>
  BY DEF EnterProcess, Skip, EndPass
<1>. QED BY <1>4, <1>5
  DEF TypeOK, SimOK, CallOK, SeqOK, ScratchOK, sim, call, scratch, Frames

\* The statements that write the scratch copies.
LEMMA WriteType ==
  ASSUME TypeOK, Assign \/ MemWrite \/ Patch \/ Count PROVE TypeOK'
<1>1. ASSUME Assign PROVE ScratchOK' /\ stack' \in Seq(Frames)
  <2>1. Stmt.reg \in Reg /\ Value(Stmt.val) \in Int /\ Advanced \in Seq(Frames)
    BY <1>1, ExecuteType, FieldTypes, ValueType DEF Assign, TypeOK
  <2>2. next' \in RegState
    BY <1>1, <2>1, RegUpdate DEF Assign, TypeOK, ScratchOK
  <2>. QED BY <1>1, <2>1, <2>2 DEF Assign, Advance, TypeOK, ScratchOK, CellsOK
<1>2. ASSUME MemWrite PROVE ScratchOK' /\ stack' \in Seq(Frames)
  <2>1. Stmt.mem \in Mem /\ Value(Stmt.addr) \in Address /\ Value(Stmt.val) \in Int
        /\ Advanced \in Seq(Frames)
    BY <1>2, ExecuteType, FieldTypes, ValueType DEF MemWrite, TypeOK
  <2>2. Fit(Value(Stmt.val), Stmt.mem) \in Word(Stmt.mem)
    BY <2>1, FitType
  <2>3. CellsOK(Stored(Stmt.mem, Value(Stmt.addr), Value(Stmt.val)))
    BY <2>1, <2>2 DEF Stored, CellsOK, TypeOK, ScratchOK
  <2>. QED BY <1>2, <2>1, <2>3 DEF MemWrite, Advance, TypeOK, ScratchOK, CellsOK
<1>3. ASSUME Patch PROVE ScratchOK' /\ stack' \in Seq(Frames)
  <2>1. Stmt.reg \in Reg /\ Value(Stmt.val) \in Int /\ Advanced \in Seq(Frames)
        /\ Stmt.hi \in Int /\ Stmt.lo \in Int /\ ~OutOfRange(Stmt)
    BY <1>3, ExecuteType, FieldTypes, ValueType DEF Patch, TypeOK, BadIndex
  <2>2. Width[Stmt.reg] \in 1 .. MaxWidth /\ MaxWidth \in Nat
    BY <2>1, SignalAssumption
  <2>3. Stmt.lo \in 0 .. MaxWidth /\ Stmt.hi - Stmt.lo + 1 \in 0 .. MaxWidth
    BY <2>1, <2>2 DEF OutOfRange
  <2>4. 2^Stmt.lo \in Nat \ {0} /\ 2^(Stmt.hi - Stmt.lo + 1) \in Nat \ {0}
    BY <2>3, <2>2, SignalAssumption
  <2>5. PatchBase(Stmt.reg) \in Int
    BY <2>1, FitType DEF PatchBase, TypeOK, ScratchOK, RegState, AnyWord
  <2>6. Field(PatchBase(Stmt.reg), Stmt.hi, Stmt.lo) \in Int
    BY <2>4, <2>5 DEF Field
  <2>7. Value(Stmt.val) % 2^(Stmt.hi - Stmt.lo + 1) \in Int
    BY <2>1, <2>4
  <2>8. Patched(PatchBase(Stmt.reg), Stmt.hi, Stmt.lo, Value(Stmt.val)) \in Int
    BY <2>4, <2>5, <2>6, <2>7 DEF Patched
  <2>9. next' \in RegState
    BY <1>3, <2>1, <2>8, RegUpdate DEF Patch, TypeOK, ScratchOK
  <2>. QED BY <1>3, <2>1, <2>9 DEF Patch, Advance, TypeOK, ScratchOK, CellsOK
<1>4. ASSUME Count PROVE ScratchOK' /\ stack' \in Seq(Frames)
  <2>1. Stmt.id \in Cover /\ Advanced \in Seq(Frames)
    BY <1>4, ExecuteType, FieldTypes DEF Count, TypeOK
  <2>2. newHits' \in [Cover -> Nat]
    BY <1>4, <2>1 DEF Count, TypeOK, ScratchOK
  <2>. QED BY <1>4, <2>1, <2>2 DEF Count, Advance, TypeOK, ScratchOK, CellsOK
<1>5. ScratchOK' /\ stack' \in Seq(Frames)
  BY <1>1, <1>2, <1>3, <1>4
<1>6. UNCHANGED <<program, sim, call, pc, proc, known, error, ticks>>
  BY DEF Assign, MemWrite, Patch, Count
<1>. QED BY <1>5, <1>6 DEF TypeOK, SimOK, CallOK, SeqOK, sim, call, Frames

\* The steps that enter and leave the branches of an if and the copies of a loop.
LEMMA BranchType ==
  ASSUME TypeOK, If \/ EnterLoop \/ Iterate \/ Unbind \/ EndLoop PROVE TypeOK'
<1>1. ASSUME If PROVE stack' \in Seq(Frames) /\ known' \in KnownState
  <2>1. Stmt.then \in Body /\ Stmt.els \in Body /\ Advanced \in Seq(Frames)
    BY <1>1, ExecuteType, FieldTypes DEF If
  <2>2. \A b \in Body : Frame("defaults", b, 1) \in Frames
    BY DEF Frame, Frames, BodyFrame
  <2>. QED BY <1>1, <2>1, <2>2, PushType DEF If, TypeOK, SeqOK
<1>2. ASSUME EnterLoop PROVE stack' \in Seq(Frames) /\ known' \in KnownState
  <2>1. Stmt.body \in Body /\ Stmt.var \in Var /\ Advanced \in Seq(Frames)
        /\ Value(Stmt.lo) \in 0 .. MaxBound /\ Value(Stmt.hi) \in 0 .. MaxBound
    BY <1>2, ExecuteType, FieldTypes, ValueType DEF EnterLoop, TypeOK
  <2>2. Loop("loop", Stmt.body, Value(Stmt.lo), Value(Stmt.hi), Stmt.var, Unbound)
          \in Frames
    BY <2>1 DEF Loop, Frames, LoopFrame
  <2>. QED BY <1>2, <2>1, <2>2, PushType DEF EnterLoop, TypeOK, SeqOK
<1>3. ASSUME Iterate PROVE stack' \in Seq(Frames) /\ known' \in KnownState
  <2>1. Top \in LoopFrame /\ Tail(stack) \in Seq(Frames) /\ Top.at < Top.hi
    BY <1>3, TopType DEF Iterate, Running, TypeOK, Frames, BodyFrame
  <2>2. Top.at \in 0 .. MaxBound /\ Top.hi \in 0 .. MaxBound /\ Top.var \in Var
        /\ Top.body \in Body
    BY <2>1 DEF LoopFrame
  <2>3. known' \in KnownState
    BY <1>3, <2>2 DEF Iterate, TypeOK, SeqOK, KnownState
  <2>4. known[Top.var] \in (0 .. MaxBound) \cup {Unbound}
    BY <2>2 DEF TypeOK, SeqOK, KnownState
  <2>5. Loop("unbind", Top.body, Top.at, Top.hi, Top.var, known[Top.var]) \in Frames
    BY <2>1, <2>2, <2>4 DEF Loop, Frames, LoopFrame
  <2>6. Frame("defaults", Top.body, 1) \in Frames
    BY <2>2 DEF Frame, Frames, BodyFrame
  <2>7. <<Frame("defaults", Top.body, 1),
          Loop("unbind", Top.body, Top.at, Top.hi, Top.var, known[Top.var])>> \in Seq(Frames)
    BY <2>5, <2>6
  <2>. QED BY <1>3, <2>1, <2>3, <2>7, ConcatProperties DEF Iterate
<1>4. ASSUME Unbind PROVE stack' \in Seq(Frames) /\ known' \in KnownState
  <2>1. Top \in LoopFrame /\ Top.pass = "unbind" /\ Tail(stack) \in Seq(Frames)
    BY <1>4, TopType DEF Unbind, Running, TypeOK, Frames, BodyFrame
  <2>2. Top.at \in 0 .. MaxBound /\ Top.hi \in 0 .. MaxBound /\ Top.at < Top.hi
        /\ Top.var \in Var /\ Top.body \in Body
        /\ Top.old \in (0 .. MaxBound) \cup {Unbound}
    BY <2>1 DEF LoopFrame
  <2>3. known' \in KnownState
    BY <1>4, <2>2 DEF Unbind, Restored, TypeOK, SeqOK, KnownState
  <2>4. Top.at + 1 \in 0 .. MaxBound
    BY <2>2, SignalAssumption
  <2>5. Loop("loop", Top.body, Top.at + 1, Top.hi, Top.var, Unbound) \in Frames
    BY <2>2, <2>4 DEF Loop, Frames, LoopFrame
  <2>. QED BY <1>4, <2>1, <2>3, <2>5, PushType DEF Unbind, Successor
<1>5. ASSUME EndLoop PROVE stack' \in Seq(Frames) /\ known' \in KnownState
  BY <1>5, TopType DEF EndLoop, Running, TypeOK, SeqOK
<1>6. stack' \in Seq(Frames) /\ known' \in KnownState
  BY <1>1, <1>2, <1>3, <1>4, <1>5
<1>7. UNCHANGED <<program, sim, call, pc, proc, scratch, error, ticks>>
  BY DEF If, EnterLoop, Iterate, Unbind, EndLoop
<1>. QED BY <1>6, <1>7
  DEF TypeOK, SimOK, CallOK, SeqOK, ScratchOK, CellsOK, sim, call, scratch, Frames

\* The steps that check an assert or end the call.
LEMMA EndType ==
  ASSUME TypeOK,
         AssertHolds \/ Commit \/ AssertsHold \/ Tally \/ EvalError \/ PatchError
           \/ LoopError \/ AssertFails \/ AssertsFail \/ TallyError
  PROVE  TypeOK'
<1>1. ASSUME AssertHolds PROVE TypeOK'
  <2>1. stack' \in Seq(Frames)
    BY <1>1, ExecuteType DEF AssertHolds, Advance
  <2>. QED BY <1>1, <2>1
    DEF AssertHolds, TypeOK, SimOK, CallOK, SeqOK, ScratchOK, CellsOK, sim, call, scratch,
        Frames
<1>2. ASSUME Commit PROVE TypeOK'
  <2>1. hits' \in [Cover -> Nat]
    BY <1>2 DEF Commit, Plus, TypeOK, SimOK, ScratchOK
  <2>. QED BY <1>2, <2>1
    DEF Commit, TypeOK, SimOK, CallOK, SeqOK, ScratchOK, CellsOK, call, seq, scratch
<1>3. ASSUME AssertsHold PROVE TypeOK'
  BY <1>3 DEF AssertsHold, TypeOK, SimOK, CallOK, SeqOK, ScratchOK, CellsOK, sim, call,
              seq, scratch
<1>4. ASSUME Tally PROVE TypeOK'
  <2>1. hits' \in [Cover -> Nat]
    BY <1>4 DEF Tally, Plus, CombHits, TypeOK, SimOK
  <2>. QED BY <1>4, <2>1
    DEF Tally, TypeOK, SimOK, CallOK, SeqOK, ScratchOK, CellsOK, call, seq, scratch
<1>5. ASSUME EvalError \/ PatchError \/ LoopError \/ AssertFails \/ AssertsFail
               \/ TallyError
      PROVE  \E why \in {"eval", "index", "budget", "assert"} : Stop(why)
  BY <1>5 DEF EvalError, PatchError, LoopError, AssertFails, AssertsFail, TallyError
<1>. QED BY <1>1, <1>2, <1>3, <1>4, <1>5, StopType

\* Every step keeps the types.
LEMMA TypeStep == TypeOK /\ [Next]_vars => TypeOK'
<1>. SUFFICES ASSUME TypeOK, [Next]_vars PROVE TypeOK'
  OBVIOUS
<1>1. CASE Request \/ TickFall
  BY <1>1, RequestType
<1>2. CASE Step
  BY <1>2, WalkType, WriteType, BranchType, EndType DEF Step
<1>3. CASE UNCHANGED vars
  BY <1>3 DEF vars, TypeOK, SimOK, CallOK, SeqOK, ScratchOK, CellsOK, sim, call, seq,
              scratch
<1>. QED BY <1>1, <1>2, <1>3 DEF Next

\* In every state the values of leaves, registers, cells and loop variables fit
\* their widths, whatever the statements computed.
THEOREM KernelTypeOK == Spec => []TypeOK
<1>. QED BY InitType, TypeStep, PTL DEF Spec
-----------------------------------------------------------------------------
\* A store keeps the cells of a memory within its depth.
LEMMA StoredInBounds ==
  ASSUME NEW m \in Mem, NEW a \in Address, NEW v, DOMAIN nextMems \subseteq Cell
  PROVE  DOMAIN Stored(m, a, v) \subseteq Cell
BY DEF Stored, Cell

\* Only the entry of an edge, a store and the commit touch the cells.
LEMMA MemStep == TypeOK /\ MemInBounds /\ [Next]_vars => MemInBounds'
<1>. SUFFICES ASSUME TypeOK, MemInBounds, [Next]_vars PROVE MemInBounds'
  OBVIOUS
<1>1. CASE MemWrite
  <2>1. Stmt.mem \in Mem /\ Value(Stmt.addr) \in Address
    BY <1>1, ExecuteType, FieldTypes, ValueType DEF MemWrite, TypeOK
  <2>2. mems' = mems
    BY <1>1 DEF MemWrite, sim
  <2>. QED BY <1>1, <2>1, <2>2, StoredInBounds DEF MemWrite, MemInBounds
<1>2. CASE Commit
  BY <1>2 DEF Commit, MemInBounds, scratch
<1>3. CASE Request \/ TickFall
  BY <1>3 DEF Request, TickFall, Set, Tick, TickEdge, StartEdge, StartMems, MemInBounds,
              sim, scratch
<1>4. CASE EnterProcess \/ Skip \/ EndPass \/ If \/ EnterLoop \/ Iterate \/ Unbind
             \/ EndLoop \/ AssertHolds \/ AssertsHold
  BY <1>4 DEF EnterProcess, Skip, EndPass, If, EnterLoop, Iterate, Unbind, EndLoop,
              AssertHolds, AssertsHold, MemInBounds, sim, scratch
<1>5. CASE Assign \/ Patch \/ Count \/ Tally
  BY <1>5 DEF Assign, Patch, Count, Tally, MemInBounds, sim, scratch
<1>6. CASE EvalError \/ PatchError \/ LoopError \/ AssertFails \/ AssertsFail \/ TallyError
  BY <1>6 DEF EvalError, PatchError, LoopError, AssertFails, AssertsFail, TallyError, Stop,
              MemInBounds, sim, scratch
<1>7. CASE UNCHANGED vars
  BY <1>7 DEF vars, MemInBounds, sim, scratch
<1>. QED BY <1>1, <1>2, <1>3, <1>4, <1>5, <1>6, <1>7 DEF Next, Step

\* No cell past the end of a memory is ever stored.
THEOREM KernelMemInBounds == Spec => []MemInBounds
<1>1. Init => MemInBounds
  BY DEF Init, MemInBounds
<1>. QED BY <1>1, InitType, TypeStep, MemStep, PTL DEF Spec
-----------------------------------------------------------------------------
\* While the bodies run, a frame may assign registers of the running edge only,
\* and no other register has a pending value that differs from the committed.
OwnFrames(c, e) == {f \in Frames : \A r \in Targets[f.body] : OnEdge(r, c, e)}

OwnPending ==
  pc = "body" =>
    /\ stack \in Seq(OwnFrames(clock, edge))
    /\ \A r \in Reg : next[r] # regs[r] => OnEdge(r, clock, edge)

\* The frame on top of the stack, and what is under it, belong to the edge.
LEMMA OwnTop ==
  ASSUME OwnPending, Running
  PROVE  Top \in OwnFrames(clock, edge) /\ Tail(stack) \in Seq(OwnFrames(clock, edge))
BY HeadTailProperties DEF OwnPending, Running, Top

\* So do the statement reached and the frame that follows it.
LEMMA OwnStmt ==
  ASSUME TypeOK, OwnPending, Reached("defaults") \/ Reached("rest")
  PROVE  /\ Advanced \in Seq(OwnFrames(clock, edge))
         /\ Stmt.kind \in {"default", "assign", "patch"} => OnEdge(Stmt.reg, clock, edge)
         /\ Stmt.kind = "if" =>
              \A r \in Targets[Stmt.then] \cup Targets[Stmt.els] : OnEdge(r, clock, edge)
         /\ Stmt.kind = "loop" => \A r \in Targets[Stmt.body] : OnEdge(r, clock, edge)
<1>1. Top \in BodyFrame /\ Top.body \in Body /\ Top.at \in DOMAIN Top.body
  BY StmtType DEF TypeOK
<1>2. Top \in OwnFrames(clock, edge) /\ Tail(stack) \in Seq(OwnFrames(clock, edge))
  BY OwnTop DEF Reached
<1>3. \A r \in Targets[Top.body] : OnEdge(r, clock, edge)
  BY <1>2 DEF OwnFrames
<1>4. Top.body \in Seq(Statement)
  BY <1>1, BodyAssumption
<1>5. Frame(Top.pass, Top.body, Top.at + 1) \in OwnFrames(clock, edge)
  BY <1>1, <1>3, <1>4 DEF Frame, BodyFrame, Frames, OwnFrames
<1>6. <<Frame(Top.pass, Top.body, Top.at + 1)>> \in Seq(OwnFrames(clock, edge))
  BY <1>5
<1>7. Advanced \in Seq(OwnFrames(clock, edge))
  BY <1>2, <1>6, ConcatProperties DEF Advanced
<1>. QED BY <1>1, <1>3, <1>7, OwnerAssumption DEF Stmt

\* Steps that push and pop frames without touching the registers.
LEMMA OwnWalk ==
  ASSUME TypeOK, OwnPending,
         EnterProcess \/ Skip \/ EndPass \/ If \/ EnterLoop \/ Iterate \/ Unbind
           \/ EndLoop \/ MemWrite \/ AssertHolds \/ Count
  PROVE  stack' \in Seq(OwnFrames(clock, edge))
<1>. DEFINE Own == OwnFrames(clock, edge)
<1>1. ASSUME NEW s \in Seq(Own), NEW f \in Own PROVE <<f>> \o s \in Seq(Own)
  <2>1. <<f>> \in Seq(Own)
    OBVIOUS
  <2>. QED BY <2>1, ConcatProperties
<1>2. ASSUME NEW f \in Frames, NEW b, f.body = b, \A r \in Targets[b] : OnEdge(r, clock, edge)
      PROVE  f \in Own
  BY <1>2 DEF OwnFrames
<1>3. CASE EnterProcess
  <2>1. program \in Seq(Process) /\ proc \in 1 .. Len(program)
    BY <1>3, BodyAssumption, LenProperties DEF EnterProcess, TypeOK, SimOK, SeqOK
  <2>2. CASE Matches(program[proc])
    <3>1. program[proc] \in Process
      BY <2>1, ElementOfSeq
    <3>2. program[proc].body \in Body
      BY <3>1 DEF Process
    <3>3. \A r \in Targets[program[proc].body] : OnEdge(r, clock, edge)
      BY <2>1, <2>2, OwnerAssumption DEF Matches, OnEdge, TypeOK, SimOK
    <3>4. Frame("defaults", program[proc].body, 1) \in Own
      BY <3>2, <3>3 DEF Frame, Frames, BodyFrame, OwnFrames
    <3>. QED BY <1>3, <2>2, <3>4 DEF EnterProcess
  <2>3. CASE ~Matches(program[proc])
    BY <1>3, <2>3 DEF EnterProcess
  <2>. QED BY <2>2, <2>3
<1>4. CASE Skip
  BY <1>4, OwnStmt DEF Skip, Advance
<1>5. CASE EndPass
  <2>1. Top \in Own /\ Tail(stack) \in Seq(Own) /\ Top \in BodyFrame
    BY <1>5, OwnTop, TopType DEF EndPass, Running, TypeOK, Frames, LoopFrame
  <2>2. Frame("rest", Top.body, 1) \in Own
    BY <2>1 DEF Frame, Frames, BodyFrame, OwnFrames
  <2>. QED BY <1>1, <1>5, <2>1, <2>2 DEF EndPass
<1>6. CASE If
  <2>1. Stmt.then \in Body /\ Stmt.els \in Body /\ Stmt.kind = "if"
    BY <1>6, ExecuteType, FieldTypes DEF If
  <2>2. Advanced \in Seq(Own)
        /\ \A r \in Targets[Stmt.then] \cup Targets[Stmt.els] : OnEdge(r, clock, edge)
    BY <1>6, <2>1, OwnStmt DEF If, Execute
  <2>3. Frame("defaults", Stmt.then, 1) \in Own /\ Frame("defaults", Stmt.els, 1) \in Own
    BY <2>1, <2>2 DEF Frame, Frames, BodyFrame, OwnFrames
  <2>. QED BY <1>1, <1>6, <2>2, <2>3 DEF If
<1>7. CASE EnterLoop
  <2>1. Stmt.body \in Body /\ Stmt.var \in Var /\ Stmt.kind = "loop"
        /\ Value(Stmt.lo) \in 0 .. MaxBound /\ Value(Stmt.hi) \in 0 .. MaxBound
    BY <1>7, ExecuteType, FieldTypes, ValueType DEF EnterLoop, TypeOK
  <2>2. Advanced \in Seq(Own) /\ \A r \in Targets[Stmt.body] : OnEdge(r, clock, edge)
    BY <1>7, <2>1, OwnStmt DEF EnterLoop, Execute
  <2>3. Loop("loop", Stmt.body, Value(Stmt.lo), Value(Stmt.hi), Stmt.var, Unbound) \in Own
    BY <2>1, <2>2 DEF Loop, Frames, LoopFrame, OwnFrames
  <2>. QED BY <1>1, <1>7, <2>2, <2>3 DEF EnterLoop
<1>8. CASE Iterate
  <2>1. Top \in Own /\ Tail(stack) \in Seq(Own) /\ Top.pass = "loop" /\ Top.at < Top.hi
    BY <1>8, OwnTop DEF Iterate
  <2>2. Top \in LoopFrame
    BY <2>1 DEF OwnFrames, Frames, BodyFrame
  <2>3. Top.at \in 0 .. MaxBound /\ Top.hi \in 0 .. MaxBound /\ Top.var \in Var
        /\ Top.body \in Body
    BY <2>2 DEF LoopFrame
  <2>4. known[Top.var] \in (0 .. MaxBound) \cup {Unbound}
    BY <2>3 DEF TypeOK, SeqOK, KnownState
  <2>5. Loop("unbind", Top.body, Top.at, Top.hi, Top.var, known[Top.var]) \in Frames
    BY <2>1, <2>3, <2>4 DEF Loop, Frames, LoopFrame
  <2>6. Loop("unbind", Top.body, Top.at, Top.hi, Top.var, known[Top.var]) \in Own
    BY <2>1, <2>5 DEF Loop, OwnFrames
  <2>7. Frame("defaults", Top.body, 1) \in Own
    BY <2>1, <2>3 DEF Frame, Frames, BodyFrame, OwnFrames
  <2>8. <<Frame("defaults", Top.body, 1),
          Loop("unbind", Top.body, Top.at, Top.hi, Top.var, known[Top.var])>> \in Seq(Own)
    BY <2>6, <2>7
  <2>. QED BY <1>8, <2>1, <2>8, ConcatProperties DEF Iterate
<1>9. CASE Unbind
  <2>1. Top \in Own /\ Tail(stack) \in Seq(Own) /\ Top.pass = "unbind"
    BY <1>9, OwnTop DEF Unbind
  <2>2. Top \in LoopFrame
    BY <2>1 DEF OwnFrames, Frames, BodyFrame
  <2>3. Top.at \in 0 .. MaxBound /\ Top.hi \in 0 .. MaxBound /\ Top.at < Top.hi
        /\ Top.var \in Var /\ Top.body \in Body
    BY <2>1, <2>2 DEF LoopFrame
  <2>4. Top.at + 1 \in 0 .. MaxBound
    BY <2>3, SignalAssumption
  <2>5. Loop("loop", Top.body, Top.at + 1, Top.hi, Top.var, Unbound) \in Frames
    BY <2>3, <2>4 DEF Loop, Frames, LoopFrame
  <2>6. Loop("loop", Top.body, Top.at + 1, Top.hi, Top.var, Unbound) \in Own
    BY <2>1, <2>5 DEF Loop, OwnFrames
  <2>. QED BY <1>1, <1>9, <2>1, <2>6 DEF Unbind, Successor
<1>10. CASE EndLoop
  BY <1>10, OwnTop DEF EndLoop
<1>11. CASE MemWrite \/ AssertHolds \/ Count
  BY <1>11, OwnStmt DEF MemWrite, AssertHolds, Count, Execute, Advance
<1>. QED BY <1>3, <1>4, <1>5, <1>6, <1>7, <1>8, <1>9, <1>10, <1>11

\* Steps that give a register a pending value.
LEMMA OwnAssign ==
  ASSUME TypeOK, OwnPending, Assign \/ Patch
  PROVE  /\ stack' \in Seq(OwnFrames(clock, edge))
         /\ \A r \in Reg : next'[r] # regs[r] => OnEdge(r, clock, edge)
<1>1. Stmt.kind \in {"default", "assign", "patch"}
      /\ (Reached("defaults") \/ Reached("rest")) /\ stack' = Advanced
  BY ExecuteType DEF Assign, Patch, Execute, Advance
<1>2. OnEdge(Stmt.reg, clock, edge) /\ stack' \in Seq(OwnFrames(clock, edge))
  BY <1>1, OwnStmt
<1>3. pc = "body" /\ DOMAIN next = Reg
  BY <1>1 DEF Reached, Running, TypeOK, ScratchOK, RegState
<1>4. \A r \in Reg : r # Stmt.reg => next'[r] = next[r]
  BY <1>3 DEF Assign, Patch
<1>. QED BY <1>2, <1>3, <1>4 DEF OwnPending

\* The steps keep the invariant.
LEMMA OwnStep == TypeOK /\ OwnPending /\ [Next]_vars => OwnPending'
<1>. SUFFICES ASSUME TypeOK, OwnPending, [Next]_vars, pc' = "body" PROVE OwnPending'
  BY DEF OwnPending
<1>1. ASSUME NEW c \in Clock, NEW e \in Edge, StartEdge(c, e) PROVE OwnPending'
  <2>1. clock' = c /\ edge' = e /\ stack' = <<>> /\ regs' = regs
    BY <1>1 DEF StartEdge, sim
  <2>2. \A r \in Reg : next'[r] # regs[r] => OnEdge(r, c, e)
    BY <1>1 DEF StartEdge
  <2>. QED BY <2>1, <2>2 DEF OwnPending
<1>2. CASE Request \/ TickFall
  BY <1>1, <1>2 DEF Request, TickFall, Set, Tick, TickEdge, Edge, TypeOK, CallOK
<1>3. CASE EnterProcess \/ Skip \/ EndPass \/ If \/ EnterLoop \/ Iterate \/ Unbind
             \/ EndLoop \/ MemWrite \/ AssertHolds \/ Count
  <2>1. pc = "body" /\ UNCHANGED <<regs, next, clock, edge>>
    BY <1>3 DEF EnterProcess, Skip, EndPass, If, EnterLoop, Iterate, Unbind, EndLoop,
                MemWrite, AssertHolds, Count, Running, Execute, Reached, sim, call, scratch
  <2>. QED BY <1>3, <2>1, OwnWalk DEF OwnPending
<1>4. CASE Assign \/ Patch
  <2>1. UNCHANGED <<regs, clock, edge>>
    BY <1>4 DEF Assign, Patch, sim, call
  <2>. QED BY <1>4, <2>1, OwnAssign DEF OwnPending
<1>5. CASE Commit \/ AssertsHold \/ Tally \/ EvalError \/ PatchError \/ LoopError
             \/ AssertFails \/ AssertsFail \/ TallyError
  BY <1>5 DEF Commit, AssertsHold, Tally, EvalError, PatchError, LoopError, AssertFails,
              AssertsFail, TallyError, Stop
<1>6. CASE UNCHANGED vars
  BY <1>6 DEF vars, sim, call, seq, scratch, OwnPending
<1>. QED BY <1>2, <1>3, <1>4, <1>5, <1>6 DEF Next, Step

\* A register changes only on its own edge of its own clock.
THEOREM KernelOwnEdgeOnly == Spec => OwnEdgeOnly
<1>1. Init => OwnPending
  BY DEF Init, OwnPending
<1>2. OwnPending /\ [Next]_vars =>
        [\A r \in Reg : regs'[r] # regs[r] => RegClock[r] = clock /\ RegEdge[r] = edge]_vars
  <2>. SUFFICES ASSUME OwnPending, Next, NEW r \in Reg, regs'[r] # regs[r]
                PROVE  RegClock[r] = clock /\ RegEdge[r] = edge
    OBVIOUS
  <2>1. CASE Commit
    BY <2>1 DEF Commit, OwnPending, OnEdge
  <2>2. CASE Request \/ TickFall
    BY <2>2 DEF Request, TickFall, Set, Tick, TickEdge, StartEdge, sim
  <2>3. CASE Step /\ ~Commit
    BY <2>3 DEF Step, EnterProcess, Skip, EndPass, If, EnterLoop, Iterate, Unbind, EndLoop,
                MemWrite, AssertHolds, Count, Assign, Patch, AssertsHold, Tally, EvalError,
                PatchError, LoopError, AssertFails, AssertsFail, TallyError, Stop, sim
  <2>. QED BY <2>1, <2>2, <2>3 DEF Next
<1>. QED BY <1>1, <1>2, InitType, TypeStep, OwnStep, PTL DEF Spec, OwnEdgeOnly
-----------------------------------------------------------------------------
\* Under reset there is nothing left to run: the scratch copies already hold
\* what the edge will commit.
ResetPending ==
  pc = "body" /\ ResetNow =>
    /\ stack = <<>> /\ proc = Len(program) + 1
    /\ nextMems = mems /\ newHits = NoHits
    /\ \A r \in Reg : next[r] = IF OnEdge(r, clock, edge)
                                THEN Fit(ResetValue[r], r) ELSE regs[r]

\* In a body under reset only the commit can happen.
LEMMA ResetOnlyCommits ==
  ASSUME TypeOK, ResetPending, pc = "body", ResetNow, Next
  PROVE  Commit
<1>1. stack = <<>> /\ ~(proc <= Len(program))
  BY LenProperties, BodyAssumption DEF ResetPending, TypeOK, SimOK
<1>2. ~EnterProcess
  BY <1>1 DEF EnterProcess
<1>3. ~Running /\ ~Reached("defaults") /\ ~Reached("rest")
  BY <1>1 DEF Running, Reached
<1>4. ~(Request \/ TickFall)
  BY DEF Request, TickFall, Set, Tick, TickEdge
<1>. QED BY <1>2, <1>3, <1>4
  DEF Next, Step, Skip, EndPass, If, EnterLoop, Iterate, Unbind, EndLoop, MemWrite,
      AssertHolds, Count, Assign, Patch, AssertsHold, Tally, EvalError, PatchError,
      LoopError, AssertFails, AssertsFail, TallyError, Execute

\* The steps keep the invariant.
LEMMA ResetStep == TypeOK /\ ResetPending /\ [Next]_vars => ResetPending'
<1>. SUFFICES ASSUME TypeOK, ResetPending, [Next]_vars, pc' = "body", ResetNow'
              PROVE  ResetPending'
  BY DEF ResetPending
<1>1. ASSUME NEW c \in Clock, NEW e \in Edge, StartEdge(c, e) PROVE ResetPending'
  <2>1. ResetNow
    BY <1>1 DEF StartEdge, ResetNow, sim
  <2>2. clock' = c /\ edge' = e /\ UNCHANGED <<program, regs, mems>>
        /\ stack' = <<>> /\ proc' = Len(program) + 1
        /\ nextMems' = mems /\ newHits' = NoHits
    BY <1>1, <2>1 DEF StartEdge, StartMems, sim
  <2>3. \A r \in Reg : next'[r] = IF OnEdge(r, c, e) THEN Fit(ResetValue[r], r) ELSE regs[r]
    BY <1>1, <2>1 DEF StartEdge
  <2>. QED BY <2>2, <2>3 DEF ResetPending, OnEdge
<1>2. CASE Request \/ TickFall
  BY <1>1, <1>2 DEF Request, TickFall, Set, Tick, TickEdge, Edge, TypeOK, CallOK
<1>3. CASE Step
  <2>1. pc = "body"
    BY <1>3 DEF Step, EnterProcess, Skip, EndPass, If, EnterLoop, Iterate, Unbind, EndLoop,
                MemWrite, AssertHolds, Count, Assign, Patch, Commit, AssertsHold, Tally,
                EvalError, PatchError, LoopError, AssertFails, AssertsFail, TallyError, Stop,
                Execute, Reached, Running
  <2>2. UNCHANGED leaves
    BY <1>3 DEF Step, EnterProcess, Skip, EndPass, If, EnterLoop, Iterate, Unbind, EndLoop,
                MemWrite, AssertHolds, Count, Assign, Patch, Commit, AssertsHold, Tally,
                EvalError, PatchError, LoopError, AssertFails, AssertsFail, TallyError, Stop,
                sim
  <2>3. ResetNow
    BY <2>2 DEF ResetNow
  <2>4. Commit
    BY <1>3, <2>1, <2>3, ResetOnlyCommits DEF Next
  <2>. QED BY <2>4 DEF Commit
<1>4. CASE UNCHANGED vars
  BY <1>4 DEF vars, sim, call, seq, scratch, ResetPending, ResetNow, OnEdge
<1>. QED BY <1>2, <1>3, <1>4 DEF Next

\* An edge under reset gives its registers their reset values and does nothing
\* else.
THEOREM KernelResetWins == Spec => ResetWins
<1>1. Init => ResetPending
  BY DEF Init, ResetPending
<1>2. TypeOK /\ ResetPending /\ [Next]_vars =>
        [pc = "body" /\ pc' = "asserts" /\ ResetNow =>
           /\ mems' = mems /\ hits' = hits
           /\ \A r \in Reg : regs'[r] = IF OnEdge(r, clock, edge)
                                         THEN Fit(ResetValue[r], r) ELSE regs[r]]_vars
  <2>. SUFFICES ASSUME TypeOK, ResetPending, Next, pc = "body", ResetNow
                PROVE  /\ mems' = mems /\ hits' = hits
                       /\ \A r \in Reg : regs'[r] = IF OnEdge(r, clock, edge)
                                                     THEN Fit(ResetValue[r], r) ELSE regs[r]
    OBVIOUS
  <2>1. Commit
    BY ResetOnlyCommits
  <2>2. Plus(hits, NoHits) = hits
    BY DEF Plus, NoHits, TypeOK, SimOK
  <2>. QED BY <2>1, <2>2 DEF Commit, ResetPending
<1>. QED BY <1>1, <1>2, InitType, TypeStep, ResetStep, PTL DEF Spec, ResetWins
-----------------------------------------------------------------------------
\* The frames of a stack s from the k-th on give the loop variable v the value
\* x: that of the first one that binds it, or none.
Binds(f, v) == f.pass = "unbind" /\ f.var = v

Gives(s, k, v, x) ==
  \/ x = Unbound /\ \A i \in DOMAIN s : k <= i => ~Binds(s[i], v)
  \/ \E i \in DOMAIN s :
       /\ k <= i /\ Binds(s[i], v) /\ s[i].at = x
       /\ \A j \in DOMAIN s : k <= j /\ j < i => ~Binds(s[j], v)

\* Every frame that binds a variable remembers what the frames under it give
\* that variable, and the whole stack gives every variable its value.
Remembered(s) ==
  \A v \in Var : \A i \in DOMAIN s : Binds(s[i], v) => Gives(s, i + 1, v, s[i].old)
Shown(s, values) == \A v \in Var : Gives(s, 1, v, values[v])
Scopes(s, values) == Remembered(s) /\ Shown(s, values)

\* The elements of a stack with one more frame on top.
LEMMA PushElements ==
  ASSUME NEW s \in Seq(Frames), NEW f \in Frames
  PROVE  /\ Len(<<f>> \o s) = Len(s) + 1 /\ (<<f>> \o s)[1] = f
         /\ DOMAIN (<<f>> \o s) = 1 .. Len(s) + 1 /\ DOMAIN s = 1 .. Len(s)
         /\ \A i \in 1 .. Len(s) : (<<f>> \o s)[i + 1] = s[i]
         /\ Len(s) \in Nat
<1>1. <<f>> \in Seq(Frames) /\ Len(<<f>>) = 1 /\ <<f>>[1] = f /\ Len(s) \in Nat
  OBVIOUS
<1>. QED BY <1>1, ConcatProperties, LenProperties

\* What the frames below the top give is what they give on their own.
LEMMA GivesBelow ==
  ASSUME NEW s \in Seq(Frames), NEW f \in Frames, NEW k \in Nat \ {0}, NEW v, NEW x
  PROVE  Gives(<<f>> \o s, k + 1, v, x) <=> Gives(s, k, v, x)
<1>. DEFINE t == <<f>> \o s
            n == Len(s)
<1>1. n \in Nat /\ DOMAIN s = 1 .. n /\ DOMAIN t = 1 .. n + 1
      /\ \A i \in 1 .. n : t[i + 1] = s[i]
  BY PushElements
<1>. HIDE DEF t, n
<1>2. \A i \in 2 .. n + 1 : i - 1 \in 1 .. n /\ t[i] = s[i - 1]
  <2>. TAKE i \in 2 .. n + 1
  <2>1. i - 1 \in 1 .. n /\ (i - 1) + 1 = i
    BY <1>1
  <2>. QED BY <1>1, <2>1
<1>3. ASSUME Gives(t, k + 1, v, x) PROVE Gives(s, k, v, x)
  <2>1. CASE x = Unbound /\ \A i \in DOMAIN t : k + 1 <= i => ~Binds(t[i], v)
    <3>1. \A i \in DOMAIN s : k <= i => ~Binds(s[i], v)
      <4>. SUFFICES ASSUME NEW i \in DOMAIN s, k <= i PROVE ~Binds(s[i], v)
        OBVIOUS
      <4>1. i + 1 \in DOMAIN t /\ k + 1 <= i + 1 /\ t[i + 1] = s[i]
        BY <1>1
      <4>. QED BY <2>1, <4>1
    <3>. QED BY <2>1, <3>1 DEF Gives
  <2>2. ASSUME NEW i \in DOMAIN t, k + 1 <= i, Binds(t[i], v), t[i].at = x,
               \A j \in DOMAIN t : k + 1 <= j /\ j < i => ~Binds(t[j], v)
        PROVE  Gives(s, k, v, x)
    <3>1. i - 1 \in DOMAIN s /\ k <= i - 1 /\ s[i - 1] = t[i]
      BY <1>1, <1>2, <2>2
    <3>2. \A j \in DOMAIN s : k <= j /\ j < i - 1 => ~Binds(s[j], v)
      <4>. SUFFICES ASSUME NEW j \in DOMAIN s, k <= j, j < i - 1 PROVE ~Binds(s[j], v)
        OBVIOUS
      <4>1. j + 1 \in DOMAIN t /\ k + 1 <= j + 1 /\ j + 1 < i /\ t[j + 1] = s[j]
        BY <1>1
      <4>. QED BY <2>2, <4>1
    <3>. QED BY <2>2, <3>1, <3>2 DEF Gives
  <2>. QED BY <1>3, <2>1, <2>2 DEF Gives
<1>4. ASSUME Gives(s, k, v, x) PROVE Gives(t, k + 1, v, x)
  <2>1. CASE x = Unbound /\ \A i \in DOMAIN s : k <= i => ~Binds(s[i], v)
    <3>1. \A i \in DOMAIN t : k + 1 <= i => ~Binds(t[i], v)
      <4>. SUFFICES ASSUME NEW i \in DOMAIN t, k + 1 <= i PROVE ~Binds(t[i], v)
        OBVIOUS
      <4>1. i - 1 \in DOMAIN s /\ k <= i - 1 /\ s[i - 1] = t[i]
        BY <1>1, <1>2
      <4>. QED BY <2>1, <4>1
    <3>. QED BY <2>1, <3>1 DEF Gives
  <2>2. ASSUME NEW i \in DOMAIN s, k <= i, Binds(s[i], v), s[i].at = x,
               \A j \in DOMAIN s : k <= j /\ j < i => ~Binds(s[j], v)
        PROVE  Gives(t, k + 1, v, x)
    <3>1. i + 1 \in DOMAIN t /\ k + 1 <= i + 1 /\ t[i + 1] = s[i]
      BY <1>1, <2>2
    <3>2. \A j \in DOMAIN t : k + 1 <= j /\ j < i + 1 => ~Binds(t[j], v)
      <4>. SUFFICES ASSUME NEW j \in DOMAIN t, k + 1 <= j, j < i + 1 PROVE ~Binds(t[j], v)
        OBVIOUS
      <4>1. j - 1 \in DOMAIN s /\ k <= j - 1 /\ j - 1 < i /\ s[j - 1] = t[j]
        BY <1>1, <1>2
      <4>. QED BY <2>2, <4>1
    <3>. QED BY <2>2, <3>1, <3>2 DEF Gives
  <2>. QED BY <1>4, <2>1, <2>2 DEF Gives
<1>. QED BY <1>3, <1>4 DEF t

\* What a whole stack gives: the top frame's value if it binds the variable,
\* and else what is under it.
LEMMA GivesTop ==
  ASSUME NEW s \in Seq(Frames), NEW f \in Frames, NEW v, NEW x
  PROVE  Gives(<<f>> \o s, 1, v, x) <=> IF Binds(f, v) THEN x = f.at ELSE Gives(s, 1, v, x)
<1>. DEFINE t == <<f>> \o s
<1>1. Len(s) \in Nat /\ DOMAIN t = 1 .. Len(s) + 1 /\ t[1] = f
  BY PushElements
<1>2. Gives(t, 2, v, x) <=> Gives(s, 1, v, x)
  BY GivesBelow
<1>. HIDE DEF t
<1>3. CASE Binds(f, v)
  BY <1>1, <1>3 DEF Gives
<1>4. CASE ~Binds(f, v)
  <2>1. \A i \in DOMAIN t : Binds(t[i], v) => (1 <= i <=> 2 <= i)
    BY <1>1, <1>4
  <2>2. \A i \in DOMAIN t : (1 <= i => ~Binds(t[i], v)) <=> (2 <= i => ~Binds(t[i], v))
    BY <2>1
  <2>3. \A i, j \in DOMAIN t :
          (1 <= j /\ j < i => ~Binds(t[j], v)) <=> (2 <= j /\ j < i => ~Binds(t[j], v))
    BY <2>1
  <2>4. Gives(t, 1, v, x) <=> Gives(t, 2, v, x)
    BY <2>1, <2>2, <2>3 DEF Gives
  <2>. QED BY <1>2, <1>4, <2>4 DEF t
<1>. QED BY <1>3, <1>4

\* The frames of a stack remember rightly when those under the top do, and the
\* top does.
LEMMA RememberedTop ==
  ASSUME NEW s \in Seq(Frames), NEW f \in Frames
  PROVE  Remembered(<<f>> \o s) <=>
           /\ Remembered(s)
           /\ \A v \in Var : Binds(f, v) => Gives(s, 1, v, f.old)
<1>. DEFINE t == <<f>> \o s
            n == Len(s)
<1>1. n \in Nat /\ DOMAIN s = 1 .. n /\ DOMAIN t = 1 .. n + 1 /\ t[1] = f
      /\ \A i \in 1 .. n : t[i + 1] = s[i]
  BY PushElements
<1>2. \A v, x : Gives(t, 2, v, x) <=> Gives(s, 1, v, x)
  BY GivesBelow
<1>3. \A k \in Nat \ {0} : \A v, x : Gives(t, k + 1, v, x) <=> Gives(s, k, v, x)
  BY GivesBelow
<1>. HIDE DEF t, n
<1>4. ASSUME Remembered(t) PROVE Remembered(s) /\ \A v \in Var : Binds(f, v) => Gives(s, 1, v, f.old)
  <2>1. \A v \in Var : Binds(f, v) => Gives(s, 1, v, f.old)
    BY <1>1, <1>2, <1>4 DEF Remembered
  <2>2. ASSUME NEW v \in Var, NEW i \in DOMAIN s, Binds(s[i], v)
        PROVE  Gives(s, i + 1, v, s[i].old)
    <3>1. i + 1 \in DOMAIN t /\ t[i + 1] = s[i] /\ i + 1 \in Nat \ {0}
      BY <1>1
    <3>2. Gives(t, (i + 1) + 1, v, s[i].old)
      BY <1>4, <2>2, <3>1 DEF Remembered
    <3>. QED BY <1>3, <3>1, <3>2
  <2>. QED BY <2>1, <2>2 DEF Remembered
<1>5. ASSUME Remembered(s), \A v \in Var : Binds(f, v) => Gives(s, 1, v, f.old)
      PROVE  Remembered(t)
  <2>. SUFFICES ASSUME NEW v \in Var, NEW i \in DOMAIN t, Binds(t[i], v)
                PROVE  Gives(t, i + 1, v, t[i].old)
    BY DEF Remembered
  <2>1. CASE i = 1
    BY <1>1, <1>2, <1>5, <2>1
  <2>2. CASE i # 1
    <3>1. i - 1 \in DOMAIN s /\ s[i - 1] = t[i] /\ i \in Nat \ {0} /\ (i - 1) + 1 = i
      <4>1. i - 1 \in 1 .. n /\ (i - 1) + 1 = i
        BY <1>1, <2>2
      <4>. QED BY <1>1, <4>1
    <3>2. Gives(s, (i - 1) + 1, v, t[i].old)
      BY <1>5, <3>1 DEF Remembered
    <3>. QED BY <1>3, <3>1, <3>2
  <2>. QED BY <2>1, <2>2
<1>. QED BY <1>4, <1>5 DEF t

\* Pushing or popping a frame that binds nothing changes no scope.
LEMMA ScopesPlain ==
  ASSUME NEW s \in Seq(Frames), NEW f \in Frames, NEW values, f.pass # "unbind"
  PROVE  Scopes(<<f>> \o s, values) <=> Scopes(s, values)
<1>1. \A v : ~Binds(f, v)
  BY DEF Binds
<1>2. \A v, x : Gives(<<f>> \o s, 1, v, x) <=> Gives(s, 1, v, x)
  BY <1>1, GivesTop
<1>3. Remembered(<<f>> \o s) <=> Remembered(s)
  BY <1>1, RememberedTop
<1>. QED BY <1>2, <1>3 DEF Scopes, Shown

\* Binding a variable over what it shadows, and the way back.
LEMMA ScopesBind ==
  ASSUME NEW s \in Seq(Frames), NEW f \in Frames, NEW values \in KnownState,
         f.pass = "unbind", f.var \in Var, f.old = values[f.var], Scopes(s, values)
  PROVE  Scopes(<<f>> \o s, [values EXCEPT ![f.var] = f.at])
<1>1. \A v : Binds(f, v) <=> v = f.var
  BY DEF Binds
<1>2. Remembered(<<f>> \o s)
  BY <1>1, RememberedTop DEF Scopes, Shown
<1>3. \A v \in Var : Gives(<<f>> \o s, 1, v, [values EXCEPT ![f.var] = f.at][v])
  BY <1>1, GivesTop DEF Scopes, Shown, KnownState
<1>. QED BY <1>2, <1>3 DEF Scopes, Shown

\* Leaving a binding restores the values of the scope outside it.
LEMMA ScopesUnbind ==
  ASSUME NEW s \in Seq(Frames), NEW f \in Frames, NEW values \in KnownState,
         f.pass = "unbind", f.var \in Var, Scopes(<<f>> \o s, values)
  PROVE  Scopes(s, [values EXCEPT ![f.var] = f.old])
<1>1. \A v : Binds(f, v) <=> v = f.var
  BY DEF Binds
<1>2. Remembered(s) /\ Gives(s, 1, f.var, f.old)
  BY <1>1, RememberedTop DEF Scopes
<1>3. \A v \in Var : Gives(s, 1, v, [values EXCEPT ![f.var] = f.old][v])
  BY <1>1, <1>2, GivesTop DEF Scopes, Shown, KnownState
<1>. QED BY <1>2, <1>3 DEF Scopes, Shown

\* The empty stack gives every variable nothing.
LEMMA ScopesEmpty == Scopes(<<>>, [v \in Var |-> Unbound])
<1>1. \A i \in DOMAIN <<>> : FALSE
  OBVIOUS
<1>. QED BY <1>1 DEF Scopes, Remembered, Shown, Gives

\* Between the steps of the bodies the frames remember rightly.
ScopeInv == Scopes(stack, known)

\* A stack that is not empty is its top over the rest.
LEMMA TopOfStack ==
  ASSUME SeqOK, stack # <<>>
  PROVE  /\ Top \in Frames /\ Tail(stack) \in Seq(Frames)
         /\ stack = <<Top>> \o Tail(stack)
BY HeadTailProperties DEF SeqOK, Top, Frames

\* The scopes of what is under the top frame are those of the stack, unless that
\* frame holds the variable of a loop.
LEMMA ScopesBelow ==
  ASSUME ScopeInv, Top \in Frames, Tail(stack) \in Seq(Frames),
         stack = <<Top>> \o Tail(stack), Top.pass # "unbind"
  PROVE  Scopes(Tail(stack), known)
<1>. DEFINE f == Top
            s == Tail(stack)
            v == known
<1>1. Scopes(<<f>> \o s, v) /\ f \in Frames /\ s \in Seq(Frames) /\ f.pass # "unbind"
  BY DEF ScopeInv
<1>. HIDE DEF f, s, v
<1>2. Scopes(s, v)
  BY ONLY <1>1, ScopesPlain
<1>. QED BY <1>2 DEF s, v

\* A step that goes on to the next statement changes no scope, with or without
\* a new frame of a branch or of a loop on top.
LEMMA AdvanceScopes ==
  ASSUME TypeOK, ScopeInv, Reached("defaults") \/ Reached("rest")
  PROVE  /\ Advanced \in Seq(Frames) /\ Scopes(Advanced, known)
         /\ \A f \in Frames : f.pass # "unbind" => Scopes(<<f>> \o Advanced, known)
<1>1. Top \in BodyFrame /\ Advanced \in Seq(Frames) /\ Top.at \in DOMAIN Top.body
      /\ Top.body \in Body
  BY StmtType DEF TypeOK
<1>2. Tail(stack) \in Seq(Frames) /\ stack = <<Top>> \o Tail(stack) /\ Top \in Frames
  BY TopOfStack DEF Reached, Running, TypeOK
<1>3. Top.pass # "unbind"
  BY <1>1 DEF BodyFrame
<1>4. Scopes(Tail(stack), known)
  BY <1>2, <1>3, ScopesBelow
<1>5. Frame(Top.pass, Top.body, Top.at + 1) \in Frames
      /\ Frame(Top.pass, Top.body, Top.at + 1).pass # "unbind"
  BY <1>1, BodyAssumption DEF Frame, BodyFrame, Frames
<1>6. Scopes(Advanced, known)
  BY <1>2, <1>4, <1>5, ScopesPlain DEF Advanced
<1>. QED BY <1>1, <1>6, ScopesPlain

\* The steps that push and pop frames, the binding of a loop variable aside.
LEMMA WalkScopes ==
  ASSUME TypeOK, ScopeInv,
         EnterProcess \/ Skip \/ EndPass \/ Assign \/ MemWrite \/ Patch \/ If
           \/ EnterLoop \/ EndLoop \/ AssertHolds \/ Count
  PROVE  ScopeInv'
<1>1. known' = known
  BY DEF EnterProcess, Skip, EndPass, Assign, MemWrite, Patch, If, EnterLoop, EndLoop,
         AssertHolds, Count
<1>2. CASE EnterProcess
  <2>1. CASE stack' = <<>>
    BY <1>1, <1>2, <2>1 DEF EnterProcess, ScopeInv
  <2>2. CASE stack' # <<>>
    <3>1. stack' = <<Frame("defaults", program[proc].body, 1)>> /\ stack = <<>>
      BY <1>2, <2>2 DEF EnterProcess
    <3>2. program \in Seq(Process) /\ proc \in 1 .. Len(program)
      BY <1>2, BodyAssumption, LenProperties DEF EnterProcess, TypeOK, SimOK, SeqOK
    <3>3. program[proc] \in Process
      BY <3>2, ElementOfSeq
    <3>4. Frame("defaults", program[proc].body, 1) \in Frames
          /\ Frame("defaults", program[proc].body, 1).pass # "unbind"
      BY <3>3 DEF Frame, Frames, BodyFrame, Process
    <3>5. stack' = <<Frame("defaults", program[proc].body, 1)>> \o stack
      BY <3>1
    <3>6. stack \in Seq(Frames)
      BY <3>1
    <3>. QED BY <1>1, <3>4, <3>5, <3>6, ScopesPlain DEF ScopeInv
  <2>. QED BY <2>1, <2>2
<1>3. CASE Skip \/ Assign \/ MemWrite \/ Patch \/ AssertHolds \/ Count
  <2>1. stack' = Advanced /\ (Reached("defaults") \/ Reached("rest"))
    BY <1>3 DEF Skip, Assign, MemWrite, Patch, AssertHolds, Count, Execute, Advance
  <2>. QED BY <1>1, <2>1, AdvanceScopes DEF ScopeInv
<1>4. CASE EndPass \/ EndLoop
  <2>1. Top \in Frames /\ Tail(stack) \in Seq(Frames) /\ stack = <<Top>> \o Tail(stack)
        /\ Top.pass # "unbind"
    BY <1>4, TopOfStack DEF EndPass, EndLoop, Running, TypeOK
  <2>2. Scopes(Tail(stack), known)
    BY <2>1, ScopesBelow
  <2>3. CASE stack' = Tail(stack)
    BY <1>1, <2>2, <2>3 DEF ScopeInv
  <2>4. CASE stack' # Tail(stack)
    <3>1. EndPass /\ stack' = <<Frame("rest", Top.body, 1)>> \o Tail(stack)
      BY ONLY <1>4, <2>4, Zenon DEF EndPass, EndLoop
    <3>2. Top \in BodyFrame
      <4>1. Top.pass \in {"defaults", "rest"}
        BY <3>1 DEF EndPass
      <4>. QED BY ONLY <2>1, <4>1 DEF Frames, LoopFrame
    <3>3. Frame("rest", Top.body, 1) \in Frames /\ Frame("rest", Top.body, 1).pass # "unbind"
      BY <3>2 DEF Frame, Frames, BodyFrame
    <3>. QED BY <1>1, <2>1, <2>2, <3>1, <3>3, ScopesPlain, Zenon DEF ScopeInv
  <2>. QED BY <2>3, <2>4
<1>5. CASE If
  <2>1. Stmt.then \in Body /\ Stmt.els \in Body
    BY <1>5, ExecuteType, FieldTypes DEF If
  <2>2. \A b \in Body : Frame("defaults", b, 1) \in Frames
                        /\ Frame("defaults", b, 1).pass # "unbind"
    BY DEF Frame, Frames, BodyFrame
  <2>3. Reached("defaults") \/ Reached("rest")
    BY <1>5 DEF If, Execute
  <2>. QED BY <1>1, <1>5, <2>1, <2>2, <2>3, AdvanceScopes DEF If, ScopeInv
<1>6. CASE EnterLoop
  <2>1. Stmt.body \in Body /\ Stmt.var \in Var
        /\ Value(Stmt.lo) \in 0 .. MaxBound /\ Value(Stmt.hi) \in 0 .. MaxBound
    BY <1>6, ExecuteType, FieldTypes, ValueType DEF EnterLoop, TypeOK
  <2>. DEFINE f == Loop("loop", Stmt.body, Value(Stmt.lo), Value(Stmt.hi), Stmt.var, Unbound)
  <2>2. f \in Frames /\ f.pass # "unbind"
    BY <2>1 DEF Loop, Frames, LoopFrame
  <2>3. (Reached("defaults") \/ Reached("rest")) /\ stack' = <<f>> \o Advanced
    BY <1>6 DEF EnterLoop, Execute
  <2>. HIDE DEF f
  <2>. QED BY <1>1, <2>2, <2>3, AdvanceScopes DEF ScopeInv
<1>. QED BY <1>2, <1>3, <1>4, <1>5, <1>6

\* Binding the variable of an iteration.
LEMMA IterateScopes ==
  ASSUME TypeOK, ScopeInv, Iterate PROVE ScopeInv'
<1>1. Top \in Frames /\ Tail(stack) \in Seq(Frames) /\ stack = <<Top>> \o Tail(stack)
      /\ Top.pass = "loop" /\ Top.at < Top.hi
  BY TopOfStack DEF Iterate, Running, TypeOK
<1>2. Scopes(Tail(stack), known)
  BY <1>1, ScopesBelow
<1>3. Top \in LoopFrame
  BY <1>1 DEF Frames, BodyFrame
<1>4. Top.at \in 0 .. MaxBound /\ Top.hi \in 0 .. MaxBound /\ Top.var \in Var
      /\ Top.body \in Body
  BY <1>3 DEF LoopFrame
<1>5. known \in KnownState
  BY DEF TypeOK, SeqOK
<1>6. known[Top.var] \in (0 .. MaxBound) \cup {Unbound}
  BY <1>4, <1>5 DEF KnownState
<1>. DEFINE u == Loop("unbind", Top.body, Top.at, Top.hi, Top.var, known[Top.var])
            b == Frame("defaults", Top.body, 1)
<1>7. u \in Frames /\ u.pass = "unbind" /\ u.var = Top.var /\ u.at = Top.at
      /\ u.old = known[Top.var]
  BY <1>1, <1>4, <1>6 DEF Loop, Frames, LoopFrame
<1>8. b \in Frames /\ b.pass # "unbind"
  BY <1>4 DEF Frame, Frames, BodyFrame
<1>9. stack' = <<b, u>> \o Tail(stack) /\ known' = [known EXCEPT ![Top.var] = Top.at]
  BY DEF Iterate
<1>. HIDE DEF u, b
<1>10. <<u>> \o Tail(stack) \in Seq(Frames)
  BY <1>1, <1>7, PushType
<1>11. <<b, u>> \o Tail(stack) = <<b>> \o (<<u>> \o Tail(stack))
  BY <1>1, <1>7, <1>8
<1>12. Scopes(<<u>> \o Tail(stack), known')
  BY <1>1, <1>2, <1>4, <1>5, <1>7, <1>9, ScopesBind
<1>. QED BY <1>8, <1>9, <1>10, <1>11, <1>12, ScopesPlain DEF ScopeInv

\* Giving it back what the iteration shadowed.
LEMMA UnbindScopes ==
  ASSUME TypeOK, ScopeInv, Unbind PROVE ScopeInv'
<1>1. Top \in Frames /\ Tail(stack) \in Seq(Frames) /\ stack = <<Top>> \o Tail(stack)
      /\ Top.pass = "unbind"
  BY TopOfStack DEF Unbind, Running, TypeOK
<1>2. Top \in LoopFrame
  BY <1>1 DEF Frames, BodyFrame
<1>3. Top.at \in 0 .. MaxBound /\ Top.hi \in 0 .. MaxBound /\ Top.at < Top.hi
      /\ Top.var \in Var /\ Top.body \in Body
  BY <1>1, <1>2 DEF LoopFrame
<1>4. known \in KnownState /\ known' = [known EXCEPT ![Top.var] = Top.old]
  BY DEF TypeOK, SeqOK, Unbind, Restored
<1>5. Scopes(Tail(stack), known')
  BY <1>1, <1>3, <1>4, ScopesUnbind DEF ScopeInv
<1>. DEFINE f == Loop("loop", Top.body, Top.at + 1, Top.hi, Top.var, Unbound)
<1>6. Top.at + 1 \in 0 .. MaxBound
  BY <1>3, SignalAssumption
<1>7. f \in Frames /\ f.pass # "unbind"
  BY <1>3, <1>6 DEF Loop, Frames, LoopFrame
<1>8. stack' = <<f>> \o Tail(stack)
  BY DEF Unbind, Successor
<1>. HIDE DEF f
<1>. QED BY <1>1, <1>5, <1>7, <1>8, ScopesPlain DEF ScopeInv

\* The steps keep the scopes.
LEMMA ScopeStep == TypeOK /\ ScopeInv /\ [Next]_vars => ScopeInv'
<1>. SUFFICES ASSUME TypeOK, ScopeInv, [Next]_vars PROVE ScopeInv'
  OBVIOUS
<1>1. CASE Iterate \/ Unbind
  BY <1>1, IterateScopes, UnbindScopes
<1>2. CASE EnterProcess \/ Skip \/ EndPass \/ Assign \/ MemWrite \/ Patch \/ If
             \/ EnterLoop \/ EndLoop \/ AssertHolds \/ Count
  BY <1>2, WalkScopes
<1>3. ASSUME NEW c, NEW e, StartEdge(c, e) PROVE ScopeInv'
  BY <1>3, ScopesEmpty DEF StartEdge, ScopeInv
<1>4. CASE TickFall \/ \E c \in Clock : Tick(c) \/ \E e \in Edge : TickEdge(c, e)
  BY <1>3, <1>4 DEF TickFall, Tick, TickEdge
<1>5. ASSUME UNCHANGED seq PROVE ScopeInv'
  BY <1>5 DEF seq, ScopeInv
<1>6. CASE \/ \E n \in Leaf, v \in 0 .. 2^MaxWidth : Set(n, v)
           \/ Commit \/ AssertsHold \/ Tally \/ EvalError \/ PatchError \/ LoopError
           \/ AssertFails \/ AssertsFail \/ TallyError \/ UNCHANGED vars
  BY <1>5, <1>6 DEF Set, Commit, AssertsHold, Tally, EvalError, PatchError, LoopError,
                    AssertFails, AssertsFail, TallyError, Stop, vars
<1>. QED BY <1>1, <1>2, <1>4, <1>6 DEF Next, Step, Request

\* What the frames from the k-th on give is what the innermost of the binders
\* among them holds.
LEMMA GivesInnermost ==
  ASSUME SeqOK, NEW v \in Var, NEW x, NEW k \in Nat, Gives(stack, k, v, x)
  PROVE  x = Innermost({i \in Binders(v) : k <= i})
<1>. DEFINE S == {i \in Binders(v) : k <= i}
<1>1. \A i \in DOMAIN stack : i \in Nat /\ (i \in S <=> k <= i /\ Binds(stack[i], v))
  BY LenProperties DEF Binders, Binds, SeqOK
<1>2. \A i \in S : i \in DOMAIN stack
  BY DEF Binders
<1>. HIDE DEF S
<1>3. CASE x = Unbound /\ \A i \in DOMAIN stack : k <= i => ~Binds(stack[i], v)
  <2>1. S = {}
    BY <1>1, <1>2, <1>3
  <2>. QED BY <1>3, <2>1 DEF Innermost, S
<1>4. ASSUME NEW i \in DOMAIN stack, k <= i, Binds(stack[i], v), stack[i].at = x,
             \A j \in DOMAIN stack : k <= j /\ j < i => ~Binds(stack[j], v)
      PROVE  x = Innermost(S)
  <2>1. i \in S /\ \A j \in S : i <= j
    BY <1>1, <1>2, <1>4
  <2>2. \A m \in S : (\A j \in S : m <= j) => m = i
    BY <1>1, <1>2, <2>1
  <2>. DEFINE First(m) == m \in S /\ \A j \in S : m <= j
  <2>3. First(i) /\ \A m : First(m) => m = i
    BY <2>1, <2>2
  <2>. HIDE DEF First
  <2>4. (CHOOSE m : First(m)) = i
    BY <2>3
  <2>5. (CHOOSE m \in S : \A j \in S : m <= j) = (CHOOSE m : First(m))
    BY DEF First
  <2>6. S # {} /\ Innermost(S) = stack[CHOOSE m \in S : \A j \in S : m <= j].at
    BY <2>1 DEF Innermost
  <2>7. Innermost(S) = stack[i].at
    BY <2>4, <2>5, <2>6
  <2>. QED BY <1>4, <2>7
<1>. QED BY <1>3, <1>4 DEF Gives, S

\* The invariant says of every loop variable what Scoped says.
LEMMA ScopedFromInv == TypeOK /\ ScopeInv => Scoped
<1>. SUFFICES ASSUME TypeOK, ScopeInv, NEW v \in Var
              PROVE  /\ known[v] = Innermost(Binders(v))
                     /\ \A i \in Binders(v) : stack[i].old = Innermost(Outer(v, i))
  BY DEF Scoped
<1>1. SeqOK /\ \A i \in DOMAIN stack : i \in Nat \ {0}
  BY LenProperties DEF TypeOK, SeqOK
<1>2. known[v] = Innermost(Binders(v))
  <2>1. {i \in Binders(v) : 1 <= i} = Binders(v)
    BY <1>1 DEF Binders
  <2>2. Gives(stack, 1, v, known[v])
    BY DEF ScopeInv, Scopes, Shown
  <2>3. known[v] = Innermost({i \in Binders(v) : 1 <= i})
    BY <1>1, <2>2, GivesInnermost
  <2>. QED BY <2>1, <2>3
<1>3. ASSUME NEW i \in Binders(v) PROVE stack[i].old = Innermost(Outer(v, i))
  <2>1. i \in DOMAIN stack /\ i + 1 \in Nat /\ Binds(stack[i], v)
    BY <1>1 DEF Binders, Binds
  <2>2. {j \in Binders(v) : i + 1 <= j} = Outer(v, i)
    BY <1>1, <2>1 DEF Binders, Outer
  <2>3. Gives(stack, i + 1, v, stack[i].old)
    BY <2>1 DEF ScopeInv, Scopes, Remembered
  <2>4. stack[i].old = Innermost({j \in Binders(v) : i + 1 <= j})
    BY <1>1, <2>1, <2>3, GivesInnermost
  <2>. QED BY <2>2, <2>4
<1>. QED BY <1>2, <1>3

\* A loop variable has the value of the innermost iteration that binds it, and
\* none outside its loops, at any depth of loops over any variables.
THEOREM KernelScoped == Spec => []Scoped
<1>1. Init => ScopeInv
  BY ScopesEmpty DEF Init, ScopeInv
<1>. QED BY <1>1, InitType, TypeStep, ScopeStep, ScopedFromInv, PTL DEF Spec
-----------------------------------------------------------------------------
\* A set of naturals that is not empty has a least element.
LEMMA LeastNatural ==
  ASSUME NEW S \in SUBSET Nat, S # {}
  PROVE  \E n \in S : \A m \in S : n <= m
<1>. DEFINE R == OpToRel(<, Nat)
<1>1. IsWellFoundedOn(R, Nat) BY NatLessThanWellFounded
<1>2. PICK x \in S : \A y \in S : ~(<<y, x>> \in R)
  <2>. HIDE DEF R
  <2>. QED BY <1>1, WFMin
<1>3. ASSUME NEW y \in S, ~(x <= y) PROVE FALSE
  <2>1. y < x /\ <<y, x>> \in Nat \X Nat BY <1>3
  <2>2. <<y, x>> \in {ss \in Nat \X Nat : ss[1] < ss[2]}
    BY <2>1
  <2>3. <<y, x>> \in R
    BY <2>2 DEF OpToRel
  <2>. QED BY <1>2, <2>3
<1>. QED BY <1>3

\* Induction over the naturals, for membership of a set.
LEMMA NatSetInduction ==
  ASSUME NEW S, 0 \in S, \A n \in Nat : n \in S => n + 1 \in S
  PROVE  Nat \subseteq S
<1>. DEFINE T == Nat \ S
<1>1. CASE T # {}
  <2>1. PICK n \in T : \A m \in T : n <= m
     BY <1>1, LeastNatural
  <2>2. n # 0 /\ n - 1 \in Nat /\ n - 1 \notin T
    BY <2>1
  <2>. QED BY <2>1, <2>2
<1>. QED BY <1>1

\* Iteration: a function from the naturals given by its first value and a step.
IsIteration(f, S, a, step) ==
  f \in [Nat -> S] /\ f[0] = a /\ \A n \in Nat : f[n + 1] = step[n][f[n]]
Iterated(S, a, step) == CHOOSE f : IsIteration(f, S, a, step)

\* There is one.
LEMMA Iteration ==
  ASSUME NEW S, NEW a \in S, NEW step \in [Nat -> [S -> S]]
  PROVE  IsIteration(Iterated(S, a, step), S, a, step)
<1>. DEFINE Upto(n) == {g \in [0 .. n -> S] :
                          g[0] = a /\ \A i \in 0 .. (n - 1) : g[i + 1] = step[i][g[i]]}
            Good == {n \in Nat : Upto(n) # {}}
<1>1. 0 \in Good
  <2>1. [i \in 0 .. 0 |-> a] \in Upto(0)
    OBVIOUS
  <2>. QED BY <2>1
<1>2. ASSUME NEW n \in Nat, n \in Good PROVE n + 1 \in Good
  <2>1. PICK g \in Upto(n) : TRUE
    BY <1>2
  <2>. DEFINE h == [i \in 0 .. (n + 1) |-> IF i = n + 1 THEN step[n][g[n]] ELSE g[i]]
  <2>2. g \in [0 .. n -> S] /\ g[0] = a /\ \A i \in 0 .. (n - 1) : g[i + 1] = step[i][g[i]]
    BY <2>1
  <2>3. step[n][g[n]] \in S
    BY <2>2
  <2>4. h \in [0 .. (n + 1) -> S]
    BY <2>2, <2>3
  <2>5. h[0] = a
    BY <2>2
  <2>6. ASSUME NEW i \in 0 .. n PROVE h[i + 1] = step[i][h[i]]
    <3>3. i + 1 \in 0 .. (n + 1) /\ i \in 0 .. (n + 1) /\ (i + 1 = n + 1 <=> i = n) /\ i # n + 1
      BY <1>2
    <3>4. h[i + 1] = (IF i + 1 = n + 1 THEN step[n][g[n]] ELSE g[i + 1]) /\ h[i] = g[i]
      BY <3>3
    <3>. HIDE DEF h
    <3>1. CASE i = n
      BY <3>1, <3>3, <3>4
    <3>2. CASE i # n
      <4>1. i \in 0 .. (n - 1)
        BY <1>2, <3>2
      <4>2. g[i + 1] = step[i][g[i]]
        BY <2>2, <4>1
      <4>. QED BY <3>2, <3>3, <3>4, <4>2
    <3>. QED BY <3>1, <3>2
  <2>7. h \in Upto(n + 1)
    BY <2>4, <2>5, <2>6
  <2>8. Upto(n + 1) # {} /\ n + 1 \in Nat
    <3>. HIDE DEF h, Upto
    <3>. QED BY <2>7
  <2>. QED BY <2>8
<1>3. \A n \in Nat : Upto(n) # {}
  <2>1. Nat \subseteq Good
    <3>. HIDE DEF Good
    <3>. QED BY <1>1, <1>2, NatSetInduction
  <2>. QED BY <2>1
<1>4. ASSUME NEW m \in Nat, NEW n \in Nat, NEW g \in Upto(m), NEW h \in Upto(n)
      PROVE  \A i \in Nat : i <= m /\ i <= n => g[i] = h[i]
  <2>. DEFINE Same == {i \in Nat : i <= m /\ i <= n => g[i] = h[i]}
  <2>1. 0 \in Same
    OBVIOUS
  <2>2. ASSUME NEW i \in Nat, i \in Same PROVE i + 1 \in Same
    <3>1. SUFFICES ASSUME i + 1 <= m, i + 1 <= n PROVE g[i + 1] = h[i + 1]
      OBVIOUS
    <3>2. g[i] = h[i] /\ i \in 0 .. (m - 1) /\ i \in 0 .. (n - 1)
      BY <2>2, <3>1
    <3>. QED BY <3>2
  <2>3. Nat \subseteq Same
    <3>. HIDE DEF Same
    <3>. QED BY <2>1, <2>2, NatSetInduction
  <2>. QED BY <2>3
<1>. DEFINE G(n) == CHOOSE g \in Upto(n) : TRUE
            f == [n \in Nat |-> G(n)[n]]
<1>5. \A n \in Nat : G(n) \in Upto(n)
  BY <1>3
<1>6. f \in [Nat -> S] /\ f[0] = a
  <2>. HIDE DEF G
  <2>1. \A n \in Nat : G(n) \in [0 .. n -> S] /\ G(n)[0] = a
    BY <1>5
  <2>. QED BY <2>1
<1>7. ASSUME NEW n \in Nat PROVE f[n + 1] = step[n][f[n]]
  <2>. HIDE DEF G
  <2>1. G(n) \in Upto(n) /\ G(n + 1) \in Upto(n + 1)
    BY <1>5
  <2>2. G(n)[n] = G(n + 1)[n]
    <3>. HIDE DEF Upto
    <3>. QED BY <1>4, <2>1
  <2>3. G(n + 1)[n + 1] = step[n][G(n + 1)[n]]
    BY <2>1
  <2>. QED BY <2>2, <2>3
<1>8. IsIteration(f, S, a, step)
  <2>. HIDE DEF f
  <2>. QED BY <1>6, <1>7 DEF IsIteration
<1>. QED
  <2>. HIDE DEF f
  <2>. QED BY <1>8 DEF Iterated
-----------------------------------------------------------------------------
Outcomes(f, St, st, q) ==
  /\ f \in [Nat -> St] /\ f[0] = st
  /\ \A n \in 0 .. (Len(q) - 1) : f[n + 1] = NB!Applied(f[n], q[n + 1])
  /\ NB!Outcome(st, q) = f[Len(q)]

\* What a function defined by iteration on 0 .. n is.
LEMMA OutcomeSteps ==
  ASSUME NEW St, NEW Up, NEW st \in St, NEW q \in Seq(Up),
         \A s \in St : \A u \in Up : NB!Applied(s, u) \in St
  PROVE  \E f : Outcomes(f, St, st, q)
<1>. DEFINE L == Len(q)
            Solves(o) == o = [i \in 0 .. Len(q) |->
                               IF i = 0 THEN st ELSE NB!Applied(o[i - 1], q[i])]
            step == [n \in Nat |-> [s \in St |->
                       IF n < Len(q) THEN NB!Applied(s, q[n + 1]) ELSE s]]
<1>0. st \in St
  OBVIOUS
<1>1. L \in Nat /\ \A n \in 1 .. L : q[n] \in Up
  BY ONLY q \in Seq(Up)
<1>2. step \in [Nat -> [St -> St]]
  <2>1. ASSUME NEW n \in Nat, NEW s \in St
        PROVE  (IF n < Len(q) THEN NB!Applied(s, q[n + 1]) ELSE s) \in St
    <3>1. CASE n < Len(q)
      <4>1. q[n + 1] \in Up
        BY <1>1, <3>1
      <4>2. NB!Applied(s, q[n + 1]) \in St
        BY <4>1
      <4>. QED BY <4>2, <3>1
    <3>2. CASE ~(n < Len(q))
      BY <3>2
    <3>. QED BY <3>1, <3>2
  <2>. QED BY <2>1
<1>. DEFINE f == Iterated(St, st, step)
<1>16. IsIteration(f, St, st, step)
  <2>. HIDE DEF step
  <2>. QED BY <1>2, Iteration
<1>3. f \in [Nat -> St] /\ f[0] = st
  <2>. HIDE DEF f, step
  <2>. QED BY <1>16 DEF IsIteration
<1>4. \A n \in 0 .. (L - 1) : f[n + 1] = NB!Applied(f[n], q[n + 1])
  <2>1. \A n \in Nat : f[n + 1] = step[n][f[n]]
    <3>. HIDE DEF f, step
    <3>. QED BY <1>16 DEF IsIteration
  <2>2. ASSUME NEW n \in 0 .. (L - 1) PROVE f[n + 1] = NB!Applied(f[n], q[n + 1])
    <3>1. n \in Nat /\ n < L
      BY <1>1
    <3>2. f[n] \in St
      <4>. HIDE DEF f
      <4>. QED BY <1>3, <3>1
    <3>3. step[n][f[n]] = NB!Applied(f[n], q[n + 1])
      <4>. HIDE DEF f
      <4>. QED BY <3>1, <3>2
    <3>4. f[n + 1] = step[n][f[n]]
      <4>. HIDE DEF f, step
      <4>. QED BY <2>1, <3>1
    <3>. QED BY <3>3, <3>4
  <2>. QED BY <2>2
<1>. HIDE DEF f
<1>. HIDE DEF L
<1>5. Solves([i \in 0 .. L |-> f[i]])
  <2>. DEFINE g == [i \in 0 .. L |-> f[i]]
  <2>1. ASSUME NEW i \in 0 .. L PROVE g[i] = IF i = 0 THEN st ELSE NB!Applied(g[i - 1], q[i])
    <3>1. CASE i = 0
      BY <1>3, <3>1
    <3>2. CASE i # 0
      <4>1. i - 1 \in 0 .. (L - 1) /\ i - 1 \in 0 .. L /\ (i - 1) + 1 = i
        BY <1>1, <3>2
      <4>2. f[i] = NB!Applied(f[i - 1], q[i])
        BY <1>4, <4>1
      <4>. QED BY <3>2, <4>1, <4>2
    <3>. QED BY <3>1, <3>2
  <2>2. g = [i \in 0 .. L |-> IF i = 0 THEN st ELSE NB!Applied(g[i - 1], q[i])]
    <3>. DEFINE h == [i \in 0 .. L |-> IF i = 0 THEN st ELSE NB!Applied(g[i - 1], q[i])]
    <3>1. \A i \in 0 .. L : h[i] = IF i = 0 THEN st ELSE NB!Applied(g[i - 1], q[i])
      OBVIOUS
    <3>2. DOMAIN h = 0 .. L /\ DOMAIN g = 0 .. L /\ g = [i \in 0 .. L |-> g[i]] /\ h = [i \in 0 .. L |-> h[i]]
      OBVIOUS
    <3>. HIDE DEF g, h
    <3>3. \A i \in 0 .. L : g[i] = h[i]
      BY <2>1, <3>1
    <3>4. g = h BY <3>2, <3>3
    <3>. QED BY <3>4 DEF h
  <2>. QED BY <2>2 DEF L
<1>. DEFINE o == CHOOSE x : Solves(x)
<1>6. Solves(o)
  <2>. HIDE DEF Solves
  <2>. QED BY <1>5
<1>7. NB!Outcome(st, q) = o[L]
  BY DEF NB!Outcome, L
<1>8. ASSUME NEW i \in 0 .. L PROVE o[i] = IF i = 0 THEN st ELSE NB!Applied(o[i - 1], q[i])
  <2>. HIDE DEF o
  <2>. QED BY <1>6 DEF L
<1>. HIDE DEF o
<1>. DEFINE Same == {i \in Nat : i <= L => o[i] = f[i]}
<1>9. 0 \in Same
  BY <1>1, <1>3, <1>8
<1>10. ASSUME NEW i \in Nat, i \in Same PROVE i + 1 \in Same
  <2>1. SUFFICES ASSUME i + 1 <= L PROVE o[i + 1] = f[i + 1]
    OBVIOUS
  <2>2. o[i] = f[i] /\ i + 1 \in 0 .. L /\ i \in 0 .. (L - 1) /\ i + 1 # 0 /\ (i + 1) - 1 = i
    BY <1>1, <1>10, <2>1
  <2>. QED BY <1>4, <1>8, <2>2
<1>11. Nat \subseteq Same
  <2>. HIDE DEF Same
  <2>. QED BY <1>9, <1>10, NatSetInduction
<1>12. NB!Outcome(st, q) = f[L]
  BY <1>1, <1>7, <1>11
<1>. QED BY <1>3, <1>4, <1>12 DEF L, Outcomes

\* The updates take effect one after the other.
LEMMA OutcomeLaw ==
  ASSUME NEW St, NEW Up, NEW st \in St, NEW q \in Seq(Up), NEW u \in Up,
         \A s \in St : \A v \in Up : NB!Applied(s, v) \in St
  PROVE  /\ NB!Outcome(st, <<>>) = st
         /\ NB!Outcome(st, q) \in St
         /\ NB!Outcome(st, Append(q, u)) = NB!Applied(NB!Outcome(st, q), u)
<1>. DEFINE p == Append(q, u)
            L == Len(q)
<1>0. st \in St /\ q \in Seq(Up)
  OBVIOUS
<1>14. \A s \in St : \A v \in Up : NB!Applied(s, v) \in St
  OBVIOUS
<1>1. L \in Nat /\ Len(p) = L + 1 /\ p \in Seq(Up) /\ p[L + 1] = u /\ <<>> \in Seq(Up) /\ Len(<<>>) = 0
      /\ \A n \in 0 .. (L - 1) : p[n + 1] = q[n + 1]
  OBVIOUS
<1>2. NB!Outcome(st, <<>>) = st
  <2>1. PICK e : Outcomes(e, St, st, <<>>)
    BY <1>0, <1>14, <1>1, OutcomeSteps
  <2>. QED BY <1>1, <2>1 DEF Outcomes
<1>12. PICK f : Outcomes(f, St, st, q)
  BY <1>0, <1>14, OutcomeSteps
<1>13. PICK g : Outcomes(g, St, st, p)
  <2>. HIDE DEF p
  <2>. QED BY <1>0, <1>14, <1>1, OutcomeSteps
<1>. HIDE DEF p
<1>3. /\ f \in [Nat -> St] /\ f[0] = st
      /\ \A n \in 0 .. (L - 1) : f[n + 1] = NB!Applied(f[n], q[n + 1])
      /\ NB!Outcome(st, q) = f[L]
  BY <1>12 DEF Outcomes
<1>4. /\ g \in [Nat -> St] /\ g[0] = st
      /\ \A n \in 0 .. (Len(p) - 1) : g[n + 1] = NB!Applied(g[n], p[n + 1])
      /\ NB!Outcome(st, p) = g[Len(p)]
  BY <1>13 DEF Outcomes
<1>. HIDE DEF p, L
<1>. DEFINE Same == {n \in Nat : n <= L => f[n] = g[n]}
<1>5. 0 \in Same
  BY <1>3, <1>4
<1>6. ASSUME NEW n \in Nat, n \in Same PROVE n + 1 \in Same
  <2>1. SUFFICES ASSUME n + 1 <= L PROVE f[n + 1] = g[n + 1]
    OBVIOUS
  <2>2. f[n] = g[n] /\ n \in 0 .. (L - 1) /\ n \in 0 .. (Len(p) - 1)
    BY <1>1, <1>6, <2>1
  <2>3. f[n + 1] = NB!Applied(f[n], q[n + 1]) /\ g[n + 1] = NB!Applied(g[n], p[n + 1])
    BY <1>3, <1>4, <2>2 DEF L
  <2>4. p[n + 1] = q[n + 1]
    BY <1>1, <2>2
  <2>. QED BY <2>2, <2>3, <2>4
<1>7. Nat \subseteq Same
  <2>. HIDE DEF Same
  <2>. QED BY <1>5, <1>6, NatSetInduction
<1>8. f[L] = g[L] /\ L \in 0 .. (Len(p) - 1)
  BY <1>1, <1>7
<1>11. NB!Outcome(st, q) = f[L]
  BY <1>3 DEF L
<1>9. g[L + 1] = NB!Applied(g[L], u)
  BY <1>1, <1>4, <1>8
<1>10. f[L] \in St
  BY <1>1, <1>3
<1>. QED BY <1>1, <1>2, <1>4, <1>8, <1>9, <1>10, <1>11 DEF p
-----------------------------------------------------------------------------
\* f[n] joins the first n of the sequences qs.
Joins(f, T, qs) ==
  /\ f \in [Nat -> Seq(T)] /\ f[0] = <<>>
  /\ \A n \in 0 .. (Len(qs) - 1) : f[n + 1] = f[n] \o qs[n + 1]
  /\ NB!FlattenSeq(qs) = f[Len(qs)]

\* FlattenSeq joins its sequences one after the other.
LEMMA FlattenSteps ==
  ASSUME NEW T, NEW qs \in Seq(Seq(T))
  PROVE  \E f : Joins(f, T, qs)
<1>. DEFINE L == Len(qs)
            Solves(o) == o = [i \in 1 .. Len(qs) |->
                               IF i = 1 THEN qs[i] ELSE o[i - 1] \o qs[i]]
            step == [n \in Nat |-> [s \in Seq(T) |->
                       IF n < Len(qs) THEN s \o qs[n + 1] ELSE s]]
<1>1. L \in Nat /\ <<>> \in Seq(T) /\ \A n \in 1 .. L : qs[n] \in Seq(T)
  OBVIOUS
<1>2. step \in [Nat -> [Seq(T) -> Seq(T)]]
  <2>1. ASSUME NEW n \in Nat, NEW s \in Seq(T)
        PROVE  (IF n < Len(qs) THEN s \o qs[n + 1] ELSE s) \in Seq(T)
    <3>1. CASE n < Len(qs)
      <4>1. qs[n + 1] \in Seq(T)
        BY <1>1, <3>1
      <4>2. s \o qs[n + 1] \in Seq(T)
        BY <4>1, ConcatProperties
      <4>. QED BY <4>2, <3>1
    <3>2. CASE ~(n < Len(qs))
      BY <3>2
    <3>. QED BY <3>1, <3>2
  <2>. QED BY <2>1
<1>. DEFINE f == Iterated(Seq(T), <<>>, step)
<1>3. IsIteration(f, Seq(T), <<>>, step)
  <2>. HIDE DEF step
  <2>. QED BY <1>1, <1>2, Iteration
<1>4. f \in [Nat -> Seq(T)] /\ f[0] = <<>>
  <2>. HIDE DEF f, step
  <2>. QED BY <1>3 DEF IsIteration
<1>5. \A n \in 0 .. (L - 1) : f[n + 1] = f[n] \o qs[n + 1]
  <2>1. \A n \in Nat : f[n + 1] = step[n][f[n]]
    <3>. HIDE DEF f, step
    <3>. QED BY <1>3 DEF IsIteration
  <2>2. ASSUME NEW n \in 0 .. (L - 1) PROVE f[n + 1] = f[n] \o qs[n + 1]
    <3>1. n \in Nat /\ n < L
      BY <1>1
    <3>2. f[n] \in Seq(T)
      <4>. HIDE DEF f
      <4>. QED BY <1>4, <3>1
    <3>3. step[n][f[n]] = f[n] \o qs[n + 1]
      <4>. HIDE DEF f
      <4>. QED BY <3>1, <3>2
    <3>4. f[n + 1] = step[n][f[n]]
      <4>. HIDE DEF f, step
      <4>. QED BY <2>1, <3>1
    <3>. QED BY <3>3, <3>4
  <2>. QED BY <2>2
<1>. HIDE DEF f, L
<1>6. Solves([i \in 1 .. L |-> f[i]])
  <2>. DEFINE g == [i \in 1 .. L |-> f[i]]
  <2>1. ASSUME NEW i \in 1 .. L PROVE g[i] = IF i = 1 THEN qs[i] ELSE g[i - 1] \o qs[i]
    <3>1. i - 1 \in 0 .. (L - 1) /\ (i - 1) + 1 = i /\ qs[i] \in Seq(T)
      BY <1>1
    <3>2. f[i] = f[i - 1] \o qs[i]
      BY <1>5, <3>1
    <3>3. CASE i = 1
      <4>1. <<>> \o qs[i] = qs[i]
        BY <3>1, ConcatEmptySeq
      <4>2. i - 1 = 0 /\ f[0] = <<>> /\ g[i] = f[i]
        BY <1>4, <3>3
      <4>3. f[i] = qs[i]
        BY <3>2, <4>1, <4>2
      <4>. QED BY <3>3, <4>2, <4>3
    <3>4. CASE i # 1
      <4>1. i - 1 \in 1 .. L
        BY <1>1, <3>4
      <4>. QED BY <3>2, <3>4, <4>1
    <3>. QED BY <3>3, <3>4
  <2>2. g = [i \in 1 .. L |-> IF i = 1 THEN qs[i] ELSE g[i - 1] \o qs[i]]
    <3>. DEFINE h == [i \in 1 .. L |-> IF i = 1 THEN qs[i] ELSE g[i - 1] \o qs[i]]
    <3>1. \A i \in 1 .. L : h[i] = IF i = 1 THEN qs[i] ELSE g[i - 1] \o qs[i]
      OBVIOUS
    <3>2. DOMAIN h = 1 .. L /\ DOMAIN g = 1 .. L /\ g = [i \in 1 .. L |-> g[i]] /\ h = [i \in 1 .. L |-> h[i]]
      OBVIOUS
    <3>. HIDE DEF g, h
    <3>3. \A i \in 1 .. L : g[i] = h[i]
      BY <2>1, <3>1
    <3>4. g = h
      BY <3>2, <3>3
    <3>. QED BY <3>4 DEF h
  <2>. QED BY <2>2 DEF L
<1>. DEFINE o == CHOOSE x : Solves(x)
<1>7. Solves(o)
  <2>. HIDE DEF Solves
  <2>. QED BY <1>6
<1>8. NB!FlattenSeq(qs) = IF L = 0 THEN qs ELSE o[L]
  BY DEF NB!FlattenSeq, L
<1>9. ASSUME NEW i \in 1 .. L PROVE o[i] = IF i = 1 THEN qs[i] ELSE o[i - 1] \o qs[i]
  <2>. HIDE DEF o
  <2>. QED BY <1>7 DEF L
<1>. HIDE DEF o
<1>. DEFINE Same == {i \in Nat : 1 <= i /\ i <= L => o[i] = f[i]}
<1>10. 0 \in Same
  OBVIOUS
<1>11. ASSUME NEW i \in Nat, i \in Same PROVE i + 1 \in Same
  <2>1. SUFFICES ASSUME i + 1 <= L PROVE o[i + 1] = f[i + 1]
    OBVIOUS
  <2>2. i + 1 \in 1 .. L /\ i \in 0 .. (L - 1) /\ (i + 1) - 1 = i
    BY <1>1, <2>1
  <2>3. f[i + 1] = f[i] \o qs[i + 1] /\ qs[i + 1] \in Seq(T)
    BY <1>1, <1>5, <2>2
  <2>4. CASE i = 0
    <3>1. o[i + 1] = qs[i + 1]
      BY <1>9, <2>2, <2>4
    <3>2. <<>> \o qs[i + 1] = qs[i + 1]
      BY <2>3, ConcatEmptySeq
    <3>. QED BY <1>4, <2>3, <2>4, <3>1, <3>2
  <2>5. CASE i # 0
    <3>0. o[i + 1] = IF i + 1 = 1 THEN qs[i + 1] ELSE o[(i + 1) - 1] \o qs[i + 1]
      BY <1>9, <2>2
    <3>1. o[i + 1] = o[i] \o qs[i + 1]
      <4>1. i + 1 # 1
        BY <2>5
      <4>2. o[(i + 1) - 1] = o[i]
        BY <2>2
      <4>. QED BY <3>0, <4>1, <4>2
    <3>2. o[i] = f[i]
      BY <1>1, <1>11, <2>1, <2>5
    <3>. QED BY <2>3, <3>1, <3>2
  <2>. QED BY <2>4, <2>5
<1>12. Nat \subseteq Same
  <2>. HIDE DEF Same
  <2>. QED BY <1>10, <1>11, NatSetInduction
<1>13. NB!FlattenSeq(qs) = f[L]
  <2>1. CASE L = 0
    <3>1. qs = <<>>
      BY <2>1 DEF L
    <3>. QED BY <1>4, <1>8, <2>1, <3>1
  <2>2. CASE L # 0
    BY <1>1, <1>8, <1>12, <2>2
  <2>. QED BY <2>1, <2>2
<1>14. Joins(f, T, qs)
  BY <1>4, <1>5, <1>13 DEF L, Joins
<1>. QED BY <1>14

\* It gives a sequence, and its first sequence comes first.
LEMMA FlattenLaw ==
  ASSUME NEW T, NEW qs \in Seq(Seq(T)), NEW q \in Seq(T)
  PROVE  /\ NB!FlattenSeq(<<>>) = <<>>
         /\ NB!FlattenSeq(qs) \in Seq(T)
         /\ NB!FlattenSeq(<<q>> \o qs) = q \o NB!FlattenSeq(qs)
<1>. DEFINE p == <<q>> \o qs
            L == Len(qs)
<1>1. p \in Seq(Seq(T)) /\ Len(p) = L + 1 /\ L \in Nat /\ p[1] = q
      /\ \A n \in 1 .. L : p[n + 1] = qs[n] /\ qs[n] \in Seq(T)
  OBVIOUS
<1>2. NB!FlattenSeq(<<>>) = <<>>
  BY DEF NB!FlattenSeq
<1>3. PICK f : Joins(f, T, qs)
  BY FlattenSteps
<1>4. PICK g : Joins(g, T, p)
  <2>. HIDE DEF p
  <2>. QED BY <1>1, FlattenSteps
<1>. HIDE DEF p
<1>5. /\ f \in [Nat -> Seq(T)] /\ f[0] = <<>>
      /\ \A n \in 0 .. (L - 1) : f[n + 1] = f[n] \o qs[n + 1]
      /\ NB!FlattenSeq(qs) = f[L]
  BY <1>3 DEF Joins
<1>6. /\ g \in [Nat -> Seq(T)] /\ g[0] = <<>>
      /\ \A n \in 0 .. L : g[n + 1] = g[n] \o p[n + 1]
      /\ NB!FlattenSeq(p) = g[L + 1]
  <2>1. 0 .. (Len(p) - 1) = 0 .. L
    BY <1>1
  <2>2. Len(p) = L + 1
    BY <1>1
  <2>. HIDE DEF L
  <2>. QED BY <1>4, <2>1, <2>2 DEF Joins
<1>. HIDE DEF L
<1>. DEFINE Same == {n \in Nat : n <= L => g[n + 1] = q \o f[n]}
<1>7. 0 \in Same
  <2>1. g[0 + 1] = g[0] \o p[0 + 1] /\ 0 + 1 = 1
    <3>1. 0 \in 0 .. L
      BY <1>1
    <3>2. g[0 + 1] = g[0] \o p[0 + 1]
      BY <1>6, <3>1
    <3>. QED BY <3>2
  <2>2. <<>> \o q = q /\ q \o <<>> = q
    BY ConcatEmptySeq
  <2>. QED BY <1>1, <1>5, <1>6, <2>1, <2>2
<1>8. ASSUME NEW n \in Nat, n \in Same PROVE n + 1 \in Same
  <2>1. SUFFICES ASSUME n + 1 <= L PROVE g[(n + 1) + 1] = q \o f[n + 1]
    OBVIOUS
  <2>2. n \in 0 .. (L - 1) /\ n + 1 \in 1 .. L /\ n + 1 \in 0 .. L
    BY <1>1, <2>1
  <2>3. g[n + 1] = q \o f[n]
    BY <1>1, <1>8, <2>1
  <2>30. g[(n + 1) + 1] = g[n + 1] \o p[(n + 1) + 1]
    BY <1>6, <2>2
  <2>4. p[(n + 1) + 1] = qs[n + 1] /\ qs[n + 1] \in Seq(T) /\ f[n] \in Seq(T)
    BY <1>1, <1>5, <2>2
  <2>5. f[n + 1] = f[n] \o qs[n + 1]
    BY <1>5, <2>2
  <2>6. (q \o f[n]) \o qs[n + 1] = q \o (f[n] \o qs[n + 1])
    <3>. DEFINE x == f[n]
                y == qs[n + 1]
    <3>1. x \in Seq(T) /\ y \in Seq(T)
      BY <2>4
    <3>2. (q \o x) \o y = q \o (x \o y)
      <4>. HIDE DEF x, y
      <4>. QED BY <3>1, ConcatAssociative
    <3>. QED BY <3>2
  <2>. QED BY <2>3, <2>30, <2>4, <2>5, <2>6
<1>9. Nat \subseteq Same
  <2>. HIDE DEF Same
  <2>. QED BY <1>7, <1>8, NatSetInduction
<1>10. g[L + 1] = q \o f[L]
  <2>1. L \in Same
    <3>. HIDE DEF Same
    <3>. QED BY <1>1, <1>9
  <2>. QED BY <1>1, <2>1
<1>11. f[L] \in Seq(T)
  BY <1>1, <1>5
<1>. QED BY <1>2, <1>5, <1>6, <1>10, <1>11 DEF p

\* What is left of qs from the at-th on, joined.
From(qs, at) == NB!FlattenSeq(SubSeq(qs, at, Len(qs)))

\* The queues from the first one on are all of them, and each place adds its own.
LEMMA FromLaw ==
  ASSUME NEW T, NEW qs \in Seq(Seq(T))
  PROVE  /\ From(qs, 1) = NB!FlattenSeq(qs)
         /\ \A at \in Nat \ {0} : From(qs, at) \in Seq(T)
         /\ \A at \in Nat \ {0} : at > Len(qs) => From(qs, at) = <<>>
         /\ \A at \in 1 .. Len(qs) : From(qs, at) = qs[at] \o From(qs, at + 1)
<1>1. Len(qs) \in Nat /\ \A n \in 1 .. Len(qs) : qs[n] \in Seq(T)
  OBVIOUS
<1>2. From(qs, 1) = NB!FlattenSeq(qs)
  BY SubSeqFull DEF From
<1>3. ASSUME NEW at \in Nat \ {0} PROVE SubSeq(qs, at, Len(qs)) \in Seq(Seq(T))
  <2>1. \A i \in at .. Len(qs) : qs[i] \in Seq(T)
    BY <1>1
  <2>. QED BY <1>1, <2>1, SubSeqProperties
<1>4. ASSUME NEW at \in Nat \ {0} PROVE From(qs, at) \in Seq(T)
  <2>. DEFINE s == SubSeq(qs, at, Len(qs))
  <2>1. s \in Seq(Seq(T)) /\ <<>> \in Seq(T)
    BY <1>3
  <2>2. NB!FlattenSeq(s) \in Seq(T)
    <3>. HIDE DEF s
    <3>. QED BY <2>1, FlattenLaw
  <2>. QED BY <2>2 DEF From
<1>5. ASSUME NEW at \in Nat \ {0}, at > Len(qs) PROVE From(qs, at) = <<>>
  <2>1. SubSeq(qs, at, Len(qs)) = <<>>
    BY <1>1, <1>5, SubSeqEmpty
  <2>. QED BY <2>1 DEF From, NB!FlattenSeq
<1>6. ASSUME NEW at \in 1 .. Len(qs) PROVE From(qs, at) = qs[at] \o From(qs, at + 1)
  <2>1. SubSeq(qs, at, Len(qs)) = <<qs[at]>> \o SubSeq(qs, at + 1, Len(qs))
    BY <1>1, SubSeqRecursiveFirst
  <2>2. at + 1 \in Nat \ {0} /\ qs[at] \in Seq(T)
    BY <1>1
  <2>3. SubSeq(qs, at + 1, Len(qs)) \in Seq(Seq(T))
    BY <1>3, <2>2
  <2>4. NB!FlattenSeq(<<qs[at]>> \o SubSeq(qs, at + 1, Len(qs)))
          = qs[at] \o NB!FlattenSeq(SubSeq(qs, at + 1, Len(qs)))
    BY <2>2, <2>3, FlattenLaw
  <2>. QED BY <2>1, <2>4 DEF From
<1>. QED BY <1>2, <1>4, <1>5, <1>6
-----------------------------------------------------------------------------
\* The abstract specification is about the same design.
LEMMA SameDesign ==
  /\ \A s : NB!Operands(s) = Operands(s)
  /\ \A v : NB!True(v) <=> True(v)
  /\ \A s : NB!OutOfRange(s) <=> OutOfRange(s)
  /\ \A v, n : NB!Fit(v, n) = Fit(v, n)
  /\ \A o, h, l, v : NB!Patched(o, h, l, v) = Patched(o, h, l, v)
  /\ NB!Cell = Cell
<1>1. \A s : NB!Operands(s) = Operands(s)
  BY DEF NB!Operands, Operands
<1>2. \A v : NB!True(v) <=> True(v)
  BY DEF NB!True, True
<1>3. \A s : NB!OutOfRange(s) <=> OutOfRange(s)
  BY DEF NB!OutOfRange, OutOfRange
<1>4. \A v, n : NB!Fit(v, n) = Fit(v, n)
  BY DEF NB!Fit, Fit
<1>5. \A o, h, l, v : NB!Patched(o, h, l, v) = Patched(o, h, l, v)
  BY DEF NB!Patched, Patched, NB!Field, Field
<1>6. NB!Cell = Cell
  BY DEF NB!Cell, Cell
<1>. QED BY <1>1, <1>2, <1>3, <1>4, <1>5, <1>6

\* What each kind of statement queues.
Copies(b, k, var, lo, hi, g) ==
  [i \in 1 .. hi - lo |-> g[b][[k EXCEPT ![var] = lo + i - 1]]]

\* The queue of a statement, kind by kind.
LEMMA QueuedCases ==
  ASSUME NEW s, NEW st, NEW g
  PROVE  LET q == NB!Queued(s, st, g)
             V(e) == Eval(e, st) IN
         /\ (\E e \in Operands(s) : Fails(e, st)) => q = NB!Failure("eval")
         /\ (\A e \in Operands(s) : ~Fails(e, st)) =>
              /\ s.kind \in {"default", "assign"} =>
                   q = <<[to |-> "reg", reg |-> s.reg, value |-> V(s.val)]>>
              /\ s.kind = "patch" =>
                   /\ OutOfRange(s) => q = NB!Failure("index")
                   /\ ~OutOfRange(s) =>
                        q = <<[to |-> "bits", reg |-> s.reg, hi |-> s.hi, lo |-> s.lo,
                               value |-> V(s.val)]>>
              /\ s.kind = "memWrite" =>
                   /\ <<s.mem, V(s.addr)>> \notin Cell => q = <<>>
                   /\ <<s.mem, V(s.addr)>> \in Cell =>
                        q = <<[to |-> "cell", cell |-> <<s.mem, V(s.addr)>>,
                               value |-> V(s.val)]>>
              /\ s.kind = "loop" =>
                   /\ V(s.hi) - V(s.lo) > RepeatBudget => q = NB!Failure("budget")
                   /\ ~(V(s.hi) - V(s.lo) > RepeatBudget) =>
                        q = NB!FlattenSeq(Copies(s.body, st.known, s.var, V(s.lo), V(s.hi), g))
              /\ s.kind = "if" => q = g[IF True(V(s.cond)) THEN s.then ELSE s.els][st.known]
              /\ s.kind = "assert" =>
                   /\ True(V(s.cond)) => q = <<>>
                   /\ ~True(V(s.cond)) => q = NB!Failure("assert")
              /\ s.kind = "cover" =>
                   /\ True(V(s.cond)) => q = <<[to |-> "hit", id |-> s.id]>>
                   /\ ~True(V(s.cond)) => q = <<>>
<1>. DEFINE q == NB!Queued(s, st, g)
<1>1. CASE \E e \in Operands(s) : Fails(e, st)
  BY <1>1, SameDesign DEF NB!Queued
<1>2. CASE \A e \in Operands(s) : ~Fails(e, st)
  <2>0. ~ \E e \in NB!Operands(s) : Fails(e, st)
    BY <1>2, SameDesign
  <2>1. CASE s.kind \in {"default", "assign"}
    BY <2>0, <2>1, <1>2 DEF NB!Queued
  <2>2. CASE s.kind = "patch"
    BY <2>0, <2>2, <1>2, SameDesign DEF NB!Queued
  <2>3. CASE s.kind = "memWrite"
    BY <2>0, <2>3, <1>2, SameDesign DEF NB!Queued
  <2>4. CASE s.kind = "loop"
    BY <2>0, <2>4, <1>2 DEF NB!Queued, Copies
  <2>5. CASE s.kind = "if"
    BY <2>0, <2>5, <1>2, SameDesign DEF NB!Queued
  <2>6. CASE s.kind = "assert"
    BY <2>0, <2>6, <1>2, SameDesign DEF NB!Queued
  <2>7. CASE s.kind = "cover"
    BY <2>0, <2>7, <1>2, SameDesign DEF NB!Queued
  <2>8. CASE s.kind \notin {"default", "assign", "patch", "memWrite", "loop", "if", "assert", "cover"}
    BY <2>8, <1>2
  <2>. QED BY <2>1, <2>2, <2>3, <2>4, <2>5, <2>6, <2>7, <2>8
<1>. QED BY <1>1, <1>2

\* The updates that take effect, and those that stop the edge.
Effect ==
       [to : {"reg"}, reg : Reg, value : Int]
  \cup {u \in [to : {"bits"}, reg : Reg, hi : Int, lo : Int, value : Int] : ~OutOfRange(u)}
  \cup [to : {"cell"}, cell : Cell, value : Int]
  \cup [to : {"hit"}, id : Cover]
Refusal == [to : {"error"}, why : {"eval", "index", "budget", "assert"}]
Update  == Effect \cup Refusal
Tables  == [Body -> [KnownState -> Seq(Update)]]

\* The queue of a failure is one of updates.
LEMMA FailureType ==
  ASSUME NEW why \in {"eval", "index", "budget", "assert"}
  PROVE  NB!Failure(why) \in Seq(Update)
<1>1. [to |-> "error", why |-> why] \in Update
  BY DEF Update, Refusal
<1>. DEFINE u == [to |-> "error", why |-> why]
<1>2. <<u>> \in Seq(Update)
  <2>. HIDE DEF u
  <2>1. u \in Update
    BY <1>1 DEF u
  <2>. QED BY <2>1
<1>. QED BY <1>2 DEF NB!Failure

\* The queue of an unrolled loop is one of updates.
LEMMA CopiesType ==
  ASSUME NEW b \in Body, NEW k \in KnownState, NEW var \in Var, NEW g \in Tables,
         NEW lo \in 0 .. MaxBound, NEW hi \in 0 .. MaxBound
  PROVE  /\ Copies(b, k, var, lo, hi, g) \in Seq(Seq(Update))
         /\ Len(Copies(b, k, var, lo, hi, g)) = IF lo < hi THEN hi - lo ELSE 0
         /\ \A i \in 1 .. hi - lo : Copies(b, k, var, lo, hi, g)[i]
                                      = g[b][[k EXCEPT ![var] = lo + i - 1]]
<1>0. MaxBound \in Nat
  BY SignalAssumption
<1>1. ASSUME NEW i \in 1 .. hi - lo
      PROVE  g[b][[k EXCEPT ![var] = lo + i - 1]] \in Seq(Update)
  <2>1. lo + i - 1 \in 0 .. MaxBound
    BY <1>0
  <2>2. [k EXCEPT ![var] = lo + i - 1] \in KnownState
    BY <2>1 DEF KnownState
  <2>. QED BY <2>2 DEF Tables
<1>. DEFINE c == Copies(b, k, var, lo, hi, g)
            n == IF lo < hi THEN hi - lo ELSE 0
<1>2. n \in Nat /\ 1 .. hi - lo = 1 .. n
  BY <1>0
<1>3. c = [i \in 1 .. n |-> g[b][[k EXCEPT ![var] = lo + i - 1]]]
  BY <1>2 DEF Copies
<1>4. c \in [1 .. n -> Seq(Update)] /\ \A i \in 1 .. hi - lo : c[i] = g[b][[k EXCEPT ![var] = lo + i - 1]]
  <2>. HIDE DEF n
  <2>1. \A i \in 1 .. n : g[b][[k EXCEPT ![var] = lo + i - 1]] \in Seq(Update)
    BY <1>1, <1>2
  <2>. HIDE DEF c
  <2>. QED BY <1>2, <1>3, <2>1
<1>5. c \in Seq(Seq(Update)) /\ Len(c) = n
  <2>. HIDE DEF c, n
  <2>. QED BY <1>2, <1>4
<1>. QED BY <1>4, <1>5

\* The queue of a statement is one of updates.
LEMMA QueuedType ==
  ASSUME NEW s \in Statement, NEW st \in EvalState, NEW g \in Tables
  PROVE  NB!Queued(s, st, g) \in Seq(Update)
<1>. DEFINE V(e) == Eval(e, st)
            q == NB!Queued(s, st, g)
<1>1. \A e \in Expr : V(e) \in Int
  BY EvalAssumption
<1>2. /\ \A e \in BoundExpr : V(e) \in 0 .. MaxBound
      /\ \A e \in AddrExpr : V(e) \in Address
  BY EvalAssumption
<1>3. CASE \E e \in Operands(s) : Fails(e, st)
  BY <1>3, QueuedCases, FailureType
<1>4. CASE \A e \in Operands(s) : ~Fails(e, st)
  <2>0. <<>> \in Seq(Update) /\ \A u \in Update : <<u>> \in Seq(Update)
    OBVIOUS
  <2>1. CASE s.kind \in {"default", "assign"}
    <3>. DEFINE u == [to |-> "reg", reg |-> s.reg, value |-> V(s.val)]
    <3>1. s.reg \in Reg /\ V(s.val) \in Int
      BY <1>1, <2>1, FieldTypes
    <3>2. u \in Update
      BY <3>1 DEF Update, Effect
    <3>3. q = <<u>>
      BY <1>4, <2>1, QueuedCases
    <3>. HIDE DEF u, q
    <3>. QED BY <2>0, <3>2, <3>3 DEF q
  <2>2. CASE s.kind = "patch"
    <3>. DEFINE u == [to |-> "bits", reg |-> s.reg, hi |-> s.hi, lo |-> s.lo, value |-> V(s.val)]
    <3>1. s.reg \in Reg /\ V(s.val) \in Int /\ s.hi \in Int /\ s.lo \in Int
      BY <1>1, <2>2, FieldTypes
    <3>2. CASE OutOfRange(s)
      BY <1>4, <2>2, <3>2, QueuedCases, FailureType
    <3>3. CASE ~OutOfRange(s)
      <4>0. ~OutOfRange(u)
        BY <3>3 DEF OutOfRange
      <4>1. u \in Update
        BY <3>1, <4>0 DEF Update, Effect
      <4>2. q = <<u>>
        BY <1>4, <2>2, <3>3, QueuedCases
      <4>. HIDE DEF u, q
      <4>. QED BY <2>0, <4>1, <4>2 DEF q
    <3>. QED BY <3>2, <3>3
  <2>3. CASE s.kind = "memWrite"
    <3>. DEFINE u == [to |-> "cell", cell |-> <<s.mem, V(s.addr)>>, value |-> V(s.val)]
    <3>1. V(s.val) \in Int
      BY <1>1, <2>3, FieldTypes
    <3>2. CASE <<s.mem, V(s.addr)>> \notin Cell
      BY <1>4, <2>0, <2>3, <3>2, QueuedCases
    <3>3. CASE <<s.mem, V(s.addr)>> \in Cell
      <4>1. u \in Update
        BY <3>1, <3>3 DEF Update, Effect
      <4>2. q = <<u>>
        BY <1>4, <2>3, <3>3, QueuedCases
      <4>. HIDE DEF u, q
      <4>. QED BY <2>0, <4>1, <4>2 DEF q
    <3>. QED BY <3>2, <3>3
  <2>4. CASE s.kind = "loop"
    <3>1. s.body \in Body /\ s.var \in Var /\ V(s.lo) \in 0 .. MaxBound
          /\ V(s.hi) \in 0 .. MaxBound
      BY <1>2, <2>4, FieldTypes
    <3>2. CASE V(s.hi) - V(s.lo) > RepeatBudget
      BY <1>4, <2>4, <3>2, QueuedCases, FailureType
    <3>3. CASE ~(V(s.hi) - V(s.lo) > RepeatBudget)
      <4>. DEFINE c == Copies(s.body, st.known, s.var, V(s.lo), V(s.hi), g)
      <4>1. st.known \in KnownState
        BY DEF EvalState
      <4>2. c \in Seq(Seq(Update))
        BY <3>1, <4>1, CopiesType
      <4>3. q = NB!FlattenSeq(c)
        BY <1>4, <2>4, <3>3, QueuedCases
      <4>. HIDE DEF c, q
      <4>4. q \in Seq(Update)
        BY <2>0, <4>2, <4>3, FlattenLaw
      <4>. QED BY <4>4 DEF q
    <3>. QED BY <3>2, <3>3
  <2>5. CASE s.kind = "if"
    <3>1. s.then \in Body /\ s.els \in Body /\ st.known \in KnownState
      BY <2>5, FieldTypes DEF EvalState
    <3>2. q = g[IF True(V(s.cond)) THEN s.then ELSE s.els][st.known]
      BY <1>4, <2>5, QueuedCases
    <3>. HIDE DEF q
    <3>3. q \in Seq(Update)
      BY <3>1, <3>2 DEF Tables
    <3>. QED BY <3>3 DEF q
  <2>6. CASE s.kind = "assert"
    BY <1>4, <2>0, <2>6, QueuedCases, FailureType
  <2>7. CASE s.kind = "cover"
    <3>. DEFINE u == [to |-> "hit", id |-> s.id]
    <3>1. u \in Update
      BY <2>7, FieldTypes DEF Update, Effect
    <3>2. q = <<>> \/ q = <<u>>
      BY <1>4, <2>7, QueuedCases
    <3>. HIDE DEF u, q
    <3>. QED BY <2>0, <3>1, <3>2 DEF q
  <2>8. s.kind \in {"default", "assign", "patch", "memWrite", "loop", "if", "assert", "cover"}
    BY DEF Statement
  <2>. QED BY <2>1, <2>2, <2>3, <2>4, <2>5, <2>6, <2>7, <2>8
<1>. QED BY <1>3, <1>4

\* Two tables that agree on the lists inside a statement give it the same updates.
LEMMA QueuedSame ==
  ASSUME NEW s, NEW st, NEW g, NEW h,
         s.kind = "if" => g[s.then] = h[s.then] /\ g[s.els] = h[s.els],
         s.kind = "loop" => g[s.body] = h[s.body]
  PROVE  NB!Queued(s, st, g) = NB!Queued(s, st, h)
<1>. DEFINE V(e) == Eval(e, st)
<1>1. CASE \E e \in Operands(s) : Fails(e, st)
  BY <1>1, QueuedCases
<1>2. CASE \A e \in Operands(s) : ~Fails(e, st)
  <2>1. CASE s.kind = "loop"
    <3>1. Copies(s.body, st.known, s.var, V(s.lo), V(s.hi), g)
            = Copies(s.body, st.known, s.var, V(s.lo), V(s.hi), h)
      BY <2>1 DEF Copies
    <3>2. CASE V(s.hi) - V(s.lo) > RepeatBudget
      BY <1>2, <2>1, <3>2, QueuedCases
    <3>3. CASE ~(V(s.hi) - V(s.lo) > RepeatBudget)
      <4>. DEFINE c(t) == Copies(s.body, st.known, s.var, V(s.lo), V(s.hi), t)
      <4>1. NB!Queued(s, st, g) = NB!FlattenSeq(c(g))
        BY <1>2, <2>1, <3>3, QueuedCases
      <4>2. NB!Queued(s, st, h) = NB!FlattenSeq(c(h))
        BY <1>2, <2>1, <3>3, QueuedCases
      <4>. QED BY <3>1, <4>1, <4>2
    <3>. QED BY <3>2, <3>3
  <2>2. CASE s.kind = "if"
    <3>1. NB!Queued(s, st, g) = g[IF True(V(s.cond)) THEN s.then ELSE s.els][st.known]
      BY <1>2, <2>2, QueuedCases
    <3>2. NB!Queued(s, st, h) = h[IF True(V(s.cond)) THEN s.then ELSE s.els][st.known]
      BY <1>2, <2>2, QueuedCases
    <3>. QED BY <2>2, <3>1, <3>2
  <2>3. CASE s.kind \notin {"if", "loop"}
    BY <1>2, <2>3, SameDesign DEF NB!Queued
  <2>. QED BY <2>1, <2>2, <2>3
<1>. QED BY <1>1, <1>2
-----------------------------------------------------------------------------
\* What a pass queues for a statement, and for all those of a list.
Share(s, st, g, pass) ==
  IF (s.kind = "default") <=> (pass = "defaults") THEN NB!Queued(s, st, g) ELSE <<>>
HalfSeq(b, st, g, pass) == [i \in 1 .. Len(b) |-> Share(b[i], st, g, pass)]

\* The queue of one pass over a list is one of updates.
LEMMA HalfType ==
  ASSUME NEW b \in Body, NEW st \in EvalState, NEW g \in Tables, NEW pass
  PROVE  /\ HalfSeq(b, st, g, pass) \in Seq(Seq(Update))
         /\ Len(HalfSeq(b, st, g, pass)) = Len(b)
         /\ NB!FlattenSeq(HalfSeq(b, st, g, pass)) \in Seq(Update)
<1>1. b \in Seq(Statement) /\ Len(b) \in Nat /\ \A i \in 1 .. Len(b) : b[i] \in Statement
  BY BodyAssumption
<1>2. <<>> \in Seq(Update)
  OBVIOUS
<1>. DEFINE h == HalfSeq(b, st, g, pass)
            n == Len(b)
<1>3. h \in [1 .. n -> Seq(Update)]
  <2>1. \A i \in 1 .. n : NB!Queued(b[i], st, g) \in Seq(Update)
    BY <1>1, QueuedType
  <2>. QED BY <1>2, <2>1 DEF HalfSeq, Share
<1>4. h \in Seq(Seq(Update)) /\ Len(h) = n
  <2>. HIDE DEF h
  <2>. QED BY <1>1, <1>3
<1>5. NB!FlattenSeq(h) \in Seq(Update)
  <2>. HIDE DEF h
  <2>. QED BY <1>2, <1>4, FlattenLaw
<1>. QED BY <1>4, <1>5

\* The two halves of a list are its two passes.
LEMMA HalfPass ==
  ASSUME NEW b, NEW st, NEW g
  PROVE  /\ NB!Half(b, st, g, TRUE) = NB!FlattenSeq(HalfSeq(b, st, g, "defaults"))
         /\ NB!Half(b, st, g, FALSE) = NB!FlattenSeq(HalfSeq(b, st, g, "rest"))
<1>1. NB!Half(b, st, g, TRUE) = NB!FlattenSeq(HalfSeq(b, st, g, "defaults"))
  BY DEF NB!Half, HalfSeq, Share
<1>2. NB!Half(b, st, g, FALSE) = NB!FlattenSeq(HalfSeq(b, st, g, "rest"))
  BY DEF NB!Half, HalfSeq, Share
<1>. QED BY <1>1, <1>2

\* One round of Updates: what the lists queue, those inside them as g says.
Round(st, g) ==
  [b \in Body |-> [k \in KnownState |->
     NB!Half(b, [st EXCEPT !.known = k], g, TRUE) \o NB!Half(b, [st EXCEPT !.known = k], g, FALSE)]]

\* One round of the recursion gives tables from tables.
LEMMA RoundType ==
  ASSUME NEW st \in EvalState, NEW g \in Tables
  PROVE  Round(st, g) \in Tables
<1>1. ASSUME NEW b \in Body, NEW k \in KnownState
      PROVE  NB!Half(b, [st EXCEPT !.known = k], g, TRUE)
               \o NB!Half(b, [st EXCEPT !.known = k], g, FALSE) \in Seq(Update)
  <2>. DEFINE here == [st EXCEPT !.known = k]
  <2>1. here \in EvalState
    BY DEF EvalState
  <2>. HIDE DEF here
  <2>2. NB!Half(b, here, g, TRUE) \in Seq(Update) /\ NB!Half(b, here, g, FALSE) \in Seq(Update)
    BY <2>1, HalfType, HalfPass
  <2>3. NB!Half(b, here, g, TRUE) \o NB!Half(b, here, g, FALSE) \in Seq(Update)
    BY <2>2, ConcatProperties
  <2>. QED BY <2>3 DEF here
<1>. QED BY <1>1 DEF Round, Tables

\* A round reads only the entries of the lists nested in each list.
LEMMA RoundSame ==
  ASSUME NEW st, NEW g, NEW h, NEW b \in Body,
         \A c \in Body : Nesting[c] < Nesting[b] => g[c] = h[c]
  PROVE  Round(st, g)[b] = Round(st, h)[b]
<1>1. ASSUME NEW i \in 1 .. Len(b), NEW x PROVE NB!Queued(b[i], x, g) = NB!Queued(b[i], x, h)
  <2>1. i \in DOMAIN b /\ b[i] \in Statement
    BY BodyAssumption
  <2>2. b[i].kind = "if" => b[i].then \in Body /\ b[i].els \in Body
    BY <2>1, FieldTypes
  <2>3. b[i].kind = "loop" => b[i].body \in Body
    BY <2>1, FieldTypes
  <2>4. b[i].kind = "if" => g[b[i].then] = h[b[i].then] /\ g[b[i].els] = h[b[i].els]
    BY <2>1, <2>2, BodyAssumption
  <2>5. b[i].kind = "loop" => g[b[i].body] = h[b[i].body]
    BY <2>1, <2>3, BodyAssumption
  <2>. QED BY <2>4, <2>5, QueuedSame
<1>2. ASSUME NEW x
      PROVE  NB!Half(b, x, g, TRUE) = NB!Half(b, x, h, TRUE) /\ NB!Half(b, x, g, FALSE) = NB!Half(b, x, h, FALSE)
  <2>1. \A pass : HalfSeq(b, x, g, pass) = HalfSeq(b, x, h, pass)
    BY <1>1 DEF HalfSeq, Share
  <2>. QED BY <2>1, HalfPass
<1>. DEFINE Row(f) == [k \in KnownState |-> NB!Half(b, [st EXCEPT !.known = k], f, TRUE)
                                           \o NB!Half(b, [st EXCEPT !.known = k], f, FALSE)]
<1>3. Round(st, g)[b] = Row(g) /\ Round(st, h)[b] = Row(h)
  BY DEF Round
<1>4. Row(g) = Row(h)
  BY <1>2
<1>. QED BY <1>3, <1>4

\* Updates is what one round of itself gives.
LEMMA UpdatesLaw ==
  ASSUME NEW st \in EvalState
  PROVE  /\ NB!Updates(st) \in Tables
         /\ NB!Updates(st) = Round(st, NB!Updates(st))
<1>. DEFINE none == [b \in Body |-> [k \in KnownState |-> <<>>]]
            step == [n \in Nat |-> [g \in Tables |-> Round(st, g)]]
            F == Iterated(Tables, none, step)
<1>1. none \in Tables
  <2>1. <<>> \in Seq(Update)
    OBVIOUS
  <2>. QED BY <2>1 DEF Tables
<1>2. step \in [Nat -> [Tables -> Tables]]
  BY RoundType
<1>3. IsIteration(F, Tables, none, step)
  <2>. HIDE DEF none, step
  <2>. QED BY <1>1, <1>2, Iteration
<1>4. F \in [Nat -> Tables] /\ \A n \in Nat : F[n + 1] = step[n][F[n]]
  <2>. HIDE DEF F, none, step
  <2>. QED BY <1>3 DEF IsIteration
<1>. HIDE DEF F, none
<1>5. \A n \in Nat : F[n] \in Tables /\ F[n + 1] = Round(st, F[n])
  BY <1>4
<1>. HIDE DEF step
<1>. DEFINE Stable == {n \in Nat : \A b \in Body : Nesting[b] < n => F[n][b] = F[n + 1][b]}
<1>6. 0 \in Stable
  BY BodyAssumption
<1>7. ASSUME NEW n \in Nat, n \in Stable PROVE n + 1 \in Stable
  <2>1. SUFFICES ASSUME NEW b \in Body, Nesting[b] < n + 1
                 PROVE  F[n + 1][b] = F[(n + 1) + 1][b]
    OBVIOUS
  <2>2. \A c \in Body : Nesting[c] < Nesting[b] => F[n][c] = F[n + 1][c]
    BY <1>7, <2>1, BodyAssumption
  <2>3. Round(st, F[n])[b] = Round(st, F[n + 1])[b]
    BY <2>2, RoundSame
  <2>4. F[n + 1] = Round(st, F[n]) /\ F[(n + 1) + 1] = Round(st, F[n + 1])
    BY <1>5
  <2>. QED BY <2>3, <2>4
<1>8. Nat \subseteq Stable
  <2>. HIDE DEF Stable
  <2>. QED BY <1>6, <1>7, NatSetInduction
<1>9. ASSUME NEW b \in Body, NEW m \in Nat, Nesting[b] < m
      PROVE  F[m][b] = F[Nesting[b] + 1][b]
  <2>. DEFINE Fixed == {j \in Nat : F[Nesting[b] + 1 + j][b] = F[Nesting[b] + 1][b]}
  <2>0. Nesting[b] \in Nat
    BY BodyAssumption
  <2>1. 0 \in Fixed
    BY <2>0
  <2>2. ASSUME NEW j \in Nat, j \in Fixed PROVE j + 1 \in Fixed
    <3>. DEFINE n == Nesting[b] + 1 + j
    <3>1. n \in Nat /\ Nesting[b] < n /\ Nesting[b] + 1 + (j + 1) = n + 1
      BY <2>0
    <3>2. F[n][b] = F[n + 1][b]
      <4>. HIDE DEF n
      <4>. QED BY <1>8, <3>1
    <3>. QED BY <2>2, <3>1, <3>2
  <2>3. Nat \subseteq Fixed
    <3>. HIDE DEF Fixed
    <3>. QED BY <2>1, <2>2, NatSetInduction
  <2>4. m - (Nesting[b] + 1) \in Nat /\ Nesting[b] + 1 + (m - (Nesting[b] + 1)) = m
    BY <1>9, <2>0
  <2>. QED BY <2>3, <2>4
<1>. DEFINE G == [b \in Body |-> F[Nesting[b] + 1][b]]
<1>10. G = Round(st, G)
  <2>1. ASSUME NEW b \in Body PROVE G[b] = Round(st, G)[b]
    <3>1. \A c \in Body : Nesting[c] < Nesting[b] => F[Nesting[b]][c] = G[c]
      BY <1>9, BodyAssumption
    <3>2. Round(st, F[Nesting[b]])[b] = Round(st, G)[b]
      <4>. HIDE DEF G
      <4>. QED BY <3>1, RoundSame
    <3>3. F[Nesting[b] + 1] = Round(st, F[Nesting[b]])
      BY <1>5, BodyAssumption
    <3>. QED BY <3>2, <3>3
  <2>2. DOMAIN G = Body /\ DOMAIN Round(st, G) = Body
        /\ G = [b \in Body |-> G[b]] /\ Round(st, G) = [b \in Body |-> Round(st, G)[b]]
    BY DEF Round
  <2>. HIDE DEF G
  <2>. QED BY <2>1, <2>2
<1>. HIDE DEF G
<1>. DEFINE Solves(u) == u = Round(st, u)
            U == CHOOSE u : Solves(u)
<1>11. Solves(U)
  <2>1. Solves(G)
    BY <1>10
  <2>. HIDE DEF Solves
  <2>. QED BY <2>1
<1>12. NB!Updates(st) = U
  BY DEF NB!Updates, Round, NB!KnownState, KnownState
<1>. HIDE DEF U
<1>13. U = Round(st, U)
  BY <1>11
<1>14. U \in Tables
  <2>. DEFINE Agree == {n \in Nat : \A b \in Body : Nesting[b] < n => U[b] = F[n][b]}
  <2>1. 0 \in Agree
    BY BodyAssumption
  <2>2. ASSUME NEW n \in Nat, n \in Agree PROVE n + 1 \in Agree
    <3>1. SUFFICES ASSUME NEW b \in Body, Nesting[b] < n + 1 PROVE U[b] = F[n + 1][b]
      OBVIOUS
    <3>2. \A c \in Body : Nesting[c] < Nesting[b] => U[c] = F[n][c]
      BY <2>2, <3>1, BodyAssumption
    <3>3. Round(st, U)[b] = Round(st, F[n])[b]
      BY <3>2, RoundSame
    <3>4. F[n + 1] = Round(st, F[n]) /\ U[b] = Round(st, U)[b]
      BY <1>5, <1>13
    <3>. QED BY <3>3, <3>4
  <2>3. Nat \subseteq Agree
    <3>. HIDE DEF Agree
    <3>. QED BY <2>1, <2>2, NatSetInduction
  <2>4. ASSUME NEW b \in Body PROVE U[b] \in [KnownState -> Seq(Update)]
    <3>1. Nesting[b] + 1 \in Nat /\ Nesting[b] < Nesting[b] + 1
      BY BodyAssumption
    <3>2. U[b] = F[Nesting[b] + 1][b] /\ F[Nesting[b] + 1] \in Tables
      BY <1>5, <2>3, <3>1
    <3>. QED BY <3>2 DEF Tables
  <2>5. U = [b \in Body |-> U[b]]
    <3>1. Round(st, U) = [b \in Body |-> Round(st, U)[b]]
      BY DEF Round
    <3>. QED BY <1>13, <3>1
  <2>6. [b \in Body |-> U[b]] \in Tables
    BY <2>4 DEF Tables
  <2>. QED BY <2>5, <2>6
<1>. QED BY <1>12, <1>13, <1>14
-----------------------------------------------------------------------------
Here(st, k) == [st EXCEPT !.known = k]

\* The queues of the statements of a pass over b, under the loop variables k.
Pass(b, k, st, pass) == HalfSeq(b, Here(st, k), NB!Updates(st), pass)

\* The updates that what is left of a frame will queue.
Owes(f, k, st) ==
  CASE f.pass = "defaults" -> From(Pass(f.body, k, st, "defaults"), f.at)
                                \o From(Pass(f.body, k, st, "rest"), 1)
    [] f.pass = "rest"     -> From(Pass(f.body, k, st, "rest"), f.at)
    [] f.pass = "loop"     -> NB!FlattenSeq(Copies(f.body, k, f.var, f.at, f.hi, NB!Updates(st)))
    [] f.pass = "unbind"   -> NB!FlattenSeq(Copies(f.body, [k EXCEPT ![f.var] = f.old], f.var,
                                                   f.at + 1, f.hi, NB!Updates(st)))

\* The loop variables once the frame is gone.
Under(f, k) == IF f.pass = "unbind" THEN [k EXCEPT ![f.var] = f.old] ELSE k

\* The queues of the statements of a pass, one by one.
LEMMA PassType ==
  ASSUME NEW b \in Body, NEW k \in KnownState, NEW st \in EvalState, NEW d
  PROVE  /\ Pass(b, k, st, d) \in Seq(Seq(Update)) /\ Len(Pass(b, k, st, d)) = Len(b)
         /\ \A at \in Nat \ {0} : From(Pass(b, k, st, d), at) \in Seq(Update)
         /\ \A at \in Nat \ {0} : at \notin DOMAIN b => From(Pass(b, k, st, d), at) = <<>>
         /\ \A at \in DOMAIN b : From(Pass(b, k, st, d), at)
              = Share(b[at], Here(st, k), NB!Updates(st), d)
                \o From(Pass(b, k, st, d), at + 1)
<1>. DEFINE p == Pass(b, k, st, d)
<1>1. Here(st, k) \in EvalState
  BY DEF Here, EvalState
<1>2. NB!Updates(st) \in Tables
  BY UpdatesLaw
<1>3. p \in Seq(Seq(Update)) /\ Len(p) = Len(b)
  BY <1>1, <1>2, HalfType DEF Pass
<1>4. DOMAIN b = 1 .. Len(b) /\ Len(b) \in Nat
  BY BodyAssumption
<1>5. \A at \in DOMAIN b : p[at] = Share(b[at], Here(st, k), NB!Updates(st), d)
  BY <1>4 DEF Pass, HalfSeq
<1>. HIDE DEF p
<1>6. /\ \A at \in Nat \ {0} : From(p, at) \in Seq(Update)
      /\ \A at \in Nat \ {0} : at > Len(p) => From(p, at) = <<>>
      /\ \A at \in 1 .. Len(p) : From(p, at) = p[at] \o From(p, at + 1)
  BY <1>3, FromLaw
<1>7. \A at \in Nat \ {0} : at \notin DOMAIN b => at > Len(p)
  BY <1>3, <1>4
<1>8. ASSUME NEW at \in DOMAIN b
      PROVE  From(p, at) = Share(b[at], Here(st, k), NB!Updates(st), d)
                \o From(p, at + 1)
  <2>1. at \in 1 .. Len(p)
    BY <1>3, <1>4
  <2>2. From(p, at) = p[at] \o From(p, at + 1)
    BY <1>6, <2>1
  <2>. QED BY <1>5, <2>2
<1>. QED BY <1>3, <1>6, <1>7, <1>8 DEF p

\* What is left of a pass is a queue of updates.
LEMMA FromPassType ==
  ASSUME NEW b \in Body, NEW k \in KnownState, NEW st \in EvalState, NEW pass,
         NEW at \in Nat \ {0}
  PROVE  From(Pass(b, k, st, pass), at) \in Seq(Update)
BY PassType

\* What is left of a pass at a statement is the queue of that statement and what is left after it.
LEMMA FromPassStep ==
  ASSUME NEW b \in Body, NEW k \in KnownState, NEW st \in EvalState, NEW pass,
         NEW at \in DOMAIN b
  PROVE  From(Pass(b, k, st, pass), at)
           = Share(b[at], Here(st, k), NB!Updates(st), pass)
             \o From(Pass(b, k, st, pass), at + 1)
BY PassType

\* The fields of a loop's frame.
LEMMA FrameFields ==
  ASSUME NEW f \in Frames
  PROVE  /\ f.pass \in {"defaults", "rest"} => f.body \in Body /\ f.at \in Nat \ {0}
         /\ f.pass \in {"loop", "unbind"} =>
              /\ f.body \in Body /\ f.var \in Var /\ f.at \in 0 .. MaxBound
              /\ f.hi \in 0 .. MaxBound /\ f.old \in (0 .. MaxBound) \cup {Unbound}
         /\ f.pass = "unbind" => f.at < f.hi /\ f.at + 1 \in 0 .. MaxBound
         /\ f.pass \in {"defaults", "rest", "loop", "unbind"}
<1>0. MaxBound \in Nat
  BY SignalAssumption
<1>1. CASE f \in BodyFrame
  BY <1>1 DEF BodyFrame
<1>2. CASE f \in LoopFrame
  <2>1. /\ f.pass \in {"loop", "unbind"} /\ f.body \in Body /\ f.var \in Var /\ f.at \in 0 .. MaxBound
        /\ f.hi \in 0 .. MaxBound /\ f.old \in (0 .. MaxBound) \cup {Unbound}
        /\ (f.pass = "unbind" => f.at < f.hi)
    BY <1>2 DEF LoopFrame
  <2>. QED BY <1>0, <2>1
<1>. QED BY <1>1, <1>2 DEF Frames

\* What a frame owes is a queue of updates, under loop variables that it keeps well typed.
LEMMA OwesType ==
  ASSUME NEW f \in Frames, NEW k \in KnownState, NEW st \in EvalState
  PROVE  Owes(f, k, st) \in Seq(Update) /\ Under(f, k) \in KnownState
<1>1. Under(f, k) \in KnownState
  BY FrameFields DEF Under, KnownState
<1>2. NB!Updates(st) \in Tables
  BY UpdatesLaw
<1>3. CASE f.pass = "defaults"
  <2>0. f.body \in Body /\ f.at \in Nat \ {0} /\ 1 \in Nat \ {0}
    BY <1>3, FrameFields
  <2>1. From(Pass(f.body, k, st, "defaults"), f.at) \in Seq(Update)
        /\ From(Pass(f.body, k, st, "rest"), 1) \in Seq(Update)
    BY <2>0, FromPassType
  <2>. QED BY <1>1, <1>3, <2>1, ConcatProperties DEF Owes
<1>4. CASE f.pass = "rest"
  <2>1. From(Pass(f.body, k, st, "rest"), f.at) \in Seq(Update)
    BY <1>4, FrameFields, FromPassType
  <2>. QED BY <1>1, <1>4, <2>1 DEF Owes
<1>5. ASSUME NEW j \in KnownState, NEW lo \in 0 .. MaxBound, f.pass \in {"loop", "unbind"}
      PROVE  NB!FlattenSeq(Copies(f.body, j, f.var, lo, f.hi, NB!Updates(st))) \in Seq(Update)
  <2>. DEFINE c == Copies(f.body, j, f.var, lo, f.hi, NB!Updates(st))
  <2>1. c \in Seq(Seq(Update)) /\ <<>> \in Seq(Update)
    BY <1>2, <1>5, FrameFields, CopiesType
  <2>2. NB!FlattenSeq(c) \in Seq(Update)
    <3>. HIDE DEF c
    <3>. QED BY <2>1, FlattenLaw
  <2>. QED BY <2>2
<1>6. CASE f.pass = "loop"
  BY <1>1, <1>5, <1>6, FrameFields DEF Owes
<1>7. CASE f.pass = "unbind"
  <2>1. Owes(f, k, st) = NB!FlattenSeq(Copies(f.body, Under(f, k), f.var, f.at + 1, f.hi, NB!Updates(st)))
    BY <1>7 DEF Owes, Under
  <2>. QED BY <1>1, <1>5, <1>7, <2>1, FrameFields
<1>. QED BY <1>3, <1>4, <1>6, <1>7, FrameFields

\* A frame at a statement owes what that queues and then the rest.
LEMMA OwesStatement ==
  ASSUME NEW f \in BodyFrame, NEW k \in KnownState, NEW st \in EvalState, f.at \in DOMAIN f.body
  PROVE  LET s == f.body[f.at]
             rest == Owes(Frame(f.pass, f.body, f.at + 1), k, st)
         IN  /\ ~((s.kind = "default") <=> (f.pass = "defaults")) => Owes(f, k, st) = rest
             /\ ((s.kind = "default") <=> (f.pass = "defaults")) =>
                  Owes(f, k, st) = NB!Queued(s, Here(st, k), NB!Updates(st)) \o rest
<1>. DEFINE s == f.body[f.at]
            q == NB!Queued(s, Here(st, k), NB!Updates(st))
            g == Frame(f.pass, f.body, f.at + 1)
<1>1. f.body \in Body /\ f.at \in Nat \ {0} /\ f.at + 1 \in Nat \ {0} /\ f.pass \in {"defaults", "rest"}
  BY DEF BodyFrame
<1>2. q \in Seq(Update)
  <2>1. Here(st, k) \in EvalState
    BY DEF Here, EvalState
  <2>2. s \in Statement
    BY <1>1, BodyAssumption
  <2>. QED BY <2>1, <2>2, UpdatesLaw, QueuedType
<1>3. g.pass = f.pass /\ g.body = f.body /\ g.at = f.at + 1
  BY DEF Frame
<1>. DEFINE A(d) == From(Pass(f.body, k, st, d), f.at + 1)
            W(d) == From(Pass(f.body, k, st, d), 1)
            B(d) == From(Pass(f.body, k, st, d), f.at)
            C(d) == Share(s, Here(st, k), NB!Updates(st), d)
<1>4. \A d : A(d) \in Seq(Update) /\ W(d) \in Seq(Update)
  BY <1>1, FromPassType, FromPassStep
<1>5. ASSUME NEW d PROVE B(d) = C(d) \o A(d)
  <2>. DEFINE b == f.body
              at == f.at
  <2>1. b \in Body /\ at \in DOMAIN b
    BY <1>1
  <2>. HIDE DEF b, at
  <2>2. From(Pass(b, k, st, d), at)
          = Share(b[at], Here(st, k), NB!Updates(st), d) \o From(Pass(b, k, st, d), at + 1)
    BY <2>1, FromPassStep
  <2>. QED BY ONLY <2>2, Zenon DEF b, at
<1>6. /\ f.pass = "defaults" => Owes(f, k, st) = B("defaults") \o W("rest") /\ Owes(g, k, st) = A("defaults") \o W("rest")
      /\ f.pass = "rest" => Owes(f, k, st) = B("rest") /\ Owes(g, k, st) = A("rest")
  BY ONLY <1>3, Zenon DEF Owes
<1>50. \A d : C(d) = IF (s.kind = "default") <=> (d = "defaults") THEN q ELSE <<>>
  BY DEF Share
<1>. HIDE DEF q, A, W, B, C, g
<1>7. \A d : <<>> \o A(d) = A(d)
  BY <1>4, ConcatEmptySeq
<1>8. ASSUME NEW d PROVE (q \o A(d)) \o W("rest") = q \o (A(d) \o W("rest"))
  <2>1. q \in Seq(Update) /\ A(d) \in Seq(Update) /\ W("rest") \in Seq(Update)
    BY <1>2, <1>4
  <2>. HIDE DEF A, W
  <2>. QED BY ONLY <2>1, ConcatAssociative
<1>9. CASE f.pass = "defaults"
  <2>1. CASE s.kind = "default"
    BY <1>5, <1>50, <1>6, <1>8, <1>9, <2>1 DEF g, q
  <2>2. CASE s.kind # "default"
    BY <1>5, <1>50, <1>6, <1>7, <1>9, <2>2 DEF g, q
  <2>. QED BY <2>1, <2>2
<1>10. CASE f.pass = "rest"
  <2>1. CASE s.kind = "default"
    BY <1>5, <1>50, <1>6, <1>7, <1>10, <2>1 DEF g, q
  <2>2. CASE s.kind # "default"
    BY <1>5, <1>50, <1>6, <1>10, <2>2 DEF g, q
  <2>. QED BY <2>1, <2>2
<1>. QED BY <1>1, <1>9, <1>10

\* At its end a first pass owes what the second one does, and the second one nothing.
LEMMA OwesTurn ==
  ASSUME NEW f \in BodyFrame, NEW k \in KnownState, NEW st \in EvalState, f.at \notin DOMAIN f.body
  PROVE  /\ f.pass = "defaults" => Owes(f, k, st) = Owes(Frame("rest", f.body, 1), k, st)
         /\ f.pass = "rest" => Owes(f, k, st) = <<>>
<1>1. f.body \in Body /\ f.at \in Nat \ {0}
  BY DEF BodyFrame
<1>2. \A pass : From(Pass(f.body, k, st, pass), f.at) = <<>>
  BY <1>1, PassType
<1>3. From(Pass(f.body, k, st, "rest"), 1) \in Seq(Update)
  BY <1>1, FromPassType
<1>4. <<>> \o From(Pass(f.body, k, st, "rest"), 1) = From(Pass(f.body, k, st, "rest"), 1)
  BY <1>3, ConcatEmptySeq
<1>5. Owes(Frame("rest", f.body, 1), k, st) = From(Pass(f.body, k, st, "rest"), 1)
  BY DEF Owes, Frame
<1>6. f.pass = "rest" => Owes(f, k, st) = <<>>
  BY <1>2 DEF Owes
<1>7. f.pass = "defaults" => Owes(f, k, st) = <<>> \o From(Pass(f.body, k, st, "rest"), 1)
  BY <1>2 DEF Owes
<1>. QED BY <1>4, <1>5, <1>6, <1>7

\* A list that begins owes all that it queues.
LEMMA OwesList ==
  ASSUME NEW b \in Body, NEW k \in KnownState, NEW st \in EvalState
  PROVE  Owes(Frame("defaults", b, 1), k, st) = NB!Updates(st)[b][k]
<1>. DEFINE U == NB!Updates(st)
<1>1. U = Round(st, U) /\ U \in Tables
  BY UpdatesLaw
<1>2. U[b][k] = NB!Half(b, Here(st, k), U, TRUE) \o NB!Half(b, Here(st, k), U, FALSE)
  <2>. HIDE DEF U
  <2>1. Round(st, U)[b][k] = NB!Half(b, Here(st, k), U, TRUE) \o NB!Half(b, Here(st, k), U, FALSE)
    BY DEF Round, Here
  <2>. QED BY <1>1, <2>1
<1>3. Here(st, k) \in EvalState
  BY DEF Here, EvalState
<1>4. \A pass : Pass(b, k, st, pass) \in Seq(Seq(Update))
  BY PassType
<1>5. \A pass : NB!FlattenSeq(Pass(b, k, st, pass)) = From(Pass(b, k, st, pass), 1)
  <2>. TAKE pass
  <2>. DEFINE p == Pass(b, k, st, pass)
  <2>1. p \in Seq(Seq(Update))
    BY <1>4
  <2>. HIDE DEF p
  <2>2. NB!FlattenSeq(p) = From(p, 1)
    BY <2>1, FromLaw
  <2>. QED BY <2>2 DEF p
<1>6. U[b][k] = NB!FlattenSeq(Pass(b, k, st, "defaults")) \o NB!FlattenSeq(Pass(b, k, st, "rest"))
  BY <1>2, HalfPass DEF Pass
<1>7. Owes(Frame("defaults", b, 1), k, st)
        = From(Pass(b, k, st, "defaults"), 1) \o From(Pass(b, k, st, "rest"), 1)
  BY DEF Owes, Frame
<1>8. /\ NB!FlattenSeq(Pass(b, k, st, "defaults")) = From(Pass(b, k, st, "defaults"), 1)
      /\ NB!FlattenSeq(Pass(b, k, st, "rest")) = From(Pass(b, k, st, "rest"), 1)
  BY <1>5
<1>. QED BY <1>6, <1>7, <1>8

\* The queues of the iterations of a loop, one by one.
LEMMA CopiesElements ==
  ASSUME NEW b \in Body, NEW k \in KnownState, NEW var \in Var, NEW g \in Tables,
         NEW lo \in 0 .. MaxBound, NEW hi \in 0 .. MaxBound
  PROVE  \A i \in 1 .. hi - lo :
           Copies(b, k, var, lo, hi, g)[i] = g[b][[k EXCEPT ![var] = lo + i - 1]]
BY DEF Copies

\* The copies of a loop: the first one and the others.
LEMMA CopiesFirst ==
  ASSUME NEW b \in Body, NEW k \in KnownState, NEW var \in Var, NEW g \in Tables,
         NEW lo \in 0 .. MaxBound, NEW hi \in 0 .. MaxBound
  PROVE  /\ lo >= hi => NB!FlattenSeq(Copies(b, k, var, lo, hi, g)) = <<>>
         /\ lo < hi => NB!FlattenSeq(Copies(b, k, var, lo, hi, g))
              = g[b][[k EXCEPT ![var] = lo]] \o NB!FlattenSeq(Copies(b, k, var, lo + 1, hi, g))
<1>0. MaxBound \in Nat
  BY SignalAssumption
<1>. DEFINE c == Copies(b, k, var, lo, hi, g)
<1>1. c \in Seq(Seq(Update)) /\ Len(c) = IF lo < hi THEN hi - lo ELSE 0
  BY CopiesType
<1>2. CASE lo >= hi
  <2>1. c = <<>>
    <3>. HIDE DEF c
    <3>1. Len(c) = 0
      BY <1>0, <1>1, <1>2
    <3>. QED BY <1>1, <3>1
  <2>2. NB!FlattenSeq(<<>>) = <<>>
    BY DEF NB!FlattenSeq
  <2>3. NB!FlattenSeq(c) = <<>>
    BY <2>1, <2>2
  <2>4. ~(lo < hi)
    BY <1>0, <1>2
  <2>. QED BY <2>3, <2>4
<1>3. CASE lo < hi
  <2>. DEFINE x == g[b][[k EXCEPT ![var] = lo]]
              d == Copies(b, k, var, lo + 1, hi, g)
  <2>1. lo + 1 \in 0 .. MaxBound
    BY <1>0, <1>3
  <2>2. d \in Seq(Seq(Update)) /\ Len(d) = IF lo + 1 < hi THEN hi - (lo + 1) ELSE 0
    BY <2>1, CopiesType
  <2>3. \A i \in 1 .. hi - (lo + 1) : d[i] = g[b][[k EXCEPT ![var] = lo + 1 + i - 1]]
    <3>. DEFINE l == lo + 1
    <3>1. l \in 0 .. MaxBound
      BY <2>1
    <3>. HIDE DEF l
    <3>2. \A i \in 1 .. hi - l : Copies(b, k, var, l, hi, g)[i] = g[b][[k EXCEPT ![var] = l + i - 1]]
      BY <3>1, CopiesElements
    <3>. QED BY <3>2 DEF l
  <2>4. \A i \in 1 .. hi - lo : c[i] = g[b][[k EXCEPT ![var] = lo + i - 1]]
    BY CopiesElements
  <2>5. Len(c) = hi - lo /\ Len(d) = hi - (lo + 1) /\ Len(c) = 1 + Len(d) /\ hi - lo \in Nat \ {0}
    <3>. HIDE DEF c, d
    <3>. QED BY <1>0, <1>1, <1>3, <2>2
  <2>6. lo + 1 - 1 = lo /\ 1 \in 1 .. hi - lo
    BY <1>0, <1>3
  <2>7. c[1] = x
    <3>. HIDE DEF c
    <3>. QED BY <2>4, <2>6
  <2>8. x \in Seq(Update)
    <3>1. [k EXCEPT ![var] = lo] \in KnownState
      BY DEF KnownState
    <3>. QED BY <3>1 DEF Tables
  <2>9. ASSUME NEW i \in 1 .. Len(d) PROVE c[i + 1] = d[i]
    <3>1. i \in 1 .. hi - (lo + 1) /\ i + 1 \in 1 .. hi - lo /\ lo + (i + 1) - 1 = lo + 1 + i - 1
      <4>. HIDE DEF c, d
      <4>. QED BY <1>0, <1>3, <2>5
    <3>2. d[i] = g[b][[k EXCEPT ![var] = lo + 1 + i - 1]]
      <4>. HIDE DEF d
      <4>. QED BY <2>3, <3>1
    <3>3. c[i + 1] = g[b][[k EXCEPT ![var] = lo + (i + 1) - 1]]
      <4>. HIDE DEF c
      <4>. QED BY <2>4, <3>1
    <3>. QED BY <3>1, <3>2, <3>3
  <2>. HIDE DEF c, d, x
  <2>10. c = <<x>> \o d
    <3>. DEFINE e == <<x>> \o d
    <3>1. e \in Seq(Seq(Update)) /\ Len(e) = 1 + Len(d) /\ e[1] = x
          /\ \A i \in 1 .. Len(d) : e[i + 1] = d[i]
      <4>1. <<x>> \in Seq(Seq(Update)) /\ Len(<<x>>) = 1 /\ <<x>>[1] = x /\ Len(d) \in Nat
        BY <2>2, <2>8
      <4>2. /\ e \in Seq(Seq(Update)) /\ Len(e) = 1 + Len(d)
            /\ \A i \in 1 .. 1 + Len(d) : e[i] = IF i <= 1 THEN <<x>>[i] ELSE d[i - 1]
        BY <2>2, <4>1, ConcatProperties
      <4>. HIDE DEF e
      <4>3. e[1] = x
        BY <4>1, <4>2
      <4>4. ASSUME NEW i \in 1 .. Len(d) PROVE e[i + 1] = d[i]
        <5>1. i + 1 \in 1 .. 1 + Len(d) /\ ~(i + 1 <= 1) /\ (i + 1) - 1 = i
          BY <4>1
        <5>. QED BY <4>2, <5>1
      <4>. QED BY <4>2, <4>3, <4>4
    <3>. HIDE DEF e
    <3>2. Len(c) = Len(e) /\ c \in Seq(Seq(Update)) /\ Len(d) \in Nat
      BY <1>1, <2>2, <2>5, <3>1
    <3>3. ASSUME NEW i \in 1 .. Len(c) PROVE c[i] = e[i]
      <4>1. CASE i = 1
        BY <2>7, <3>1, <4>1
      <4>2. CASE i # 1
        <5>1. i - 1 \in 1 .. Len(d) /\ (i - 1) + 1 = i
          BY <2>5, <3>2, <4>2
        <5>. QED BY <2>9, <3>1, <5>1
      <4>. QED BY <4>1, <4>2
    <3>4. c = e
      BY <3>1, <3>2, <3>3, SeqEqual
    <3>. QED BY <3>4 DEF e
  <2>11. NB!FlattenSeq(c) = x \o NB!FlattenSeq(d)
    BY <2>2, <2>8, <2>10, FlattenLaw
  <2>. QED BY <1>0, <1>3, <2>11 DEF c, d, x
<1>. QED BY <1>0, <1>2, <1>3

\* The frames of a loop owe its copies one after the other.
LEMMA OwesLoop ==
  ASSUME NEW f \in Frames, NEW k \in KnownState, NEW st \in EvalState
  PROVE  /\ f.pass = "loop" /\ f.at >= f.hi => Owes(f, k, st) = <<>>
         /\ f.pass = "loop" /\ f.at < f.hi =>
              LET inner == [k EXCEPT ![f.var] = f.at]
                  u == Loop("unbind", f.body, f.at, f.hi, f.var, k[f.var]) IN
              /\ Owes(f, k, st) = NB!Updates(st)[f.body][inner] \o Owes(u, inner, st)
              /\ Under(u, inner) = k
         /\ f.pass = "unbind" =>
              Owes(f, k, st) = Owes(Loop("loop", f.body, f.at + 1, f.hi, f.var, Unbound), Under(f, k), st)
<1>0. NB!Updates(st) \in Tables
  BY UpdatesLaw
<1>. DEFINE U == NB!Updates(st)
<1>1. ASSUME f.pass = "loop", f.at >= f.hi PROVE Owes(f, k, st) = <<>>
  <2>1. Owes(f, k, st) = NB!FlattenSeq(Copies(f.body, k, f.var, f.at, f.hi, U))
    BY <1>1 DEF Owes
  <2>2. f.body \in Body /\ f.var \in Var /\ f.at \in 0 .. MaxBound /\ f.hi \in 0 .. MaxBound
    BY <1>1, FrameFields
  <2>. HIDE DEF U
  <2>. QED BY <1>0, <1>1, <2>1, <2>2, CopiesFirst DEF U
<1>2. ASSUME f.pass = "loop", f.at < f.hi
      PROVE  LET inner == [k EXCEPT ![f.var] = f.at]
                 u == Loop("unbind", f.body, f.at, f.hi, f.var, k[f.var]) IN
             /\ Owes(f, k, st) = U[f.body][inner] \o Owes(u, inner, st)
             /\ Under(u, inner) = k
  <2>. DEFINE inner == [k EXCEPT ![f.var] = f.at]
              u == Loop("unbind", f.body, f.at, f.hi, f.var, k[f.var])
  <2>0. f.body \in Body /\ f.var \in Var /\ f.at \in 0 .. MaxBound /\ f.hi \in 0 .. MaxBound
    BY <1>2, FrameFields
  <2>1. u.pass = "unbind" /\ u.body = f.body /\ u.at = f.at /\ u.hi = f.hi /\ u.var = f.var
        /\ u.old = k[f.var]
    BY DEF Loop
  <2>2. [inner EXCEPT ![f.var] = k[f.var]] = k
    BY <2>0 DEF KnownState
  <2>3. Owes(f, k, st) = NB!FlattenSeq(Copies(f.body, k, f.var, f.at, f.hi, U))
    BY <1>2 DEF Owes
  <2>. HIDE DEF u, inner, U
  <2>4. Under(u, inner) = k
    BY <2>1, <2>2 DEF Under
  <2>5. Owes(u, inner, st) = NB!FlattenSeq(Copies(f.body, k, f.var, f.at + 1, f.hi, U))
    <3>1. [inner EXCEPT ![u.var] = u.old] = k
      BY ONLY <2>1, <2>2
    <3>. QED BY ONLY <2>1, <3>1, Zenon DEF Owes, U
  <2>6. NB!FlattenSeq(Copies(f.body, k, f.var, f.at, f.hi, U))
          = U[f.body][inner] \o NB!FlattenSeq(Copies(f.body, k, f.var, f.at + 1, f.hi, U))
    <3>. DEFINE b == f.body
                var == f.var
                lo == f.at
                hi == f.hi
    <3>1. b \in Body /\ var \in Var /\ lo \in 0 .. MaxBound /\ hi \in 0 .. MaxBound /\ lo < hi
          /\ U \in Tables
      BY <1>0, <1>2, <2>0 DEF U
    <3>. HIDE DEF b, var, lo, hi
    <3>2. NB!FlattenSeq(Copies(b, k, var, lo, hi, U))
            = U[b][[k EXCEPT ![var] = lo]] \o NB!FlattenSeq(Copies(b, k, var, lo + 1, hi, U))
      BY <3>1, CopiesFirst
    <3>. QED BY ONLY <3>2, Zenon DEF b, var, lo, hi, inner
  <2>7. Owes(f, k, st) = U[f.body][inner] \o Owes(u, inner, st)
    BY <2>3, <2>5, <2>6
  <2>. QED BY ONLY <2>4, <2>7, Zenon DEF u, inner
<1>3. ASSUME f.pass = "unbind"
      PROVE  Owes(f, k, st) = Owes(Loop("loop", f.body, f.at + 1, f.hi, f.var, Unbound), Under(f, k), st)
  BY <1>3 DEF Owes, Loop, Under
<1>. QED BY <1>1, <1>2, <1>3
-----------------------------------------------------------------------------
\* The loop variables and the updates left under each frame of a stack.
Follows(s, kn, rem, st, R) ==
  /\ kn \in [1 .. Len(s) + 1 -> KnownState] /\ rem \in [1 .. Len(s) + 1 -> Seq(Update)]
  /\ kn[Len(s) + 1] = [v \in Var |-> Unbound] /\ rem[Len(s) + 1] = R
  /\ \A i \in 1 .. Len(s) : /\ kn[i + 1] = Under(s[i], kn[i])
                            /\ rem[i] = Owes(s[i], kn[i], st) \o rem[i + 1]

\* Under the loop variables k the stack s still queues q, the last of it R.
Remaining(s, k, q, st, R) ==
  \E kn, rem : Follows(s, kn, rem, st, R) /\ kn[1] = k /\ rem[1] = q

\* What a stack still queues is a queue of updates.
LEMMA RemainingType ==
  ASSUME NEW s \in Seq(Frames), NEW k, NEW q, NEW st, NEW R, Remaining(s, k, q, st, R)
  PROVE  k \in KnownState /\ q \in Seq(Update)
<1>1. PICK kn, rem : Follows(s, kn, rem, st, R) /\ kn[1] = k /\ rem[1] = q
  BY DEF Remaining
<1>2. 1 \in 1 .. Len(s) + 1
  BY LenProperties
<1>. QED BY <1>1, <1>2 DEF Follows

\* The empty stack queues the blocks that have not been entered, outside of every loop.
LEMMA RemainingEmpty ==
  ASSUME NEW st, NEW R \in Seq(Update)
  PROVE  /\ Remaining(<<>>, [v \in Var |-> Unbound], R, st, R)
         /\ \A k, q : Remaining(<<>>, k, q, st, R) => q = R /\ k = [v \in Var |-> Unbound]
<1>1. Len(<<>>) = 0 /\ 1 .. 0 = {} /\ 1 .. 0 + 1 = {1} /\ 0 + 1 = 1
  OBVIOUS
<1>2. [v \in Var |-> Unbound] \in KnownState
  BY DEF KnownState
<1>3. Remaining(<<>>, [v \in Var |-> Unbound], R, st, R)
  <2>. DEFINE kn == [i \in {1} |-> [v \in Var |-> Unbound]]
              rem == [i \in {1} |-> R]
  <2>1. kn \in [{1} -> KnownState] /\ rem \in [{1} -> Seq(Update)]
        /\ kn[1] = [v \in Var |-> Unbound] /\ rem[1] = R
    BY <1>2
  <2>. HIDE DEF kn, rem
  <2>2. Follows(<<>>, kn, rem, st, R)
    BY <1>1, <2>1 DEF Follows
  <2>. QED BY <2>1, <2>2 DEF Remaining
<1>4. ASSUME NEW k, NEW q, Remaining(<<>>, k, q, st, R)
      PROVE  q = R /\ k = [v \in Var |-> Unbound]
  BY <1>1, <1>4 DEF Remaining, Follows
<1>. QED BY <1>3, <1>4

\* Pushing and popping a frame.
LEMMA RemainingPush ==
  ASSUME NEW s \in Seq(Frames), NEW f \in Frames, NEW k \in KnownState, NEW st \in EvalState,
         NEW R, NEW q, Remaining(s, Under(f, k), q, st, R)
  PROVE  Remaining(<<f>> \o s, k, Owes(f, k, st) \o q, st, R)
<1>1. PICK kn, rem : Follows(s, kn, rem, st, R) /\ kn[1] = Under(f, k) /\ rem[1] = q
  BY DEF Remaining
<1>. DEFINE t == <<f>> \o s
            n == Len(s)
            p == Owes(f, k, st) \o q
<1>2. n \in Nat /\ Len(t) = n + 1 /\ t[1] = f /\ \A i \in 1 .. n : t[i + 1] = s[i]
  BY PushElements
<1>3. p \in Seq(Update)
  BY OwesType, RemainingType, ConcatProperties
<1>. DEFINE kn2 == [i \in 1 .. n + 2 |-> IF i = 1 THEN k ELSE kn[i - 1]]
            rem2 == [i \in 1 .. n + 2 |-> IF i = 1 THEN p ELSE rem[i - 1]]
<1>4. /\ kn \in [1 .. n + 1 -> KnownState] /\ rem \in [1 .. n + 1 -> Seq(Update)]
      /\ kn[n + 1] = [v \in Var |-> Unbound] /\ rem[n + 1] = R
      /\ \A i \in 1 .. n : /\ kn[i + 1] = Under(s[i], kn[i])
                           /\ rem[i] = Owes(s[i], kn[i], st) \o rem[i + 1]
  BY <1>1 DEF Follows
<1>. HIDE DEF n, p, t
<1>5. /\ kn2 \in [1 .. n + 2 -> KnownState] /\ rem2 \in [1 .. n + 2 -> Seq(Update)]
  <2>1. \A i \in 1 .. n + 2 : i # 1 => i - 1 \in 1 .. n + 1
    BY <1>2
  <2>2. \A i \in 1 .. n + 2 : (IF i = 1 THEN k ELSE kn[i - 1]) \in KnownState
    BY <1>4, <2>1
  <2>3. \A i \in 1 .. n + 2 : (IF i = 1 THEN p ELSE rem[i - 1]) \in Seq(Update)
    BY <1>3, <1>4, <2>1
  <2>. QED BY <2>2, <2>3
<1>6. /\ 1 \in 1 .. n + 2 /\ kn2[1] = k /\ rem2[1] = p
      /\ \A i \in 1 .. n + 1 : kn2[i + 1] = kn[i] /\ rem2[i + 1] = rem[i]
  <2>1. 1 \in 1 .. n + 2
    BY <1>2
  <2>2. \A i \in 1 .. n + 1 : i + 1 \in 1 .. n + 2 /\ i + 1 # 1 /\ (i + 1) - 1 = i
    BY <1>2
  <2>. QED BY <2>1, <2>2
<1>. HIDE DEF kn2, rem2
<1>7. kn2[(n + 1) + 1] = [v \in Var |-> Unbound] /\ rem2[(n + 1) + 1] = R
  <2>1. n + 1 \in 1 .. n + 1
    BY <1>2
  <2>. QED BY <1>4, <1>6, <2>1
<1>8. ASSUME NEW i \in 1 .. n + 1
      PROVE  kn2[i + 1] = Under(t[i], kn2[i]) /\ rem2[i] = Owes(t[i], kn2[i], st) \o rem2[i + 1]
  <2>0. kn2[i + 1] = kn[i] /\ rem2[i + 1] = rem[i]
    BY <1>6
  <2>1. CASE i = 1
    BY <1>1, <1>2, <1>6, <2>0, <2>1 DEF p
  <2>2. CASE i # 1
    <3>1. i - 1 \in 1 .. n /\ i - 1 \in 1 .. n + 1 /\ (i - 1) + 1 = i
      BY <1>2, <2>2
    <3>2. t[i] = s[i - 1] /\ kn2[i] = kn[i - 1] /\ rem2[i] = rem[i - 1]
      <4>1. t[(i - 1) + 1] = s[i - 1]
        BY <1>2, <3>1
      <4>2. kn2[(i - 1) + 1] = kn[i - 1] /\ rem2[(i - 1) + 1] = rem[i - 1]
        BY <1>6, <3>1
      <4>. QED BY <3>1, <4>1, <4>2
    <3>3. kn[(i - 1) + 1] = Under(s[i - 1], kn[i - 1])
          /\ rem[i - 1] = Owes(s[i - 1], kn[i - 1], st) \o rem[(i - 1) + 1]
      BY <1>4, <3>1
    <3>. QED BY <2>0, <3>1, <3>2, <3>3
  <2>. QED BY <2>1, <2>2
<1>9. Follows(t, kn2, rem2, st, R)
  <2>1. (n + 1) + 1 = n + 2
    BY <1>2
  <2>. QED BY <1>2, <1>5, <1>7, <1>8, <2>1 DEF Follows
<1>. QED BY <1>6, <1>9 DEF Remaining, p, t

\* Taking the top frame off a stack takes off what it owes.
LEMMA RemainingPop ==
  ASSUME NEW s \in Seq(Frames), NEW f \in Frames, NEW k, NEW st \in EvalState,
         NEW R, NEW q, Remaining(<<f>> \o s, k, q, st, R)
  PROVE  \E r \in Seq(Update) : q = Owes(f, k, st) \o r /\ Remaining(s, Under(f, k), r, st, R)
<1>. DEFINE t == <<f>> \o s
            n == Len(s)
<1>1. PICK kn, rem : Follows(t, kn, rem, st, R) /\ kn[1] = k /\ rem[1] = q
  BY DEF Remaining
<1>2. n \in Nat /\ Len(t) = n + 1 /\ t[1] = f /\ \A i \in 1 .. n : t[i + 1] = s[i]
  BY PushElements
<1>. HIDE DEF n, t
<1>3. (n + 1) + 1 = n + 2 /\ 1 \in 1 .. n + 1
  BY <1>2
<1>4. /\ kn \in [1 .. n + 2 -> KnownState] /\ rem \in [1 .. n + 2 -> Seq(Update)]
      /\ kn[(n + 1) + 1] = [v \in Var |-> Unbound] /\ rem[(n + 1) + 1] = R
      /\ \A i \in 1 .. n + 1 : /\ kn[i + 1] = Under(t[i], kn[i])
                               /\ rem[i] = Owes(t[i], kn[i], st) \o rem[i + 1]
  BY <1>1, <1>2, <1>3 DEF Follows
<1>. DEFINE kn2 == [i \in 1 .. n + 1 |-> kn[i + 1]]
            rem2 == [i \in 1 .. n + 1 |-> rem[i + 1]]
<1>5. \A i \in 1 .. n + 1 : i + 1 \in 1 .. n + 2 /\ i \in 1 .. n + 2
  BY <1>2
<1>6. kn2 \in [1 .. n + 1 -> KnownState] /\ rem2 \in [1 .. n + 1 -> Seq(Update)]
  BY <1>4, <1>5
<1>7. \A i \in 1 .. n + 1 : kn2[i] = kn[i + 1] /\ rem2[i] = rem[i + 1]
  OBVIOUS
<1>. HIDE DEF kn2, rem2
<1>8. kn2[n + 1] = [v \in Var |-> Unbound] /\ rem2[n + 1] = R
  <2>1. n + 1 \in 1 .. n + 1
    BY <1>2
  <2>. QED BY <1>4, <1>7, <2>1
<1>9. ASSUME NEW i \in 1 .. n
      PROVE  kn2[i + 1] = Under(s[i], kn2[i]) /\ rem2[i] = Owes(s[i], kn2[i], st) \o rem2[i + 1]
  <2>1. i \in 1 .. n + 1 /\ i + 1 \in 1 .. n + 1
    BY <1>2
  <2>2. t[i + 1] = s[i]
    BY <1>2
  <2>3. kn[(i + 1) + 1] = Under(t[i + 1], kn[i + 1])
        /\ rem[i + 1] = Owes(t[i + 1], kn[i + 1], st) \o rem[(i + 1) + 1]
    BY <1>4, <2>1
  <2>4. kn2[i] = kn[i + 1] /\ rem2[i] = rem[i + 1]
        /\ kn2[i + 1] = kn[(i + 1) + 1] /\ rem2[i + 1] = rem[(i + 1) + 1]
    BY <1>7, <2>1
  <2>. QED BY <2>2, <2>3, <2>4
<1>10. Follows(s, kn2, rem2, st, R)
  BY <1>6, <1>8, <1>9 DEF Follows, n
<1>11. kn2[1] = Under(f, k) /\ q = Owes(f, k, st) \o rem2[1] /\ rem2[1] \in Seq(Update)
  <2>1. kn[1 + 1] = Under(t[1], kn[1]) /\ rem[1] = Owes(t[1], kn[1], st) \o rem[1 + 1]
    BY <1>3, <1>4
  <2>2. kn2[1] = kn[1 + 1] /\ rem2[1] = rem[1 + 1] /\ rem2[1] \in Seq(Update)
    BY <1>3, <1>6, <1>7
  <2>. QED BY <1>1, <1>2, <2>1, <2>2
<1>12. Remaining(s, Under(f, k), rem2[1], st, R)
  BY <1>10, <1>11 DEF Remaining
<1>. QED BY <1>11, <1>12
-----------------------------------------------------------------------------
\* What the effects take effect on.
Stores == {f \in UNION {[D -> AnyWord] : D \in SUBSET (Mem \X Address)} :
             \A c \in DOMAIN f : f[c] \in Word(c[1])}
Results == [regs : RegState, mems : Stores, hits : [Cover -> Nat]]

\* Storing a word in a cell keeps a store.
LEMMA StoreType ==
  ASSUME NEW f \in Stores, NEW c \in Mem \X Address, NEW v \in Int
  PROVE  [x \in DOMAIN f \cup {c} |-> IF x = c THEN Fit(v, c[1]) ELSE f[x]] \in Stores
<1>1. Fit(v, c[1]) \in Word(c[1]) /\ Fit(v, c[1]) \in AnyWord
  BY FitType
<1>2. PICK D \in SUBSET (Mem \X Address) : f \in [D -> AnyWord]
  BY DEF Stores
<1>3. \A x \in D : f[x] \in Word(x[1])
  BY <1>2 DEF Stores
<1>. DEFINE E == D \cup {c}
            g == [x \in E |-> IF x = c THEN Fit(v, c[1]) ELSE f[x]]
<1>4. E \in SUBSET (Mem \X Address) /\ DOMAIN f = D
  BY <1>2
<1>5. g \in [E -> AnyWord] /\ \A x \in E : g[x] \in Word(x[1])
  BY <1>1, <1>2, <1>3
<1>6. g \in Stores
  <2>. HIDE DEF g, E
  <2>. QED BY <1>4, <1>5 DEF Stores
<1>. QED BY <1>4, <1>6

\* Patching an integer within the width of its register gives an integer.
LEMMA PatchedType ==
  ASSUME NEW r \in Reg, NEW old \in Int, NEW hi \in Int, NEW lo \in Int, NEW v \in Int,
         hi \in 0 .. Width[r] - 1, lo \in 0 .. Width[r] - 1, lo <= hi
  PROVE  Patched(old, hi, lo, v) \in Int
<1>1. Width[r] \in 1 .. MaxWidth /\ MaxWidth \in Nat
  BY SignalAssumption
<1>2. lo \in 0 .. MaxWidth /\ hi - lo + 1 \in 0 .. MaxWidth
  BY <1>1
<1>3. 2^lo \in Nat \ {0} /\ 2^(hi - lo + 1) \in Nat \ {0}
  BY <1>1, <1>2, SignalAssumption
<1>4. Field(old, hi, lo) \in Int
  BY <1>3 DEF Field
<1>5. v % 2^(hi - lo + 1) \in Int
  BY <1>3
<1>. QED BY <1>3, <1>4, <1>5 DEF Patched

\* What an effect does.
LEMMA AppliedCases ==
  ASSUME NEW o, NEW u
  PROVE  /\ u.to = "reg" => NB!Applied(o, u) = [o EXCEPT !.regs[u.reg] = Fit(u.value, u.reg)]
         /\ u.to = "bits" => NB!Applied(o, u)
              = [o EXCEPT !.regs[u.reg] = Fit(Patched(o.regs[u.reg], u.hi, u.lo, u.value), u.reg)]
         /\ u.to = "cell" => NB!Applied(o, u)
              = [o EXCEPT !.mems = [c \in DOMAIN o.mems \cup {u.cell} |->
                                      IF c = u.cell THEN Fit(u.value, u.cell[1]) ELSE o.mems[c]]]
         /\ u.to = "hit" => NB!Applied(o, u) = [o EXCEPT !.hits[u.id] = o.hits[u.id] + 1]
<1>1. u.to = "reg" => NB!Applied(o, u) = [o EXCEPT !.regs[u.reg] = Fit(u.value, u.reg)]
  BY SameDesign DEF NB!Applied
<1>2. u.to = "bits" => NB!Applied(o, u)
        = [o EXCEPT !.regs[u.reg] = Fit(Patched(o.regs[u.reg], u.hi, u.lo, u.value), u.reg)]
  BY SameDesign DEF NB!Applied
<1>3. u.to = "cell" => NB!Applied(o, u)
        = [o EXCEPT !.mems = [c \in DOMAIN o.mems \cup {u.cell} |->
                                IF c = u.cell THEN Fit(u.value, u.cell[1]) ELSE o.mems[c]]]
  BY SameDesign DEF NB!Applied
<1>4. u.to = "hit" => NB!Applied(o, u) = [o EXCEPT !.hits[u.id] = o.hits[u.id] + 1]
  BY SameDesign DEF NB!Applied
<1>. QED BY <1>1, <1>2, <1>3, <1>4

\* An effect keeps the registers, the memories and the counters well typed.
LEMMA AppliedType ==
  ASSUME NEW o \in Results, NEW u \in Effect
  PROVE  NB!Applied(o, u) \in Results
<1>0. o.regs \in RegState /\ o.mems \in Stores /\ o.hits \in [Cover -> Nat]
  BY DEF Results
<1>1. CASE u \in [to : {"reg"}, reg : Reg, value : Int]
  <2>1. [o.regs EXCEPT ![u.reg] = Fit(u.value, u.reg)] \in RegState
    BY <1>0, <1>1, RegUpdate
  <2>2. NB!Applied(o, u) = [o EXCEPT !.regs = [o.regs EXCEPT ![u.reg] = Fit(u.value, u.reg)]]
    BY <1>1, AppliedCases
  <2>. QED BY <1>0, <2>1, <2>2 DEF Results
<1>2. CASE u \in [to : {"bits"}, reg : Reg, hi : Int, lo : Int, value : Int] /\ ~OutOfRange(u)
  <2>1. o.regs[u.reg] \in Int
    BY <1>0, <1>2, FitType DEF RegState, AnyWord
  <2>2. u.hi \in 0 .. Width[u.reg] - 1 /\ u.lo \in 0 .. Width[u.reg] - 1 /\ u.lo <= u.hi
        /\ u.hi \in Int /\ u.lo \in Int /\ u.value \in Int /\ u.reg \in Reg
    BY <1>2 DEF OutOfRange
  <2>3. Patched(o.regs[u.reg], u.hi, u.lo, u.value) \in Int
    BY <2>1, <2>2, PatchedType
  <2>. DEFINE p == Patched(o.regs[u.reg], u.hi, u.lo, u.value)
  <2>4. NB!Applied(o, u) = [o EXCEPT !.regs = [o.regs EXCEPT ![u.reg] = Fit(p, u.reg)]]
    BY <1>2, AppliedCases
  <2>. HIDE DEF p
  <2>5. [o.regs EXCEPT ![u.reg] = Fit(p, u.reg)] \in RegState
    BY <1>0, <2>2, <2>3, RegUpdate DEF p
  <2>. QED BY <1>0, <2>4, <2>5 DEF Results
<1>3. CASE u \in [to : {"cell"}, cell : Cell, value : Int]
  <2>. DEFINE m == [c \in DOMAIN o.mems \cup {u.cell} |->
                      IF c = u.cell THEN Fit(u.value, u.cell[1]) ELSE o.mems[c]]
  <2>1. u.cell \in Mem \X Address /\ u.value \in Int
    BY <1>3 DEF Cell
  <2>2. m \in Stores
    BY <1>0, <2>1, StoreType
  <2>3. NB!Applied(o, u) = [o EXCEPT !.mems = m]
    <3>1. u.to = "cell"
      BY <1>3
    <3>. QED BY <3>1, SameDesign DEF NB!Applied
  <2>. HIDE DEF m
  <2>. QED BY <1>0, <2>2, <2>3 DEF Results
<1>4. CASE u \in [to : {"hit"}, id : Cover]
  <2>1. NB!Applied(o, u) = [o EXCEPT !.hits = [o.hits EXCEPT ![u.id] = o.hits[u.id] + 1]]
    BY <1>4, AppliedCases
  <2>2. [o.hits EXCEPT ![u.id] = o.hits[u.id] + 1] \in [Cover -> Nat]
    BY <1>0, <1>4
  <2>. QED BY <1>0, <2>1, <2>2 DEF Results
<1>. QED BY <1>1, <1>2, <1>3, <1>4 DEF Effect

\* The stores of the kernel are functions.
MemFun == mems \in Stores /\ nextMems \in Stores

\* The steps keep the stores functions.
LEMMA MemFunStep == TypeOK /\ MemFun /\ [Next]_vars => MemFun'
<1>. SUFFICES ASSUME TypeOK, MemFun, [Next]_vars PROVE MemFun'
  OBVIOUS
<1>1. CASE MemWrite
  <2>1. Stmt.mem \in Mem /\ Value(Stmt.addr) \in Address /\ Value(Stmt.val) \in Int
    BY <1>1, ExecuteType, FieldTypes, ValueType DEF MemWrite, TypeOK
  <2>. DEFINE c == <<Stmt.mem, Value(Stmt.addr)>>
              v == Value(Stmt.val)
  <2>2. c \in Mem \X Address /\ c[1] = Stmt.mem
    BY <2>1
  <2>3. Stored(Stmt.mem, Value(Stmt.addr), v) = nextMems
        \/ Stored(Stmt.mem, Value(Stmt.addr), v)
             = [x \in DOMAIN nextMems \cup {c} |-> IF x = c THEN Fit(v, Stmt.mem) ELSE nextMems[x]]
    BY DEF Stored
  <2>. HIDE DEF c
  <2>4. Stored(Stmt.mem, Value(Stmt.addr), v) \in Stores
    BY <2>1, <2>2, <2>3, StoreType DEF MemFun
  <2>. QED BY <1>1, <2>4 DEF MemWrite, sim, MemFun
<1>2. ASSUME NEW c, NEW e, StartEdge(c, e) PROVE MemFun'
  BY <1>2 DEF StartEdge, StartMems, MemFun, sim
<1>3. CASE TickFall \/ \E c \in Clock : Tick(c) \/ \E e \in Edge : TickEdge(c, e)
  BY <1>2, <1>3 DEF TickFall, Tick, TickEdge
<1>4. CASE Commit
  BY <1>4 DEF Commit, MemFun, scratch
<1>5. ASSUME UNCHANGED <<mems, nextMems>> PROVE MemFun'
  BY <1>5 DEF MemFun
<1>6. CASE \/ \E n \in Leaf, v \in 0 .. 2^MaxWidth : Set(n, v)
           \/ EnterProcess \/ Skip \/ EndPass \/ EvalError \/ Assign \/ Patch \/ PatchError
           \/ UNCHANGED vars
  BY <1>5, <1>6 DEF Set, EnterProcess, Skip, EndPass, EvalError, Assign, Patch, PatchError,
                    Stop, vars, sim, scratch
<1>7. CASE If \/ EnterLoop \/ LoopError \/ Iterate \/ Unbind \/ EndLoop
  BY <1>5, <1>7 DEF If, EnterLoop, LoopError, Iterate, Unbind, EndLoop, Stop, sim, scratch
<1>8. CASE AssertHolds \/ AssertFails \/ Count \/ AssertsHold \/ AssertsFail \/ Tally \/ TallyError
  BY <1>5, <1>8 DEF AssertHolds, AssertFails, Count, AssertsHold, AssertsFail, Tally,
                    TallyError, Stop, sim, scratch
<1>. QED BY <1>1, <1>3, <1>4, <1>6, <1>7, <1>8 DEF Next, Step, Request

\* The initial stores are functions.
LEMMA MemFunInit == Init => MemFun
<1>. SUFFICES ASSUME Init PROVE MemFun
  OBVIOUS
<1>1. mems = <<>> /\ nextMems = <<>>
  BY DEF Init
<1>2. <<>> \in [{} -> AnyWord] /\ {} \in SUBSET (Mem \X Address) /\ DOMAIN <<>> = {}
  OBVIOUS
<1>3. <<>> \in Stores
  BY <1>2 DEF Stores
<1>. QED BY <1>1, <1>3 DEF MemFun
-----------------------------------------------------------------------------
\* The queues of the blocks of edge e of clock c, in declaration order.
BlocksOf(p, c, e, st) ==
  [i \in 1 .. Len(p) |->
     IF p[i].clock = c /\ p[i].edge = e
     THEN NB!Updates(st)[p[i].body][[v \in Var |-> Unbound]] ELSE <<>>]
Blocks  == BlocksOf(program, clock, edge, NB!Before)
Now     == [regs |-> regs, mems |-> mems, hits |-> hits]
Pending == [regs |-> next, mems |-> nextMems, hits |-> Plus(hits, newHits)]

\* The updates d have taken effect in the scratch copies, q is what the stack
\* still queues, and the two are the queue of the edge.
Divided(d, q) ==
  /\ d \in Seq(Effect)
  /\ NB!Outcome(Now, d) = Pending
  /\ Remaining(stack, known, q, NB!Before, From(Blocks, proc))
  /\ NB!FlattenSeq(Blocks) = d \o q
Progress == pc = "body" /\ ~ResetNow => \E d, q : Divided(d, q)

\* The queues of the blocks are queues of updates, one for each block.
LEMMA BlocksType ==
  ASSUME NEW p \in Programs, NEW c, NEW e, NEW st \in EvalState
  PROVE  /\ BlocksOf(p, c, e, st) \in Seq(Seq(Update)) /\ Len(BlocksOf(p, c, e, st)) = Len(p)
         /\ \A at \in Nat \ {0} : From(BlocksOf(p, c, e, st), at) \in Seq(Update)
<1>. DEFINE n == Len(p)
            b == BlocksOf(p, c, e, st)
<1>1. p \in Seq(Process) /\ n \in Nat
  BY BodyAssumption
<1>2. \A i \in 1 .. n : p[i].body \in Body
  <2>1. \A i \in 1 .. n : p[i] \in Process
    BY <1>1, ElementOfSeq
  <2>. QED BY <2>1 DEF Process
<1>3. NB!Updates(st) \in Tables /\ [v \in Var |-> Unbound] \in KnownState /\ <<>> \in Seq(Update)
  BY UpdatesLaw DEF KnownState
<1>4. \A i \in 1 .. n : NB!Updates(st)[p[i].body][[v \in Var |-> Unbound]] \in Seq(Update)
  BY <1>2, <1>3 DEF Tables
<1>5. b \in [1 .. n -> Seq(Update)]
  BY <1>3, <1>4 DEF BlocksOf
<1>. HIDE DEF b
<1>6. b \in Seq(Seq(Update)) /\ Len(b) = n
  BY <1>1, <1>5
<1>. QED BY <1>6, FromLaw DEF b

\* The state before the edge, and what the expressions see.
LEMMA BeforeType ==
  ASSUME SimOK, SeqOK
  PROVE  NB!Before \in EvalState /\ Env = Here(NB!Before, known)
<1>1. Env \in EvalState
  BY EnvType
<1>. DEFINE C == [c \in Mem \X Address |-> MemRead(c[1], c[2])]
            D == [c \in Mem \X Address |->
                    IF c \in DOMAIN mems THEN mems[c] ELSE Fit(MemInit[c[1]], c[1])]
<1>2. C = D
  <2>1. \A c \in Mem \X Address : <<c[1], c[2]>> = c
    OBVIOUS
  <2>. QED BY <2>1 DEF MemRead
<1>3. NB!Before = [leaves |-> leaves, regs |-> regs, known |-> [v \in Var |-> Unbound], cells |-> D]
  BY SameDesign DEF NB!Before, NB!NoneBound
<1>4. Env = [leaves |-> leaves, regs |-> regs, known |-> known, cells |-> C]
  BY DEF Env
<1>. HIDE DEF C, D
<1>5. [v \in Var |-> Unbound] \in KnownState
  BY DEF KnownState
<1>6. leaves \in LeafState /\ regs \in RegState /\ C \in CellState
  BY <1>1, <1>4 DEF EvalState
<1>7. NB!Before \in EvalState
  BY <1>2, <1>3, <1>5, <1>6 DEF EvalState
<1>8. Env = Here(NB!Before, known)
  BY <1>2, <1>3, <1>4 DEF Here
<1>. QED BY <1>7, <1>8

\* The queue of the edge with the blocks in declaration order.
LEMMA QueueBlocks ==
  ASSUME SimOK
  PROVE  /\ [i \in 1 .. Len(program) |-> i] \in NB!Orders
         /\ NB!Queue(clock, edge, [i \in 1 .. Len(program) |-> i]) = NB!FlattenSeq(Blocks)
<1>. DEFINE n == Len(program)
            o == [i \in 1 .. n |-> i]
<1>1. n \in Nat
  BY BodyAssumption DEF SimOK
<1>2. o \in NB!Orders
  BY DEF NB!Orders, NB!IsInjective
<1>3. Len(o) = n /\ \A i \in 1 .. n : o[i] = i
  BY <1>1
<1>. HIDE DEF o
<1>4. [i \in 1 .. Len(o) |->
         IF program[o[i]].clock = clock /\ program[o[i]].edge = edge
         THEN NB!Updates(NB!Before)[program[o[i]].body][NB!NoneBound] ELSE <<>>] = Blocks
  BY <1>3 DEF Blocks, BlocksOf, NB!NoneBound
<1>5. NB!Queue(clock, edge, o) = NB!FlattenSeq(Blocks)
  BY <1>4 DEF NB!Queue
<1>. QED BY <1>2, <1>5 DEF o

\* What the steps of the bodies leave alone.
LEMMA SameBlocks ==
  ASSUME UNCHANGED <<program, sim, call>>
  PROVE  NB!Before' = NB!Before /\ Blocks' = Blocks /\ Now' = Now /\ (ResetNow' <=> ResetNow)
<1>1. NB!Before' = NB!Before
  BY DEF NB!Before, sim
<1>2. Now' = Now
  BY DEF Now, sim
<1>3. ResetNow' <=> ResetNow
  BY DEF ResetNow, sim
<1>4. Blocks' = Blocks
  BY <1>1 DEF Blocks, BlocksOf, call
<1>. QED BY <1>1, <1>2, <1>3, <1>4

\* So it is enough to divide the queue of the edge again.
LEMMA Redivide ==
  ASSUME UNCHANGED <<program, sim, call>>, NEW d \in Seq(Effect), NEW q,
         NB!Outcome(Now, d) = Pending',
         Remaining(stack', known', q, NB!Before, From(Blocks, proc')),
         NB!FlattenSeq(Blocks) = d \o q
  PROVE  Progress'
<1>1. NB!Before' = NB!Before /\ Blocks' = Blocks /\ Now' = Now
  BY SameBlocks
<1>2. Remaining(stack, known, q, NB!Before, From(Blocks, proc))'
  BY <1>1
<1>3. (NB!Outcome(Now, d) = Pending)'
  BY <1>1
<1>4. (NB!FlattenSeq(Blocks) = d \o q)'
  BY <1>1
<1>5. Divided(d, q)'
  BY <1>2, <1>3, <1>4 DEF Divided
<1>. QED BY <1>5 DEF Progress

\* What a stack owes is what its top owes and then what the rest does.
LEMMA TopRemaining ==
  ASSUME TypeOK, stack # <<>>, NEW q, NEW R, Remaining(stack, known, q, NB!Before, R)
  PROVE  \E r \in Seq(Update) :
           /\ q = Owes(Top, known, NB!Before) \o r
           /\ Remaining(Tail(stack), Under(Top, known), r, NB!Before, R)
<1>1. Top \in Frames /\ Tail(stack) \in Seq(Frames) /\ stack = <<Top>> \o Tail(stack)
  BY TopOfStack DEF TypeOK
<1>2. NB!Before \in EvalState
  BY BeforeType DEF TypeOK
<1>. DEFINE B == NB!Before
            f == Top
            s == Tail(stack)
<1>3. f \in Frames /\ s \in Seq(Frames) /\ B \in EvalState /\ Remaining(<<f>> \o s, known, q, B, R)
  BY <1>1, <1>2
<1>. HIDE DEF B, f, s
<1>4. \E r \in Seq(Update) : q = Owes(f, known, B) \o r /\ Remaining(s, Under(f, known), r, B, R)
  BY <1>3, RemainingPop
<1>. QED BY <1>4 DEF B, f, s

\* Going on to the next statement.
LEMMA AdvanceRemaining ==
  ASSUME TypeOK, Reached("defaults") \/ Reached("rest"),
         NEW q, NEW R, Remaining(stack, known, q, NB!Before, R)
  PROVE  /\ ~InPass(Stmt) => Remaining(Advanced, known, q, NB!Before, R)
         /\ InPass(Stmt) =>
              \E r \in Seq(Update) :
                /\ q = NB!Queued(Stmt, Env, NB!Updates(NB!Before)) \o r
                /\ Remaining(Advanced, known, r, NB!Before, R)
<1>. DEFINE B == NB!Before
            g == Frame(Top.pass, Top.body, Top.at + 1)
            s == Tail(stack)
            u == NB!Queued(Stmt, Env, NB!Updates(NB!Before))
<1>1. Top \in BodyFrame /\ Top \in Frames /\ Top.at \in DOMAIN Top.body /\ stack # <<>>
      /\ Tail(stack) \in Seq(Frames) /\ Top.body \in Body /\ Stmt \in Statement
  BY StmtType DEF TypeOK, Reached, Running, Frames
<1>2. B \in EvalState /\ Env = Here(B, known) /\ known \in KnownState /\ Env \in EvalState
  BY BeforeType, EnvType DEF TypeOK, SeqOK
<1>3. Top.pass \in {"defaults", "rest"} /\ Under(Top, known) = known
  BY <1>1 DEF BodyFrame, Under
<1>4. g \in Frames /\ Under(g, known) = known
  <2>1. Top.at + 1 \in Nat \ {0}
    BY <1>1 DEF BodyFrame
  <2>. QED BY <1>1, <1>3, <2>1 DEF Frame, BodyFrame, Frames, Under
<1>5. PICK r \in Seq(Update) :
        /\ q = Owes(Top, known, NB!Before) \o r
        /\ Remaining(Tail(stack), Under(Top, known), r, NB!Before, R)
  BY <1>1, TopRemaining
<1>6. InPass(Stmt) <=> ((Stmt.kind = "default") <=> (Top.pass = "defaults"))
  BY DEF InPass
<1>7. /\ ~InPass(Stmt) => Owes(Top, known, B) = Owes(g, known, B)
      /\ InPass(Stmt) => Owes(Top, known, B) = u \o Owes(g, known, B)
  <2>. HIDE DEF g, B
  <2>1. LET st == Top.body[Top.at]
            rest == Owes(Frame(Top.pass, Top.body, Top.at + 1), known, B)
        IN  /\ ~((st.kind = "default") <=> (Top.pass = "defaults")) => Owes(Top, known, B) = rest
            /\ ((st.kind = "default") <=> (Top.pass = "defaults")) =>
                 Owes(Top, known, B) = NB!Queued(st, Here(B, known), NB!Updates(B)) \o rest
    BY <1>1, <1>2, OwesStatement
  <2>2. NB!Queued(Stmt, Env, NB!Updates(B)) = NB!Queued(Stmt, Here(B, known), NB!Updates(B))
    BY <1>2
  <2>. QED BY <1>6, <2>1, <2>2 DEF g, B, Stmt
<1>. DEFINE t == Owes(g, known, B) \o r
<1>8. Owes(g, known, B) \in Seq(Update)
  <2>. HIDE DEF g, B
  <2>. QED BY <1>2, <1>4, OwesType
<1>9. Remaining(Advanced, known, t, B, R)
  <2>1. Advanced = <<g>> \o s
    BY DEF Advanced
  <2>2. Remaining(s, Under(g, known), r, B, R)
    BY <1>3, <1>4, <1>5
  <2>3. s \in Seq(Frames)
    BY <1>1
  <2>. HIDE DEF g, s, B
  <2>4. Remaining(<<g>> \o s, known, t, B, R)
    BY <1>2, <1>4, <2>2, <2>3, RemainingPush
  <2>. QED BY <2>1, <2>4
<1>10. u \in Seq(Update)
  BY <1>1, <1>2, UpdatesLaw, QueuedType
<1>11. t \in Seq(Update)
  <2>. HIDE DEF g, B
  <2>. QED BY <1>8, ConcatProperties
<1>12. ~InPass(Stmt) => q = t
  BY <1>5, <1>7
<1>13. InPass(Stmt) => q = u \o t
  <2>. DEFINE x == Owes(g, known, B)
  <2>1. InPass(Stmt) => q = (u \o x) \o r
    BY <1>5, <1>7
  <2>2. x \in Seq(Update) /\ u \in Seq(Update)
    BY <1>8, <1>10
  <2>. HIDE DEF x, u
  <2>3. (u \o x) \o r = u \o (x \o r)
    BY <2>2, ConcatAssociative
  <2>. QED BY <2>1, <2>3 DEF x
<1>. HIDE DEF u, t, B, g
<1>14. CASE InPass(Stmt)
  BY <1>9, <1>11, <1>13, <1>14 DEF u, B
<1>15. CASE ~InPass(Stmt)
  BY <1>9, <1>12, <1>15 DEF B
<1>. QED BY <1>14, <1>15

\* The steps that change neither the scratch copies nor what is left.
LEMMA Rest ==
  ASSUME UNCHANGED <<program, sim, call, scratch>>, NEW d, NEW q, Divided(d, q),
         Remaining(stack', known', q, NB!Before, From(Blocks, proc'))
  PROVE  Progress'
<1>1. Pending' = Pending
  BY DEF Pending, sim, scratch
<1>. QED BY <1>1, Redivide DEF Divided

\* Entering a block, or passing it by, leaves the queue divided as it was.
LEMMA EnterDivided ==
  ASSUME TypeOK, NEW d, NEW q, Divided(d, q), EnterProcess PROVE Progress'
<1>. DEFINE B == NB!Before
            p == Blocks
            none == [v \in Var |-> Unbound]
            f == Frame("defaults", program[proc].body, 1)
            R == From(Blocks, proc + 1)
<1>1. UNCHANGED <<program, sim, call, scratch, known>> /\ proc' = proc + 1 /\ stack = <<>>
      /\ proc \in 1 .. Len(program)
  BY DEF EnterProcess, TypeOK, SeqOK
<1>2. B \in EvalState /\ program \in Programs
  BY BeforeType DEF TypeOK, SimOK
<1>3. p \in Seq(Seq(Update)) /\ Len(p) = Len(program)
      /\ \A at \in Nat \ {0} : From(p, at) \in Seq(Update)
  <2>. HIDE DEF B
  <2>1. BlocksOf(program, clock, edge, B) = p
    BY DEF Blocks, B
  <2>. QED BY <1>2, <2>1, BlocksType
<1>4. proc \in Nat \ {0} /\ proc + 1 \in Nat \ {0}
  BY DEF TypeOK, SeqOK
<1>5. q = From(p, proc) /\ known = none
  BY <1>1, <1>3, <1>4, RemainingEmpty DEF Divided
<1>6. From(p, proc) = p[proc] \o R
  <2>. HIDE DEF p
  <2>1. From(p, proc) = p[proc] \o From(p, proc + 1)
    BY <1>1, <1>3, FromLaw
  <2>. QED BY <2>1 DEF p
<1>7. R \in Seq(Update)
  BY <1>3, <1>4
<1>8. Remaining(<<>>, none, R, B, R)
  <2>. HIDE DEF R, B
  <2>. QED BY <1>7, RemainingEmpty
<1>9. p[proc] = IF Matches(program[proc]) THEN NB!Updates(B)[program[proc].body][none] ELSE <<>>
  BY <1>1 DEF Blocks, BlocksOf, Matches
<1>10. CASE Matches(program[proc])
  <2>1. program[proc].body \in Body
    <3>1. program \in Seq(Process)
      BY <1>2, BodyAssumption
    <3>2. program[proc] \in Process
      BY <1>1, <3>1, ElementOfSeq
    <3>. QED BY <3>2 DEF Process
  <2>2. f \in Frames /\ Under(f, none) = none /\ none \in KnownState
    BY <2>1 DEF Frame, Frames, BodyFrame, Under, KnownState
  <2>3. Owes(f, none, B) = NB!Updates(B)[program[proc].body][none]
    <3>. DEFINE b == program[proc].body
    <3>. HIDE DEF b, none, B
    <3>1. Owes(Frame("defaults", b, 1), none, B) = NB!Updates(B)[b][none]
      BY <1>2, <2>1, <2>2, OwesList DEF b
    <3>. QED BY <3>1 DEF b
  <2>4. <<f>> \o <<>> = <<f>> /\ <<>> \in Seq(Frames)
    <3>. HIDE DEF f
    <3>. QED BY <2>2
  <2>. HIDE DEF f, none, B, R, p
  <2>5. Remaining(<<f>> \o <<>>, none, Owes(f, none, B) \o R, B, R)
    BY <1>2, <1>8, <2>2, <2>4, RemainingPush, Zenon
  <2>6. Owes(f, none, B) \o R = q
    BY Zenon, <1>5, <1>6, <1>9, <1>10, <2>3
  <2>7. stack' = <<f>>
    BY <1>10 DEF EnterProcess, f
  <2>8. Remaining(stack', known', q, B, R)
    BY <1>1, <1>5, <2>4, <2>5, <2>6, <2>7
  <2>. QED BY <1>1, <2>8, Rest DEF B, R
<1>11. CASE ~Matches(program[proc])
  <2>1. q = R
    <3>1. q = <<>> \o R
      BY <1>5, <1>6, <1>9, <1>11
    <3>. HIDE DEF R
    <3>. QED BY <1>7, <3>1, ConcatEmptySeq
  <2>2. stack' = <<>>
    BY <1>11 DEF EnterProcess
  <2>3. Remaining(stack', known', q, B, R)
    BY <1>1, <1>5, <1>8, <2>1, <2>2
  <2>. QED BY <1>1, <2>3, Rest
<1>. QED BY <1>10, <1>11

\* Pushing a frame that leaves the loop variables alone.
LEMMA PushPlain ==
  ASSUME TypeOK, NEW s \in Seq(Frames), NEW f \in Frames, NEW k \in KnownState, NEW r, NEW R,
         f.pass # "unbind", Remaining(s, k, r, NB!Before, R)
  PROVE  Remaining(<<f>> \o s, k, Owes(f, k, NB!Before) \o r, NB!Before, R)
<1>. DEFINE B == NB!Before
<1>1. Under(f, k) = k
  BY DEF Under
<1>2. B \in EvalState
  BY BeforeType DEF TypeOK
<1>. HIDE DEF B
<1>3. Remaining(s, Under(f, k), r, B, R)
  BY <1>1 DEF B
<1>4. Remaining(<<f>> \o s, k, Owes(f, k, B) \o r, B, R)
  BY <1>2, <1>3, RemainingPush
<1>. QED BY <1>4 DEF B

\* So does moving through the lists and leaving an iteration.
LEMMA WalkDivided ==
  ASSUME TypeOK, NEW d, NEW q, Divided(d, q), Skip \/ EndPass \/ EndLoop \/ Unbind PROVE Progress'
<1>. DEFINE R == From(Blocks, proc)
            B == NB!Before
<1>0. known \in KnownState /\ B \in EvalState
  BY BeforeType DEF TypeOK, SeqOK
<1>1. CASE Skip
  <2>1. UNCHANGED <<program, sim, call, scratch, known, proc>> /\ stack' = Advanced
        /\ (Reached("defaults") \/ Reached("rest")) /\ ~InPass(Stmt)
    BY <1>1 DEF Skip, Advance
  <2>2. Remaining(Advanced, known, q, B, R)
    BY <2>1, AdvanceRemaining DEF Divided
  <2>. QED BY <2>1, <2>2, Rest
<1>2. ASSUME stack # <<>> PROVE
        /\ Top \in Frames /\ Tail(stack) \in Seq(Frames)
        /\ \E r \in Seq(Update) : /\ q = Owes(Top, known, B) \o r
                                  /\ Remaining(Tail(stack), Under(Top, known), r, B, R)
        /\ Under(Top, known) \in KnownState
  BY <1>0, <1>2, TopRemaining, TopOfStack, OwesType DEF Divided, TypeOK
<1>3. CASE EndPass \/ EndLoop
  <2>1. UNCHANGED <<program, sim, call, scratch, known, proc>> /\ stack # <<>>
    BY <1>3 DEF EndPass, EndLoop, Running
  <2>2. PICK r \in Seq(Update) : /\ q = Owes(Top, known, B) \o r
                                 /\ Remaining(Tail(stack), Under(Top, known), r, B, R)
    BY <1>2, <2>1
  <2>3. Top.pass # "unbind" /\ Under(Top, known) = known
    BY <1>3 DEF EndPass, EndLoop, Under
  <2>4. CASE EndPass /\ Top.pass = "defaults"
    <3>. DEFINE g == Frame("rest", Top.body, 1)
    <3>1. Top \in BodyFrame /\ Top.at \notin DOMAIN Top.body
      BY <1>2, <2>1, <2>4 DEF EndPass, Frames, LoopFrame
    <3>2. g \in Frames /\ g.pass # "unbind"
      BY <3>1 DEF Frame, Frames, BodyFrame
    <3>3. Owes(Top, known, B) = Owes(g, known, B)
      BY <1>0, <2>4, <3>1, OwesTurn
    <3>4. stack' = <<g>> \o Tail(stack)
      BY <2>4 DEF EndPass
    <3>5. Remaining(Tail(stack), known, r, B, R) /\ Tail(stack) \in Seq(Frames)
      BY <1>2, <2>1, <2>2, <2>3
    <3>. DEFINE s == Tail(stack)
    <3>. HIDE DEF g, R, s
    <3>6. Remaining(<<g>> \o s, known, Owes(g, known, B) \o r, B, R)
      BY <1>0, <3>2, <3>5, PushPlain DEF s
    <3>7. Remaining(stack', known', q, B, R)
      BY <2>1, <2>2, <3>3, <3>4, <3>6 DEF s
    <3>. QED BY <2>1, <3>7, Rest DEF R
  <2>5. CASE ~(EndPass /\ Top.pass = "defaults")
    <3>1. stack' = Tail(stack)
      BY <1>3, <2>5 DEF EndPass, EndLoop
    <3>2. Owes(Top, known, B) = <<>>
      <4>1. CASE EndPass
        <5>1. Top.pass = "rest" /\ Top.at \notin DOMAIN Top.body
          BY <2>5, <4>1 DEF EndPass
        <5>2. Top \in BodyFrame
          BY <1>2, <2>1, <5>1 DEF Frames, LoopFrame
        <5>. QED BY <1>0, <5>1, <5>2, OwesTurn
      <4>2. CASE EndLoop
        <5>1. Top.pass = "loop" /\ Top.at >= Top.hi
          BY <4>2 DEF EndLoop
        <5>. QED BY <1>0, <1>2, <2>1, <5>1, OwesLoop
      <4>. QED BY <1>3, <4>1, <4>2
    <3>3. <<>> \o r = r
      BY ConcatEmptySeq
    <3>4. Remaining(stack', known', q, B, R)
      BY <2>1, <2>2, <2>3, <3>1, <3>2, <3>3
    <3>. QED BY <2>1, <3>4, Rest
  <2>. QED BY <2>4, <2>5
<1>4. CASE Unbind
  <2>1. UNCHANGED <<program, sim, call, scratch, proc>> /\ stack # <<>> /\ Top.pass = "unbind"
        /\ known' = Under(Top, known)
    BY <1>4 DEF Unbind, Running, Restored, Under
  <2>2. PICK r \in Seq(Update) : /\ q = Owes(Top, known, B) \o r
                                 /\ Remaining(Tail(stack), Under(Top, known), r, B, R)
    BY <1>2, <2>1
  <2>. DEFINE g == Loop("loop", Top.body, Top.at + 1, Top.hi, Top.var, Unbound)
              s == Tail(stack)
              k == Under(Top, known)
  <2>3. stack' = <<g>> \o s
    BY <1>4 DEF Unbind, Successor
  <2>4. g \in Frames /\ g.pass # "unbind"
    <3>1. Top.body \in Body /\ Top.var \in Var /\ Top.at + 1 \in 0 .. MaxBound
          /\ Top.hi \in 0 .. MaxBound
      BY <1>2, <2>1, FrameFields
    <3>. QED BY <3>1 DEF Loop, Frames, LoopFrame
  <2>5. Owes(Top, known, B) = Owes(g, k, B)
    BY <1>0, <1>2, <2>1, OwesLoop
  <2>6. s \in Seq(Frames) /\ k \in KnownState /\ Remaining(s, k, r, B, R)
    BY <1>2, <2>1, <2>2
  <2>. HIDE DEF g, s, k, R
  <2>7. Remaining(<<g>> \o s, k, Owes(g, k, B) \o r, B, R)
    BY <2>4, <2>6, PushPlain
  <2>8. Remaining(stack', known', q, B, R)
    BY <2>1, <2>2, <2>3, <2>5, <2>7 DEF k
  <2>. QED BY <2>1, <2>8, Rest DEF R
<1>. QED BY <1>1, <1>3, <1>4

\* So does beginning an iteration: its copy of the body is the next of the loop's queue.
LEMMA IterateDivided ==
  ASSUME TypeOK, NEW d, NEW q, Divided(d, q), Iterate PROVE Progress'
<1>. DEFINE R == From(Blocks, proc)
            B == NB!Before
            s == Tail(stack)
            inner == [known EXCEPT ![Top.var] = Top.at]
            u == Loop("unbind", Top.body, Top.at, Top.hi, Top.var, known[Top.var])
            b == Frame("defaults", Top.body, 1)
            U == NB!Updates(B)[Top.body][inner]
<1>0. known \in KnownState /\ B \in EvalState
  BY BeforeType DEF TypeOK, SeqOK
<1>1. UNCHANGED <<program, sim, call, scratch, proc>> /\ stack # <<>> /\ Top.pass = "loop"
      /\ Top.at < Top.hi /\ known' = inner
      /\ stack' = <<b, u>> \o s
  BY DEF Iterate, Running
<1>2. Top \in Frames /\ s \in Seq(Frames)
  BY <1>1, TopOfStack DEF TypeOK
<1>3. PICK r \in Seq(Update) : q = Owes(Top, known, B) \o r /\ Remaining(s, Under(Top, known), r, B, R)
  BY <1>1, TopRemaining DEF Divided
<1>4. Under(Top, known) = known
  BY <1>1 DEF Under
<1>5. Top.body \in Body /\ Top.var \in Var /\ Top.at \in 0 .. MaxBound /\ Top.hi \in 0 .. MaxBound
  BY <1>1, <1>2, FrameFields
<1>6. inner \in KnownState /\ known[Top.var] \in (0 .. MaxBound) \cup {Unbound}
  BY <1>0, <1>5 DEF KnownState
<1>7. u \in Frames /\ b \in Frames /\ b.pass # "unbind"
  BY <1>1, <1>5, <1>6 DEF Loop, Frame, Frames, LoopFrame, BodyFrame
<1>8. Owes(Top, known, B) = U \o Owes(u, inner, B) /\ Under(u, inner) = known
  BY <1>0, <1>1, <1>2, OwesLoop
<1>9. Owes(b, inner, B) = U
  <2>. DEFINE body == Top.body
  <2>. HIDE DEF inner, B
  <2>1. body \in Body
    BY <1>5
  <2>. HIDE DEF body
  <2>2. Owes(Frame("defaults", body, 1), inner, B) = NB!Updates(B)[body][inner]
    BY <1>0, <1>6, <2>1, OwesList
  <2>. QED BY <2>2 DEF body
<1>. HIDE DEF R, s, inner, u, b, U
<1>10. Remaining(<<u>> \o s, inner, Owes(u, inner, B) \o r, B, R)
  <2>1. Remaining(s, Under(u, inner), r, B, R)
    BY <1>3, <1>4, <1>8
  <2>. HIDE DEF B
  <2>. QED BY <1>0, <1>2, <1>6, <1>7, <2>1, RemainingPush
<1>11. <<u>> \o s \in Seq(Frames)
  BY <1>2, <1>7, PushType
<1>. DEFINE t == <<u>> \o s
            x == Owes(u, inner, B)
            y == x \o r
<1>12. Remaining(<<b>> \o t, inner, Owes(b, inner, B) \o y, B, R)
  <2>1. t \in Seq(Frames) /\ Remaining(t, inner, y, B, R)
    BY <1>10, <1>11
  <2>. HIDE DEF t, y
  <2>. QED BY <1>6, <1>7, <2>1, PushPlain
<1>13. <<b, u>> \o s = <<b>> \o t
  BY <1>2, <1>7
<1>14. U \o y = q
  <2>1. U \in Seq(Update) /\ x \in Seq(Update)
    <3>1. Owes(b, inner, B) \in Seq(Update) /\ Owes(u, inner, B) \in Seq(Update)
      <4>. HIDE DEF B
      <4>. QED BY <1>0, <1>6, <1>7, OwesType
    <3>. QED BY <1>9, <3>1
  <2>2. q = (U \o x) \o r
    BY <1>3, <1>8
  <2>. HIDE DEF x
  <2>3. (U \o x) \o r = U \o (x \o r)
    BY <2>1, ConcatAssociative
  <2>. QED BY <2>2, <2>3
<1>15. Remaining(stack', known', q, B, R)
  <2>. HIDE DEF B, t, y
  <2>. QED BY <1>1, <1>9, <1>12, <1>13, <1>14
<1>. QED BY <1>1, <1>15, Rest DEF R

\* The updates of the statement that has been reached, and those after it.
LEMMA ExecuteRemaining ==
  ASSUME TypeOK, NEW kinds, Execute(kinds), NEW d, NEW q, Divided(d, q)
  PROVE  \E r \in Seq(Update) :
           /\ q = NB!Queued(Stmt, Env, NB!Updates(NB!Before)) \o r
           /\ Remaining(Advanced, known, r, NB!Before, From(Blocks, proc))
<1>1. (Reached("defaults") \/ Reached("rest")) /\ InPass(Stmt)
  BY DEF Execute
<1>2. Remaining(stack, known, q, NB!Before, From(Blocks, proc))
  BY DEF Divided
<1>. DEFINE R == From(Blocks, proc)
<1>. HIDE DEF R
<1>3. \E r \in Seq(Update) :
        /\ q = NB!Queued(Stmt, Env, NB!Updates(NB!Before)) \o r
        /\ Remaining(Advanced, known, r, NB!Before, R)
  BY <1>1, <1>2, AdvanceRemaining DEF R
<1>. QED BY <1>3 DEF R

\* A statement with one effect.
LEMMA EffectDivided ==
  ASSUME TypeOK, MemFun, NEW kinds, Execute(kinds), NEW d, NEW q, Divided(d, q),
         NEW u \in Effect, NB!Queued(Stmt, Env, NB!Updates(NB!Before)) = <<u>>,
         UNCHANGED <<program, sim, call, proc, known>>, stack' = Advanced,
         Pending' = NB!Applied(Pending, u)
  PROVE  Progress'
<1>. DEFINE R == From(Blocks, proc)
            now == Now
            e == Append(d, u)
<1>1. PICK r \in Seq(Update) : q = <<u>> \o r /\ Remaining(Advanced, known, r, NB!Before, R)
  BY ExecuteRemaining
<1>2. now \in Results
  BY DEF TypeOK, SimOK, MemFun, Results, Now
<1>3. d \in Seq(Effect) /\ NB!Outcome(now, d) = Pending /\ NB!FlattenSeq(Blocks) = d \o q
  BY DEF Divided
<1>4. e \in Seq(Effect)
  BY <1>3, AppendProperties
<1>5. NB!Outcome(now, e) = NB!Applied(NB!Outcome(now, d), u)
  <2>. HIDE DEF now
  <2>. QED BY <1>2, <1>3, AppliedType, OutcomeLaw
<1>6. d \o (<<u>> \o r) = e \o r
  <2>1. d \in Seq(Update) /\ u \in Update /\ <<u>> \in Seq(Update)
    <3>1. Effect \subseteq Update
      BY DEF Update
    <3>2. u \in Update
      BY <3>1
    <3>. HIDE DEF now, e, R
    <3>3. d \in Seq(Update)
      BY <1>3, <3>1
    <3>. QED BY <3>2, <3>3
  <2>2. e = d \o <<u>>
    BY <2>1
  <2>3. (d \o <<u>>) \o r = d \o (<<u>> \o r)
    BY <2>1, ConcatAssociative
  <2>. QED BY <2>2, <2>3
<1>. HIDE DEF e
<1>7. NB!Outcome(Now, e) = Pending'
  BY <1>3, <1>5
<1>8. Remaining(stack', known', r, NB!Before, From(Blocks, proc'))
  BY <1>1
<1>9. NB!FlattenSeq(Blocks) = e \o r
  BY <1>1, <1>3, <1>6
<1>. QED BY <1>4, <1>7, <1>8, <1>9, Redivide

\* A statement with none.
LEMMA NoEffectDivided ==
  ASSUME TypeOK, NEW kinds, Execute(kinds), NEW d, NEW q, Divided(d, q),
         NB!Queued(Stmt, Env, NB!Updates(NB!Before)) = <<>>,
         UNCHANGED <<program, sim, call, proc, known, scratch>>, stack' = Advanced
  PROVE  Progress'
<1>1. PICK r \in Seq(Update) :
        q = <<>> \o r /\ Remaining(Advanced, known, r, NB!Before, From(Blocks, proc))
  BY ExecuteRemaining
<1>2. <<>> \o r = r
  BY ConcatEmptySeq
<1>3. Remaining(stack', known', q, NB!Before, From(Blocks, proc'))
  BY <1>1, <1>2
<1>. QED BY <1>3, Rest

\* What the operands of a statement that runs are.
LEMMA ExecuteQueued ==
  ASSUME TypeOK, NEW kinds, Execute(kinds)
  PROVE  /\ Stmt \in Statement /\ Stmt.kind \in kinds
         /\ \A e \in Operands(Stmt) : ~Fails(e, Env)
         /\ \A e : Value(e) = Eval(e, Env)
         /\ Env.known = known
BY ExecuteType DEF Execute, Value, Env

\* An assignment moves one update from what is left to what has taken effect.
LEMMA AssignDivided ==
  ASSUME TypeOK, MemFun, NEW d, NEW q, Divided(d, q), Assign PROVE Progress'
<1>. DEFINE u == [to |-> "reg", reg |-> Stmt.reg, value |-> Eval(Stmt.val, Env)]
            U == NB!Updates(NB!Before)
<1>1. Execute({"default", "assign"})
      /\ next' = [next EXCEPT ![Stmt.reg] = Fit(Value(Stmt.val), Stmt.reg)]
      /\ stack' = Advanced /\ UNCHANGED <<program, sim, call, proc, known, nextMems, newHits>>
  BY DEF Assign, Advance
<1>2. Stmt.reg \in Reg /\ Value(Stmt.val) \in Int /\ Value(Stmt.val) = Eval(Stmt.val, Env)
  BY <1>1, ExecuteQueued, FieldTypes, ValueType DEF TypeOK
<1>3. u \in Effect
  BY <1>2 DEF Effect
<1>4. NB!Queued(Stmt, Env, U) = <<u>>
  <2>. HIDE DEF U
  <2>. QED BY <1>1, ExecuteQueued, QueuedCases
<1>5. u.to = "reg" /\ u.reg = Stmt.reg /\ u.value = Value(Stmt.val)
  BY <1>2
<1>. HIDE DEF u
<1>6. NB!Applied(Pending, u) = [Pending EXCEPT !.regs[u.reg] = Fit(u.value, u.reg)]
  BY <1>5, AppliedCases
<1>7. Pending' = NB!Applied(Pending, u)
  BY <1>1, <1>5, <1>6 DEF Pending, sim
<1>. QED BY <1>1, <1>3, <1>4, <1>7, EffectDivided

\* A patch does, on the pending value of its register.
LEMMA PatchDivided ==
  ASSUME TypeOK, MemFun, NEW d, NEW q, Divided(d, q), Patch PROVE Progress'
<1>. DEFINE u == [to |-> "bits", reg |-> Stmt.reg, hi |-> Stmt.hi, lo |-> Stmt.lo,
                  value |-> Eval(Stmt.val, Env)]
            U == NB!Updates(NB!Before)
<1>1. Execute({"patch"}) /\ ~OutOfRange(Stmt)
      /\ next' = [next EXCEPT ![Stmt.reg] =
                    Fit(Patched(next[Stmt.reg], Stmt.hi, Stmt.lo, Value(Stmt.val)), Stmt.reg)]
      /\ stack' = Advanced /\ UNCHANGED <<program, sim, call, proc, known, nextMems, newHits>>
  BY DEF Patch, Advance, BadIndex, PatchBase
<1>2. Stmt.reg \in Reg /\ Value(Stmt.val) \in Int /\ Value(Stmt.val) = Eval(Stmt.val, Env)
      /\ Stmt.hi \in Int /\ Stmt.lo \in Int
  BY <1>1, ExecuteQueued, FieldTypes, ValueType DEF TypeOK
<1>0. Stmt.kind = "patch" /\ Env.known = known /\ \A e \in Operands(Stmt) : ~Fails(e, Env)
  BY <1>1, ExecuteQueued
<1>3. u \in Effect
  <2>1. ~OutOfRange(u)
    BY <1>1 DEF OutOfRange
  <2>. QED BY <1>2, <2>1 DEF Effect
<1>4. NB!Queued(Stmt, Env, U) = <<u>>
  <2>. HIDE DEF U
  <2>1. ~OutOfRange(Stmt)
    BY <1>1
  <2>. QED BY <1>0, <2>1, QueuedCases
<1>5. u.to = "bits" /\ u.reg = Stmt.reg /\ u.value = Value(Stmt.val) /\ u.hi = Stmt.hi /\ u.lo = Stmt.lo
  BY <1>2
<1>. HIDE DEF u
<1>6. NB!Applied(Pending, u)
        = [Pending EXCEPT !.regs[u.reg] =
             Fit(Patched(Pending.regs[u.reg], u.hi, u.lo, u.value), u.reg)]
  BY <1>5, AppliedCases
<1>7. Pending' = NB!Applied(Pending, u)
  BY <1>1, <1>5, <1>6 DEF Pending, sim
<1>. QED BY <1>1, <1>3, <1>4, <1>7, EffectDivided

\* A write to memory does, or is dropped where no update was queued.
LEMMA MemWriteDivided ==
  ASSUME TypeOK, MemFun, NEW d, NEW q, Divided(d, q), MemWrite PROVE Progress'
<1>. DEFINE c == <<Stmt.mem, Eval(Stmt.addr, Env)>>
            u == [to |-> "cell", cell |-> c, value |-> Eval(Stmt.val, Env)]
            U == NB!Updates(NB!Before)
<1>1. Execute({"memWrite"})
      /\ nextMems' = Stored(Stmt.mem, Value(Stmt.addr), Value(Stmt.val))
      /\ stack' = Advanced /\ UNCHANGED <<program, sim, call, proc, known, next, newHits>>
  BY DEF MemWrite, Advance
<1>2. Stmt.mem \in Mem /\ Value(Stmt.val) \in Int /\ Value(Stmt.val) = Eval(Stmt.val, Env)
      /\ Value(Stmt.addr) \in Address /\ Value(Stmt.addr) = Eval(Stmt.addr, Env)
  BY <1>1, ExecuteQueued, FieldTypes, ValueType DEF TypeOK
<1>0. Stmt.kind = "memWrite" /\ Env.known = known /\ \A e \in Operands(Stmt) : ~Fails(e, Env)
  BY <1>1, ExecuteQueued
<1>3. c \in Cell <=> Value(Stmt.addr) < Depth[Stmt.mem]
  BY <1>2 DEF Cell
<1>4. CASE c \in Cell
  <2>1. u \in Effect
    BY <1>2, <1>4 DEF Effect
  <2>2. NB!Queued(Stmt, Env, U) = <<u>>
    <3>. HIDE DEF U
    <3>. QED BY <1>0, <1>4, QueuedCases
  <2>3. u.to = "cell" /\ u.cell = c /\ u.value = Value(Stmt.val)
    BY <1>2
  <2>4. c[1] = Stmt.mem /\ c = <<Stmt.mem, Value(Stmt.addr)>>
    BY <1>2
  <2>5. nextMems' = [x \in DOMAIN nextMems \cup {c} |->
                       IF x = c THEN Fit(Value(Stmt.val), c[1]) ELSE nextMems[x]]
    <3>. HIDE DEF c
    <3>. QED BY <1>1, <1>3, <1>4, <2>4 DEF Stored
  <2>. HIDE DEF u, c
  <2>6. NB!Applied(Pending, u)
          = [Pending EXCEPT !.mems = [x \in DOMAIN Pending.mems \cup {u.cell} |->
               IF x = u.cell THEN Fit(u.value, u.cell[1]) ELSE Pending.mems[x]]]
    <3>1. u.to = "cell"
      BY <2>3
    <3>. QED BY <3>1, SameDesign DEF NB!Applied
  <2>7. Pending' = NB!Applied(Pending, u)
    BY <1>1, <2>3, <2>5, <2>6 DEF Pending, sim
  <2>. QED BY <1>1, <2>1, <2>2, <2>7, EffectDivided
<1>5. CASE c \notin Cell
  <2>1. NB!Queued(Stmt, Env, U) = <<>>
    <3>. HIDE DEF U
    <3>. QED BY <1>0, <1>5, QueuedCases
  <2>2. nextMems' = nextMems
    BY <1>1, <1>3, <1>5 DEF Stored
  <2>. QED BY <1>1, <2>1, <2>2, NoEffectDivided DEF scratch
<1>. QED BY <1>4, <1>5

\* A cover that is hit does.
LEMMA CountDivided ==
  ASSUME TypeOK, MemFun, NEW d, NEW q, Divided(d, q), Count PROVE Progress'
<1>. DEFINE u == [to |-> "hit", id |-> Stmt.id]
            U == NB!Updates(NB!Before)
<1>1. Execute({"cover"})
      /\ newHits' = (IF Holds(Stmt.cond) THEN [newHits EXCEPT ![Stmt.id] = @ + 1] ELSE newHits)
      /\ stack' = Advanced /\ UNCHANGED <<program, sim, call, proc, known, next, nextMems>>
  BY DEF Count, Advance
<1>2. Stmt.id \in Cover /\ (Holds(Stmt.cond) <=> True(Eval(Stmt.cond, Env)))
  BY <1>1, ExecuteQueued, FieldTypes DEF Holds
<1>0. Stmt.kind = "cover" /\ Env.known = known /\ \A e \in Operands(Stmt) : ~Fails(e, Env)
  BY <1>1, ExecuteQueued
<1>3. CASE Holds(Stmt.cond)
  <2>1. u \in Effect
    BY <1>2 DEF Effect
  <2>2. NB!Queued(Stmt, Env, U) = <<u>>
    <3>. HIDE DEF U
    <3>. QED BY <1>0, <1>2, <1>3, QueuedCases
  <2>3. u.to = "hit" /\ u.id = Stmt.id
    OBVIOUS
  <2>. HIDE DEF u
  <2>4. NB!Applied(Pending, u) = [Pending EXCEPT !.hits[u.id] = Pending.hits[u.id] + 1]
    BY <2>3, AppliedCases
  <2>5. Plus(hits, newHits') = [Plus(hits, newHits) EXCEPT ![Stmt.id] = Plus(hits, newHits)[Stmt.id] + 1]
    <3>1. newHits' = [newHits EXCEPT ![Stmt.id] = newHits[Stmt.id] + 1]
      BY <1>1, <1>3
    <3>2. hits \in [Cover -> Nat] /\ newHits \in [Cover -> Nat]
      BY DEF TypeOK, SimOK, ScratchOK
    <3>. QED BY <1>2, <3>1, <3>2 DEF Plus
  <2>6. Pending' = NB!Applied(Pending, u)
    BY <1>1, <2>3, <2>4, <2>5 DEF Pending, sim
  <2>. QED BY <1>1, <2>1, <2>2, <2>6, EffectDivided
<1>4. CASE ~Holds(Stmt.cond)
  <2>1. NB!Queued(Stmt, Env, U) = <<>>
    <3>. HIDE DEF U
    <3>. QED BY <1>0, <1>2, <1>4, QueuedCases
  <2>. QED BY <1>1, <1>4, <2>1, NoEffectDivided DEF scratch
<1>. QED BY <1>3, <1>4

\* An assert that holds has no update to move.
LEMMA AssertDivided ==
  ASSUME TypeOK, NEW d, NEW q, Divided(d, q), AssertHolds PROVE Progress'
<1>. DEFINE U == NB!Updates(NB!Before)
<1>1. Execute({"assert"}) /\ True(Eval(Stmt.cond, Env)) /\ stack' = Advanced
      /\ UNCHANGED <<program, sim, call, proc, known, scratch>>
  BY DEF AssertHolds, Advance, Holds, Value
<1>0. Stmt.kind = "assert" /\ Env.known = known /\ \A e \in Operands(Stmt) : ~Fails(e, Env)
  BY <1>1, ExecuteQueued
<1>2. NB!Queued(Stmt, Env, U) = <<>>
  <2>. HIDE DEF U
  <2>1. True(Eval(Stmt.cond, Env))
    BY <1>1
  <2>. QED BY <1>0, <2>1, QueuedCases
<1>. QED BY <1>1, <1>2, NoEffectDivided

\* The statements that push a frame.
LEMMA BranchDivided ==
  ASSUME TypeOK, NEW d, NEW q, Divided(d, q), If \/ EnterLoop PROVE Progress'
<1>. DEFINE U == NB!Updates(NB!Before)
            B == NB!Before
            R == From(Blocks, proc)
<1>0. known \in KnownState /\ B \in EvalState
  BY BeforeType DEF TypeOK, SeqOK
<1>1. UNCHANGED <<program, sim, call, scratch, proc, known>>
  BY DEF If, EnterLoop
<1>2. ASSUME NEW f \in Frames, f.pass # "unbind", stack' = <<f>> \o Advanced, NEW kinds, Execute(kinds),
             Owes(f, known, B) = NB!Queued(Stmt, Env, U)
      PROVE  Progress'
  <2>1. PICK r \in Seq(Update) : q = NB!Queued(Stmt, Env, U) \o r /\ Remaining(Advanced, known, r, B, R)
    BY <1>2, ExecuteRemaining
  <2>2. Advanced \in Seq(Frames)
    BY <1>2, ExecuteType
  <2>. HIDE DEF R, U
  <2>3. Remaining(<<f>> \o Advanced, known, Owes(f, known, B) \o r, B, R)
    BY <1>0, <1>2, <2>1, <2>2, PushPlain
  <2>4. Remaining(stack', known', q, B, R)
    BY <1>1, <1>2, <2>1, <2>3
  <2>. QED BY <1>1, <2>4, Rest DEF R
<1>3. CASE If
  <2>. DEFINE b == IF True(Eval(Stmt.cond, Env)) THEN Stmt.then ELSE Stmt.els
  <2>1. Execute({"if"}) /\ stack' = <<Frame("defaults", b, 1)>> \o Advanced
    BY <1>3 DEF If, Holds, Value
  <2>2. b \in Body
    BY <2>1, ExecuteType, FieldTypes
  <2>0. Stmt.kind = "if" /\ Env.known = known /\ \A e \in Operands(Stmt) : ~Fails(e, Env)
    BY <2>1, ExecuteQueued
  <2>3. NB!Queued(Stmt, Env, U) = U[b][known]
    <3>. HIDE DEF U
    <3>. QED BY <2>0, QueuedCases
  <2>. HIDE DEF b
  <2>4. Frame("defaults", b, 1) \in Frames /\ Frame("defaults", b, 1).pass # "unbind"
    BY <2>2 DEF Frame, Frames, BodyFrame
  <2>5. Owes(Frame("defaults", b, 1), known, B) = U[b][known]
    BY <1>0, <2>2, OwesList
  <2>. QED BY <1>2, <2>1, <2>3, <2>4, <2>5
<1>4. CASE EnterLoop
  <2>. DEFINE lo == Eval(Stmt.lo, Env)
              hi == Eval(Stmt.hi, Env)
              f == Loop("loop", Stmt.body, lo, hi, Stmt.var, Unbound)
  <2>1. Execute({"loop"}) /\ stack' = <<f>> \o Advanced /\ ~(hi - lo > RepeatBudget)
    BY <1>4 DEF EnterLoop, Value, OverBudget
  <2>2. Stmt.body \in Body /\ Stmt.var \in Var /\ lo \in 0 .. MaxBound /\ hi \in 0 .. MaxBound
    BY <2>1, ExecuteType, FieldTypes, ValueType DEF TypeOK, Value
  <2>3. f \in Frames /\ f.pass # "unbind"
    BY <2>2 DEF Loop, Frames, LoopFrame
  <2>0. Stmt.kind = "loop" /\ Env.known = known /\ \A e \in Operands(Stmt) : ~Fails(e, Env)
    BY <2>1, ExecuteQueued
  <2>4. NB!Queued(Stmt, Env, U) = NB!FlattenSeq(Copies(Stmt.body, known, Stmt.var, lo, hi, U))
    <3>1. ~(Eval(Stmt.hi, Env) - Eval(Stmt.lo, Env) > RepeatBudget)
      BY <2>1
    <3>. HIDE DEF U
    <3>. QED BY <2>0, <3>1, QueuedCases
  <2>5. Owes(f, known, B) = NB!FlattenSeq(Copies(Stmt.body, known, Stmt.var, lo, hi, U))
    BY DEF Owes, Loop
  <2>. HIDE DEF f, lo, hi
  <2>. QED BY <1>2, <2>1, <2>3, <2>4, <2>5
<1>. QED BY <1>3, <1>4

\* Applying no updates changes nothing.
LEMMA OutcomeEmpty == ASSUME NEW st PROVE NB!Outcome(st, <<>>) = st
<1>1. <<>> \in Seq({}) /\ st \in {st} /\ \A s \in {st} : \A u \in {} : NB!Applied(s, u) \in {st}
  OBVIOUS
<1>2. PICK f : Outcomes(f, {st}, st, <<>>)
  <2>. DEFINE St == {st}
              Up == {}
              q == <<>>
  <2>1. q \in Seq(Up) /\ st \in St /\ \A s \in St : \A u \in Up : NB!Applied(s, u) \in St
    BY <1>1
  <2>. HIDE DEF St, Up, q
  <2>2. \E f : Outcomes(f, St, st, q)
    BY <2>1, OutcomeSteps
  <2>. QED BY <2>2 DEF St, q
<1>3. Len(<<>>) = 0
  OBVIOUS
<1>. QED BY <1>2, <1>3 DEF Outcomes

\* The start of an edge: no update has taken effect, the stack is empty and all
\* the blocks are left.
LEMMA StartDivided ==
  ASSUME TypeOK, NEW c \in Clock, NEW e \in Edge, StartEdge(c, e) PROVE Progress'
<1>. SUFFICES ASSUME ~ResetNow' PROVE \E d, q : Divided(d, q)'
  BY DEF Progress
<1>. DEFINE B == NB!Before
            p == BlocksOf(program, c, e, B)
            R == From(p, 1)
            none == [v \in Var |-> Unbound]
<1>1. UNCHANGED <<program, sim>> /\ clock' = c /\ edge' = e
  BY DEF StartEdge
<1>2. ~ResetNow
  BY <1>1 DEF ResetNow, sim
<1>3. next' = regs /\ nextMems' = mems /\ newHits' = NoHits /\ proc' = 1 /\ stack' = <<>>
      /\ known' = none
  BY <1>2 DEF StartEdge, StartMems
<1>4. B' = B
  BY <1>1 DEF NB!Before, sim
<1>5. Blocks' = p
  BY <1>1, <1>4 DEF Blocks, BlocksOf
<1>6. B \in EvalState /\ program \in Programs
  BY BeforeType DEF TypeOK, SimOK
<1>7. p \in Seq(Seq(Update)) /\ R \in Seq(Update) /\ R = NB!FlattenSeq(p)
  <2>. HIDE DEF B
  <2>1. p \in Seq(Seq(Update))
    BY <1>6, BlocksType
  <2>. HIDE DEF p
  <2>2. From(p, 1) = NB!FlattenSeq(p) /\ \A at \in Nat \ {0} : From(p, at) \in Seq(Update)
    BY <2>1, FromLaw
  <2>. QED BY <2>1, <2>2
<1>8. Pending' = Now'
  <2>1. Plus(hits, NoHits) = hits
    BY DEF Plus, NoHits, TypeOK, SimOK
  <2>. QED BY <1>1, <1>3, <2>1 DEF Pending, Now, sim
<1>9. NB!Outcome(Now', <<>>) = Pending'
  BY <1>8, OutcomeEmpty
<1>10. Remaining(<<>>, none, R, B, R)
  <2>. HIDE DEF R, B
  <2>. QED BY <1>7, RemainingEmpty
<1>11. Remaining(stack', known', R, B', From(Blocks', proc'))
  <2>1. From(Blocks', proc') = R
    BY <1>3, <1>5
  <2>. HIDE DEF R, B, none
  <2>. QED BY <1>3, <1>4, <1>10, <2>1
<1>12. NB!FlattenSeq(p) = <<>> \o R
  <2>. HIDE DEF p
  <2>. QED BY <1>7, ConcatEmptySeq
<1>15. <<>> \in Seq(Effect)
  OBVIOUS
<1>16. \E d, q : Divided(d, q)'
  <2>1. Remaining(stack', known', R, NB!Before', From(Blocks', proc'))
    BY <1>11
  <2>2. NB!FlattenSeq(Blocks') = <<>> \o R /\ NB!Outcome(Now', <<>>) = Pending'
    BY <1>5, <1>9, <1>12
  <2>. HIDE DEF R
  <2>. QED BY <1>15, <2>1, <2>2 DEF Divided
<1>. QED BY <1>16

\* Every step keeps the queue divided.
LEMMA ProgressStep == TypeOK /\ MemFun /\ Progress /\ [Next]_vars => Progress'
<1>. SUFFICES ASSUME TypeOK, MemFun, Progress, [Next]_vars PROVE Progress'
  OBVIOUS
<1>1. ASSUME pc' # "body" PROVE Progress'
  BY <1>1 DEF Progress
<1>2. CASE \/ \E n \in Leaf, v \in 0 .. 2^MaxWidth : Set(n, v)
           \/ EvalError \/ PatchError \/ LoopError \/ AssertFails \/ AssertsFail \/ TallyError
           \/ Commit \/ AssertsHold \/ Tally
  BY <1>1, <1>2 DEF Set, EvalError, PatchError, LoopError, AssertFails, AssertsFail, TallyError,
                    Stop, Commit, AssertsHold, Tally
<1>3. CASE TickFall \/ \E c \in Clock : Tick(c) \/ \E e \in Edge : TickEdge(c, e)
  <2>1. \E c \in Clock, e \in Edge : StartEdge(c, e)
    BY <1>3 DEF TickFall, Tick, TickEdge, Edge, TypeOK, CallOK
  <2>. QED BY <2>1, StartDivided
<1>4. CASE \/ EnterProcess \/ Skip \/ EndPass \/ EndLoop \/ Unbind \/ Iterate \/ If \/ EnterLoop
           \/ Assign \/ MemWrite \/ Patch \/ AssertHolds \/ Count
  <2>1. pc = "body" /\ UNCHANGED sim
    BY <1>4 DEF EnterProcess, Skip, EndPass, EndLoop, Unbind, Iterate, If, EnterLoop, Assign,
                MemWrite, Patch, AssertHolds, Count, Execute, Reached, Running
  <2>2. ResetNow' <=> ResetNow
    BY <2>1 DEF ResetNow, sim
  <2>3. CASE ResetNow
    BY <2>2, <2>3 DEF Progress
  <2>4. CASE ~ResetNow
    <3>1. PICK d, q : Divided(d, q)
      BY <2>1, <2>4 DEF Progress
    <3>2. CASE EnterProcess \/ Skip \/ EndPass \/ EndLoop \/ Unbind \/ Iterate
      BY <3>1, <3>2, EnterDivided, WalkDivided, IterateDivided
    <3>3. CASE If \/ EnterLoop \/ AssertHolds
      BY <3>1, <3>3, BranchDivided, AssertDivided
    <3>4. CASE Assign \/ MemWrite \/ Patch \/ Count
      BY <3>1, <3>4, AssignDivided, MemWriteDivided, PatchDivided, CountDivided
    <3>. QED BY <1>4, <3>2, <3>3, <3>4
  <2>. QED BY <2>3, <2>4
<1>5. CASE UNCHANGED vars
  <2>1. UNCHANGED <<program, sim, call, pc, seq, scratch>>
    BY <1>5 DEF vars
  <2>2. CASE pc = "body" /\ ~ResetNow
    <3>1. PICK d, q : Divided(d, q)
      BY <2>2 DEF Progress
    <3>2. Remaining(stack', known', q, NB!Before, From(Blocks, proc'))
      BY <2>1, <3>1 DEF Divided, seq
    <3>. QED BY <2>1, <3>1, <3>2, Rest
  <2>3. CASE ~(pc = "body" /\ ~ResetNow)
    <3>1. ResetNow' <=> ResetNow
      BY <2>1 DEF ResetNow, sim
    <3>. QED BY <2>1, <2>3, <3>1 DEF Progress
  <2>. QED BY <2>2, <2>3
<1>. QED BY <1>2, <1>3, <1>4, <1>5 DEF Next, Step, Request
-----------------------------------------------------------------------------
\* What an edge of the kernel is about to do: after the bodies, the asserts see
\* the state outside of every loop, and the covers are reached only if they hold.
Settled ==
  /\ pc \in {"asserts", "covers"} => stack = <<>>
  /\ pc = "covers" => BadAsserts = {}

\* The steps keep the state settled.
LEMMA SettledStep == TypeOK /\ Settled /\ [Next]_vars => Settled'
<1>. SUFFICES ASSUME TypeOK, Settled, [Next]_vars PROVE Settled'
  OBVIOUS
<1>1. ASSUME pc' \notin {"asserts", "covers"} PROVE Settled'
  BY <1>1 DEF Settled
<1>2. CASE Commit
  BY <1>2 DEF Commit, Settled, seq
<1>3. CASE AssertsHold
  <2>1. UNCHANGED <<sim, seq>> /\ pc = "asserts" /\ BadAsserts = {} /\ pc' = "covers"
    BY <1>3 DEF AssertsHold
  <2>2. BadAsserts' = BadAsserts
    BY <2>1 DEF BadAsserts, Env, MemRead, Holds, Value, sim, seq
  <2>. QED BY <2>1, <2>2 DEF Settled, seq
<1>4. CASE UNCHANGED vars
  <2>1. UNCHANGED <<sim, seq, pc>>
    BY <1>4 DEF vars
  <2>2. BadAsserts' = BadAsserts
    BY <2>1 DEF BadAsserts, Env, MemRead, Holds, Value, sim, seq
  <2>. QED BY <2>1, <2>2 DEF Settled, seq
<1>5. CASE Request \/ TickFall
  BY <1>1, <1>5 DEF Request, TickFall, Set, Tick, TickEdge, StartEdge
<1>6. CASE Tally \/ TallyError \/ AssertsFail \/ EvalError \/ PatchError \/ LoopError \/ AssertFails
  BY <1>1, <1>6 DEF Tally, TallyError, AssertsFail, EvalError, PatchError, LoopError, AssertFails, Stop
<1>7. CASE \/ EnterProcess \/ Skip \/ EndPass \/ EndLoop \/ Unbind \/ Iterate \/ If \/ EnterLoop
           \/ Assign \/ MemWrite \/ Patch \/ AssertHolds \/ Count
  <2>1. pc' = "body"
    BY <1>7 DEF EnterProcess, Skip, EndPass, EndLoop, Unbind, Iterate, If, EnterLoop, Assign,
                MemWrite, Patch, AssertHolds, Count, Execute, Reached, Running
  <2>. QED BY <1>1, <2>1
<1>. QED BY <1>2, <1>3, <1>4, <1>5, <1>6, <1>7 DEF Next, Step

\* Outside of the bodies the expressions see the state before the next edge.
LEMMA EnvSettled ==
  ASSUME TypeOK, ScopeInv, stack = <<>> PROVE Env = NB!Before
<1>1. known = [v \in Var |-> Unbound]
  <2>1. \A v \in Var : known[v] = Unbound
    BY ScopedFromInv DEF Scoped, Binders, Innermost
  <2>. QED BY <2>1 DEF TypeOK, SeqOK, KnownState
<1>2. NB!Before \in EvalState /\ Env = Here(NB!Before, known)
  BY BeforeType DEF TypeOK
<1>3. NB!Before.known = [v \in Var |-> Unbound]
  BY DEF NB!Before, NB!NoneBound
<1>4. Here(NB!Before, NB!Before.known) = NB!Before
  <2>. DEFINE B == NB!Before
  <2>. HIDE DEF B
  <2>1. Here(B, B.known) = B
    BY <1>2 DEF EvalState, Here, B
  <2>. QED BY <2>1 DEF B
<1>. QED BY <1>1, <1>2, <1>3, <1>4
-----------------------------------------------------------------------------
\* The abstract edge starts where the kernel does.
LEMMA InitImplements == Init => NB!Init
<1>. SUFFICES ASSUME Init PROVE NB!Init
  OBVIOUS
<1>1. [r \in Reg |-> NB!Fit(ResetValue[r], r)] = [r \in Reg |-> Fit(ResetValue[r], r)]
  BY SameDesign
<1>2. NB!NoHits = NoHits /\ NB!Leaf = Leaf
  BY DEF NB!NoHits, NoHits, NB!Leaf, Leaf
<1>. QED BY <1>1, <1>2 DEF Init, NB!Init

\* A leaf takes a word of its own.
LEMMA SetImplements ==
  ASSUME TypeOK, NEW n \in Leaf, NEW v \in 0 .. 2^MaxWidth, Set(n, v) PROVE NB!Next
<1>1. Fit(v, n) \in NB!Word(n)
  <2>1. v \in Int
    BY SignalAssumption
  <2>2. Fit(v, n) \in Word(n)
    BY <2>1, FitType
  <2>. QED BY <2>2 DEF Word, NB!Word
<1>2. NB!Set(n, Fit(v, n))
  BY DEF Set, NB!Set, call
<1>. QED BY <1>1, <1>2 DEF NB!Next, Leaf, NB!Leaf

\* The calls of the caller, and the falling half of a tick.
LEMMA StartImplements ==
  ASSUME TypeOK, TickFall \/ \E c \in Clock : Tick(c) \/ \E e \in Edge : TickEdge(c, e)
  PROVE  NB!Next
<1>1. ASSUME NEW c \in Clock, Tick(c) PROVE NB!Start(c, "rise", TRUE)
  BY <1>1 DEF Tick, StartEdge, NB!Start, sim, NB!sim
<1>2. ASSUME NEW c \in Clock, NEW e \in Edge, TickEdge(c, e) PROVE NB!Start(c, e, FALSE)
  BY <1>2 DEF TickEdge, StartEdge, NB!Start, sim, NB!sim, TypeOK, CallOK
<1>3. CASE TickFall
  BY <1>3 DEF TickFall, StartEdge, NB!StartFall, sim, NB!sim, NB!Next
<1>. QED BY <1>1, <1>2, <1>3 DEF NB!Next, NB!Edge, Edge

\* The steps of the bodies, and the asserts that hold, are within the edge.
LEMMA BodyStutters ==
  ASSUME TypeOK,
         \/ EnterProcess \/ Skip \/ EndPass \/ EndLoop \/ Unbind \/ Iterate \/ If \/ EnterLoop
         \/ Assign \/ MemWrite \/ Patch \/ AssertHolds \/ Count \/ AssertsHold
  PROVE  UNCHANGED NB!vars
<1>1. UNCHANGED <<program, sim, call, error, ticks>>
  BY DEF EnterProcess, Skip, EndPass, EndLoop, Unbind, Iterate, If, EnterLoop, Assign,
         MemWrite, Patch, AssertHolds, Count, AssertsHold, call, sim
<1>2. (pc = "body" /\ pc' = "body") \/ (pc = "asserts" /\ pc' = "covers")
  BY DEF EnterProcess, Skip, EndPass, EndLoop, Unbind, Iterate, If, EnterLoop, Assign,
         MemWrite, Patch, AssertHolds, Count, AssertsHold, Execute, Reached, Running
<1>. QED BY <1>1, <1>2 DEF NB!vars, NB!sim, sim, call
-----------------------------------------------------------------------------
\* The asserts of the design, on the state the edge has committed.
LEMMA VerdictAsserts ==
  ASSUME TypeOK, ScopeInv, stack = <<>>
  PROVE  /\ NB!SettleVerdict = {} <=> BadAsserts = {}
         /\ \A i \in BadAsserts : Asserts[i] \in NB!SettleVerdict
<1>1. Env = NB!Before
  BY EnvSettled
<1>2. \A i \in DOMAIN Asserts : (i \in BadAsserts <=> Asserts[i] \in NB!SettleVerdict)
  BY <1>1, SameDesign DEF BadAsserts, NB!SettleVerdict, Holds, Value, NB!Range
<1>3. \A a \in NB!SettleVerdict : \E i \in DOMAIN Asserts : a = Asserts[i]
  BY DEF NB!SettleVerdict, NB!Range
<1>. QED BY <1>2, <1>3 DEF BadAsserts

\* An assert that fails after the edge stops the abstract edge with the same error.
LEMMA AssertsImplement ==
  ASSUME TypeOK, ScopeInv, Settled, AssertsFail PROVE NB!FailedSettle
<1>1. pc = "asserts" /\ stack = <<>> /\ UNCHANGED <<program, sim, call, ticks>> /\ pc' = "stopped"
  BY DEF AssertsFail, Stop, Settled
<1>2. PICK i \in BadAsserts : error' = IF Fails(Asserts[i], Env) THEN "eval" ELSE "assert"
  BY DEF AssertsFail, Stop
<1>3. Asserts[i] \in NB!SettleVerdict /\ Env = NB!Before
  BY <1>1, VerdictAsserts, EnvSettled
<1>4. \/ /\ \E a \in NB!SettleVerdict : Fails(a, NB!Before)
         /\ error' = "eval"
      \/ /\ \E a \in NB!SettleVerdict : ~Fails(a, NB!Before)
         /\ error' = "assert"
  BY <1>2, <1>3
<1>. QED BY <1>1, <1>4 DEF NB!FailedSettle, sim, NB!sim, call

\* The covers of the design.
LEMMA CoversImplement ==
  ASSUME TypeOK, ScopeInv, Settled, Tally \/ TallyError
  PROVE  NB!Settle \/ NB!FailedSettle
<1>1. pc = "covers" /\ stack = <<>> /\ BadAsserts = {}
  BY DEF Tally, TallyError, Settled
<1>2. NB!SettleVerdict = {} /\ Env = NB!Before
  BY <1>1, VerdictAsserts, EnvSettled
<1>3. CASE Tally
  <2>1. hits' = [c \in Cover |->
                  IF c \in CombCover /\ NB!True(Eval(CoverCond[c], NB!Before)) THEN hits[c] + 1 ELSE hits[c]]
    <3>1. \A c \in Cover : hits[c] + CombHits[c]
            = IF c \in CombCover /\ NB!True(Eval(CoverCond[c], NB!Before)) THEN hits[c] + 1 ELSE hits[c]
      <4>1. \A c \in Cover : CombHits[c]
              = IF c \in CombCover /\ NB!True(Eval(CoverCond[c], NB!Before)) THEN 1 ELSE 0
        BY <1>2, SameDesign DEF CombHits, Holds, Value
      <4>2. \A c \in Cover : hits[c] \in Nat
        BY DEF TypeOK, SimOK
      <4>. QED BY <4>1, <4>2
    <3>. QED BY <1>3, <3>1 DEF Tally, Plus
  <2>2. \A c \in CombCover : ~Fails(CoverCond[c], NB!Before)
    BY <1>2, <1>3 DEF Tally
  <2>3. UNCHANGED <<program, leaves, regs, mems, call, error, ticks>> /\ pc' = "ready"
    BY <1>3 DEF Tally
  <2>. QED BY <1>1, <1>2, <2>1, <2>2, <2>3 DEF NB!Settle, call
<1>4. CASE TallyError
  BY <1>1, <1>2, <1>4 DEF TallyError, Stop, NB!FailedSettle, sim, NB!sim, call
<1>. QED BY <1>3, <1>4

\* A commit under reset.
LEMMA ResetImplements ==
  ASSUME TypeOK, ResetPending, Commit, ResetNow PROVE NB!ResetEdge
<1>1. NB!ResetNow
  BY SameDesign DEF ResetNow, NB!ResetNow
<1>2. nextMems = mems /\ newHits = NoHits
      /\ \A r \in Reg : next[r] = IF OnEdge(r, clock, edge) THEN Fit(ResetValue[r], r) ELSE regs[r]
  BY DEF ResetPending, Commit
<1>3. next = NB!ResetRegs(clock, edge)
  BY <1>2, SameDesign DEF NB!ResetRegs, OnEdge, TypeOK, ScratchOK, RegState
<1>4. Plus(hits, newHits) = hits
  BY <1>2 DEF Plus, NoHits, TypeOK, SimOK
<1>. QED BY <1>1, <1>2, <1>3, <1>4 DEF Commit, NB!ResetEdge, call

\* What is left of the queue when the blocks have been run.
LEMMA NothingLeft ==
  ASSUME TypeOK, NEW d, NEW q, Divided(d, q), stack = <<>>, proc > Len(program)
  PROVE  NB!FlattenSeq(Blocks) = d
<1>. DEFINE B == NB!Before
            p == Blocks
<1>1. B \in EvalState /\ program \in Programs /\ proc \in Nat \ {0}
  BY BeforeType DEF TypeOK, SimOK, SeqOK
<1>2. p \in Seq(Seq(Update)) /\ Len(p) = Len(program)
  <2>. HIDE DEF B
  <2>1. BlocksOf(program, clock, edge, B) = p
    BY DEF Blocks, B
  <2>. QED BY <1>1, <2>1, BlocksType
<1>3. From(p, proc) = <<>> /\ <<>> \in Seq(Update)
  <2>. HIDE DEF p
  <2>1. \A at \in Nat \ {0} : at > Len(p) => From(p, at) = <<>>
    BY <1>2, FromLaw
  <2>. QED BY <1>1, <1>2, <2>1
<1>4. q = <<>>
  <2>1. Remaining(<<>>, known, q, B, <<>>)
    BY <1>3 DEF Divided
  <2>. DEFINE R == <<>>
  <2>2. R \in Seq(Update)
    BY <1>3
  <2>. HIDE DEF R
  <2>3. \A k, x : Remaining(<<>>, k, x, B, R) => x = R
    <3>. HIDE DEF B
    <3>. QED BY <2>2, RemainingEmpty
  <2>. QED BY <2>1, <2>3 DEF R
<1>5. d \in Seq(Effect) /\ NB!FlattenSeq(p) = d \o q
  BY DEF Divided
<1>. QED BY <1>4, <1>5, ConcatEmptySeq

\* A commit of the bodies.
LEMMA CommitImplements ==
  ASSUME TypeOK, Progress, Commit, ~ResetNow PROVE NB!ClockedEdge
<1>1. ~NB!ResetNow
  BY SameDesign DEF ResetNow, NB!ResetNow
<1>2. PICK d, q : Divided(d, q)
  BY DEF Progress, Commit
<1>3. NB!FlattenSeq(Blocks) = d
  BY <1>2, NothingLeft DEF Commit
<1>. DEFINE o == [i \in 1 .. Len(program) |-> i]
<1>4. o \in NB!Orders /\ NB!Queue(clock, edge, o) = d
  BY <1>3, QueueBlocks DEF TypeOK
<1>5. NB!Errors(d) = {}
  <2>1. d \in Seq(Effect)
    BY <1>2 DEF Divided
  <2>2. \A i \in DOMAIN d : d[i] \in Effect
    BY <2>1
  <2>3. \A u \in Effect : u.to # "error"
    BY DEF Effect
  <2>. QED BY <2>2, <2>3 DEF NB!Errors
<1>6. NB!After(d) = [regs |-> next, mems |-> nextMems, hits |-> Plus(hits, newHits)]
  BY <1>2 DEF Divided, NB!After, Now, Pending
<1>7. regs' = NB!After(d).regs /\ mems' = NB!After(d).mems /\ hits' = NB!After(d).hits
  BY <1>6 DEF Commit
<1>. HIDE DEF o
<1>8. \E order \in NB!Orders :
        LET queue == NB!Queue(clock, edge, order) IN
        /\ NB!Errors(queue) = {}
        /\ regs' = NB!After(queue).regs /\ mems' = NB!After(queue).mems
        /\ hits' = NB!After(queue).hits
  BY <1>4, <1>5, <1>7
<1>. QED BY <1>1, <1>8 DEF Commit, NB!ClockedEdge, call

\* The first error of a queue is this one.
FailsWith(queue, why) ==
  NB!Errors(queue) # {} /\ queue[NB!Min(NB!Errors(queue))].why = why

\* The place of the first error of a queue whose head has taken effect.
LEMMA FirstError ==
  ASSUME NEW d \in Seq(Effect), NEW r \in Seq(Update), NEW why
  PROVE  FailsWith(d \o (NB!Failure(why) \o r), why)
<1>. DEFINE u == [to |-> "error", why |-> why]
            f == <<u>>
            t == f \o r
            queue == d \o t
            n == Len(d)
            T == Update \cup {u}
<1>1. d \in Seq(T) /\ r \in Seq(T) /\ f \in Seq(T) /\ u \in T /\ n \in Nat
      /\ \A i \in 1 .. n : d[i] \in Effect
  <2>1. Effect \subseteq T /\ Update \subseteq T
    BY DEF Update
  <2>2. u \in T
    OBVIOUS
  <2>. HIDE DEF T, u
  <2>. QED BY <2>1, <2>2
<1>2. u.to = "error" /\ u.why = why
  OBVIOUS
<1>3. f[1] = u /\ Len(f) = 1
  OBVIOUS
<1>. HIDE DEF u, T, f
<1>4. t \in Seq(T) /\ t[1] = u /\ Len(t) \in Nat /\ Len(t) >= 1
  <2>1. f \o r \in Seq(T) /\ Len(f \o r) = Len(f) + Len(r) /\ Len(r) \in Nat
        /\ \A i \in 1 .. Len(f) + Len(r) : (f \o r)[i] = IF i <= Len(f) THEN f[i] ELSE r[i - Len(f)]
    BY <1>1, ConcatProperties, LenProperties
  <2>2. 1 \in 1 .. Len(f) + Len(r)
    BY <1>3, <2>1
  <2>. QED BY <1>3, <2>1, <2>2
<1>. HIDE DEF t
<1>5. Len(queue) = n + Len(t) /\ DOMAIN queue = 1 .. n + Len(t)
      /\ \A i \in 1 .. n + Len(t) : queue[i] = IF i <= n THEN d[i] ELSE t[i - n]
  <2>1. queue \in Seq(T) /\ Len(queue) = n + Len(t)
    BY <1>1, <1>4, ConcatProperties
  <2>2. \A i \in 1 .. n + Len(t) : queue[i] = IF i <= n THEN d[i] ELSE t[i - n]
    BY <1>1, <1>4, ConcatProperties
  <2>. HIDE DEF queue
  <2>. QED BY <2>1, <2>2, LenProperties
<1>. HIDE DEF queue
<1>6. queue[n + 1] = u /\ n + 1 \in DOMAIN queue
  <2>. HIDE DEF n
  <2>. QED BY <1>1, <1>4, <1>5
<1>7. \A i \in DOMAIN queue : i \in Nat /\ (i <= n => queue[i].to # "error")
  <2>1. \A x \in Effect : x.to # "error"
    BY DEF Effect
  <2>2. ASSUME NEW i \in 1 .. n + Len(t), i <= n PROVE queue[i] \in Effect
    <3>1. i \in 1 .. n
      BY <1>1, <1>4, <2>2
    <3>. QED BY <1>1, <1>5, <3>1, <2>2
  <2>. QED BY <1>1, <1>4, <1>5, <2>1, <2>2
<1>. DEFINE E == NB!Errors(queue)
<1>8. n + 1 \in E /\ \A i \in E : n + 1 <= i
  <2>1. \A i \in E : i \in Nat /\ ~(i <= n)
    BY <1>7 DEF NB!Errors
  <2>2. n + 1 \in E
    BY <1>2, <1>6 DEF NB!Errors
  <2>. HIDE DEF E
  <2>. QED BY <1>1, <2>1, <2>2
<1>9. E \subseteq Nat
  BY <1>7 DEF NB!Errors
<1>. HIDE DEF E
<1>10. NB!Min(E) = n + 1
  <2>. DEFINE Least(x) == x \in E /\ \A y \in E : x <= y
  <2>1. Least(n + 1)
    BY <1>8
  <2>3. ASSUME NEW x, Least(x) PROVE x = n + 1
    <3>1. x \in Nat /\ n + 1 <= x /\ x <= n + 1
      BY <1>8, <1>9, <2>3
    <3>. QED BY <1>1, <3>1
  <2>2. NB!Min(E) = CHOOSE x : Least(x)
    BY DEF NB!Min
  <2>. HIDE DEF Least
  <2>. QED BY <2>1, <2>2, <2>3
<1>11. NB!Failure(why) = f
  BY DEF NB!Failure, f, u
<1>12. d \o (NB!Failure(why) \o r) = queue
  BY <1>11 DEF queue, t
<1>13. FailsWith(queue, why)
  BY <1>2, <1>6, <1>8, <1>10 DEF E, FailsWith
<1>. QED BY <1>12, <1>13

\* A body that fails has no effect.
LEMMA FailureImplements ==
  ASSUME TypeOK, pc = "body", ~ResetNow, NEW d, NEW q, Divided(d, q), NEW why, Stop(why),
         NEW r \in Seq(Update), q = NB!Failure(why) \o r
  PROVE  NB!FailedEdge
<1>1. ~NB!ResetNow
  BY SameDesign DEF ResetNow, NB!ResetNow
<1>. DEFINE o == [i \in 1 .. Len(program) |-> i]
            queue == d \o (NB!Failure(why) \o r)
<1>2. o \in NB!Orders /\ NB!Queue(clock, edge, o) = queue
  BY QueueBlocks DEF TypeOK, Divided
<1>3. d \in Seq(Effect)
  BY DEF Divided
<1>4. FailsWith(queue, why)
  <2>. HIDE DEF Divided
  <2>. QED BY <1>3, FirstError
<1>5. NB!Errors(queue) # {} /\ queue[NB!Min(NB!Errors(queue))].why = why
  BY <1>4 DEF FailsWith
<1>6. error' = why /\ pc' = "stopped" /\ UNCHANGED <<program, sim, call, ticks>>
  BY DEF Stop
<1>. HIDE DEF o, queue
<1>7. \E order \in NB!Orders :
        LET x == NB!Queue(clock, edge, order) IN
        /\ NB!Errors(x) # {}
        /\ error' = x[NB!Min(NB!Errors(x))].why
  BY <1>2, <1>5, <1>6
<1>. QED BY <1>1, <1>6, <1>7 DEF NB!FailedEdge, sim, NB!sim, call

\* No patch of the design has a loop variable in its bounds.
PlainPatches == \A b \in Body : \A i \in DOMAIN b : b[i].kind = "patch" => ~b[i].usesVar

\* The statements that stop the edge.
LEMMA StopImplements ==
  ASSUME TypeOK, Progress, ResetPending, PlainPatches,
         EvalError \/ PatchError \/ LoopError \/ AssertFails
  PROVE  NB!FailedEdge
<1>. DEFINE U == NB!Updates(NB!Before)
<1>1. (Reached("defaults") \/ Reached("rest")) /\ InPass(Stmt) /\ pc = "body"
  BY DEF EvalError, PatchError, LoopError, AssertFails, Execute, Reached, Running
<1>2. ~ResetNow
  BY <1>1 DEF ResetPending, Reached, Running
<1>3. PICK d, q : Divided(d, q)
  BY <1>1, <1>2 DEF Progress
<1>4. PICK r \in Seq(Update) : q = NB!Queued(Stmt, Env, U) \o r
  <2>1. Remaining(stack, known, q, NB!Before, From(Blocks, proc))
    BY <1>3 DEF Divided
  <2>. QED BY <1>1, <2>1, AdvanceRemaining
<1>5. ASSUME NEW why, Stop(why), NB!Queued(Stmt, Env, U) = NB!Failure(why) PROVE NB!FailedEdge
  <2>1. q = NB!Failure(why) \o r
    BY <1>4, <1>5
  <2>. QED BY <1>1, <1>2, <1>3, <1>5, <2>1, FailureImplements
<1>. HIDE DEF U
<1>6. CASE EvalError
  <2>1. Stop("eval") /\ \E e \in Operands(Stmt) : Fails(e, Env)
    BY <1>6 DEF EvalError
  <2>2. NB!Queued(Stmt, Env, U) = NB!Failure("eval")
    BY <2>1, QueuedCases
  <2>. QED BY <1>5, <2>1, <2>2
<1>7. CASE PatchError
  <2>1. Stop("index") /\ Execute({"patch"}) /\ BadIndex(Stmt)
    BY <1>7 DEF PatchError
  <2>2. Stmt.kind = "patch" /\ \A e \in Operands(Stmt) : ~Fails(e, Env)
    BY <2>1 DEF Execute
  <2>3. OutOfRange(Stmt)
    <3>1. Top.body \in Body /\ Top.at \in DOMAIN Top.body
      BY <1>1, StmtType DEF TypeOK
    <3>2. ~Stmt.usesVar
      BY <2>2, <3>1 DEF PlainPatches, Stmt
    <3>. QED BY <2>1, <3>2 DEF BadIndex
  <2>4. NB!Queued(Stmt, Env, U) = NB!Failure("index")
    BY <2>2, <2>3, QueuedCases
  <2>. QED BY <1>5, <2>1, <2>4
<1>8. CASE LoopError
  <2>1. Stop("budget") /\ Execute({"loop"}) /\ Eval(Stmt.hi, Env) - Eval(Stmt.lo, Env) > RepeatBudget
    BY <1>8 DEF LoopError, OverBudget, Value
  <2>2. Stmt.kind = "loop" /\ \A e \in Operands(Stmt) : ~Fails(e, Env)
    BY <2>1 DEF Execute
  <2>3. NB!Queued(Stmt, Env, U) = NB!Failure("budget")
    BY <2>1, <2>2, QueuedCases
  <2>. QED BY <1>5, <2>1, <2>3
<1>9. CASE AssertFails
  <2>1. Stop("assert") /\ Execute({"assert"}) /\ ~True(Eval(Stmt.cond, Env))
    BY <1>9 DEF AssertFails, Holds, Value
  <2>2. Stmt.kind = "assert" /\ \A e \in Operands(Stmt) : ~Fails(e, Env)
    BY <2>1 DEF Execute
  <2>3. NB!Queued(Stmt, Env, U) = NB!Failure("assert")
    BY <2>1, <2>2, QueuedCases
  <2>. QED BY <1>5, <2>1, <2>3
<1>. QED BY <1>6, <1>7, <1>8, <1>9

\* Every step of the kernel is a step of the abstract edge, or none.
LEMMA StepImplements ==
  ASSUME TypeOK, ScopeInv, ResetPending, Progress, Settled, PlainPatches, [Next]_vars
  PROVE  [NB!Next]_NB!vars
<1>1. CASE Request \/ TickFall
  BY <1>1, SetImplements, StartImplements DEF Request
<1>2. CASE \/ EnterProcess \/ Skip \/ EndPass \/ EndLoop \/ Unbind \/ Iterate \/ If \/ EnterLoop
           \/ Assign \/ MemWrite \/ Patch \/ AssertHolds \/ Count \/ AssertsHold
  BY <1>2, BodyStutters
<1>3. CASE EvalError \/ PatchError \/ LoopError \/ AssertFails
  BY <1>3, StopImplements DEF NB!Next
<1>4. CASE Commit
  BY <1>4, ResetImplements, CommitImplements DEF NB!Next
<1>5. CASE AssertsFail \/ Tally \/ TallyError
  BY <1>5, AssertsImplement, CoversImplement DEF NB!Next
<1>6. CASE UNCHANGED vars
  BY <1>6 DEF vars, sim, call, NB!vars, NB!sim
<1>. QED BY <1>1, <1>2, <1>3, <1>4, <1>5, <1>6 DEF Next, Step

\* The kernel implements non-blocking assignment, for every design whose patches
\* have constant bounds: interpreting the bodies into scratch copies has the effect of
\* evaluating all of them in the state before the edge and then applying the updates.
THEOREM KernelImplementsNonBlocking == ASSUME PlainPatches PROVE Spec => ImplementsNonBlocking
<1>1. Init => ResetPending /\ ScopeInv /\ Progress /\ Settled
  BY ScopesEmpty DEF Init, ResetPending, ScopeInv, Progress, Settled
<1>2. TypeOK /\ ScopeInv /\ ResetPending /\ Progress /\ Settled /\ [Next]_vars => [NB!Next]_NB!vars
  BY StepImplements
<1>. QED BY <1>1, <1>2, InitType, TypeStep, MemFunInit, MemFunStep, ScopeStep, ResetStep,
            ProgressStep, SettledStep, InitImplements, PTL
     DEF Spec, ImplementsNonBlocking, NB!Spec
-----------------------------------------------------------------------------
\* A function on 1 .. n is a sequence.
LEMMA FunctionSeq ==
  ASSUME NEW T, NEW n \in Nat, NEW f \in [1 .. n -> T]
  PROVE  f \in Seq(T) /\ Len(f) = n
OBVIOUS

\* A register or a memory cell, what it holds, and the updates that change it.
Place == ({"reg"} \X Reg) \cup ({"cell"} \X (Mem \X Address))
Look(o, x) == IF x[1] = "reg" THEN <<o.regs[x[2]]>>
              ELSE IF x[2] \in DOMAIN o.mems THEN <<o.mems[x[2]]>> ELSE <<>>
Touches(u, x) == IF x[1] = "reg" THEN u.to \in {"reg", "bits"} /\ u.reg = x[2]
                                 ELSE u.to = "cell" /\ u.cell = x[2]

\* What an effect does to the registers, and what it does to the memories.
LEMMA AppliedFields ==
  ASSUME NEW o \in Results, NEW u \in Effect
  PROVE  /\ u.to = "reg" => NB!Applied(o, u).regs = [o.regs EXCEPT ![u.reg] = Fit(u.value, u.reg)]
         /\ u.to = "bits" => NB!Applied(o, u).regs
              = [o.regs EXCEPT ![u.reg] = Fit(Patched(o.regs[u.reg], u.hi, u.lo, u.value), u.reg)]
         /\ u.to \in {"cell", "hit"} => NB!Applied(o, u).regs = o.regs
         /\ u.to = "cell" => NB!Applied(o, u).mems
              = [c \in DOMAIN o.mems \cup {u.cell} |->
                   IF c = u.cell THEN Fit(u.value, u.cell[1]) ELSE o.mems[c]]
         /\ u.to # "cell" => NB!Applied(o, u).mems = o.mems
         /\ u.to # "hit" => NB!Applied(o, u).hits = o.hits
         /\ u.to = "hit" => NB!Applied(o, u).hits = [o.hits EXCEPT ![u.id] = o.hits[u.id] + 1]
<1>0. o \in [regs : RegState, mems : Stores, hits : [Cover -> Nat]]
  BY DEF Results
<1>1. CASE u.to = "reg"
  <2>. DEFINE r == [o.regs EXCEPT ![u.reg] = Fit(u.value, u.reg)]
  <2>1. NB!Applied(o, u) = [o EXCEPT !.regs = r]
    BY <1>1, AppliedCases
  <2>. HIDE DEF r
  <2>2. NB!Applied(o, u).regs = r /\ NB!Applied(o, u).mems = o.mems /\ NB!Applied(o, u).hits = o.hits
    BY <1>0, <2>1
  <2>. QED BY <1>1, <2>2 DEF r
<1>2. CASE u.to = "bits"
  <2>. DEFINE p == Fit(Patched(o.regs[u.reg], u.hi, u.lo, u.value), u.reg)
  <2>. DEFINE r == [o.regs EXCEPT ![u.reg] = p]
  <2>1. NB!Applied(o, u) = [o EXCEPT !.regs = r]
    BY <1>2, AppliedCases
  <2>. HIDE DEF r
  <2>2. NB!Applied(o, u).regs = r /\ NB!Applied(o, u).mems = o.mems /\ NB!Applied(o, u).hits = o.hits
    BY <1>0, <2>1
  <2>3. NB!Applied(o, u).regs = [o.regs EXCEPT ![u.reg] = p]
    BY <2>2 DEF r
  <2>. HIDE DEF p
  <2>. QED BY <1>2, <2>2, <2>3 DEF p
<1>3. CASE u.to = "cell"
  <2>. DEFINE m == [c \in DOMAIN o.mems \cup {u.cell} |->
                      IF c = u.cell THEN Fit(u.value, u.cell[1]) ELSE o.mems[c]]
  <2>1. NB!Applied(o, u) = [o EXCEPT !.mems = m]
    BY <1>3, SameDesign DEF NB!Applied
  <2>. HIDE DEF m
  <2>2. NB!Applied(o, u).mems = m /\ NB!Applied(o, u).regs = o.regs /\ NB!Applied(o, u).hits = o.hits
    BY <1>0, <2>1
  <2>. QED BY <1>3, <2>2 DEF m
<1>4. CASE u.to = "hit"
  <2>. DEFINE h == [o.hits EXCEPT ![u.id] = o.hits[u.id] + 1]
  <2>1. NB!Applied(o, u) = [o EXCEPT !.hits = h]
    BY <1>4, AppliedCases
  <2>. HIDE DEF h
  <2>2. NB!Applied(o, u).hits = h /\ NB!Applied(o, u).mems = o.mems /\ NB!Applied(o, u).regs = o.regs
    BY <1>0, <2>1
  <2>. QED BY <1>4, <2>2 DEF h
<1>. QED BY <1>1, <1>2, <1>3, <1>4 DEF Effect

\* An update changes the register it touches, by what it held, and no other.
LEMMA AppliedReg ==
  ASSUME NEW o \in Results, NEW p \in Results, NEW u \in Effect, NEW r \in Reg
  PROVE  /\ ~(u.to \in {"reg", "bits"} /\ u.reg = r) => NB!Applied(o, u).regs[r] = o.regs[r]
         /\ o.regs[r] = p.regs[r] => NB!Applied(o, u).regs[r] = NB!Applied(p, u).regs[r]
<1>1. DOMAIN o.regs = Reg /\ DOMAIN p.regs = Reg
  BY DEF Results, RegState
<1>2. CASE u.to = "reg"
  <2>. DEFINE v == Fit(u.value, u.reg)
  <2>1. NB!Applied(o, u).regs = [o.regs EXCEPT ![u.reg] = v]
    BY <1>2, AppliedFields
  <2>2. NB!Applied(p, u).regs = [p.regs EXCEPT ![u.reg] = v]
    BY <1>2, AppliedFields
  <2>. HIDE DEF v
  <2>. QED BY <1>1, <1>2, <2>1, <2>2
<1>3. CASE u.to = "bits"
  <2>. DEFINE v(old) == Fit(Patched(old, u.hi, u.lo, u.value), u.reg)
  <2>1. NB!Applied(o, u).regs = [o.regs EXCEPT ![u.reg] = v(o.regs[u.reg])]
    BY <1>3, AppliedFields
  <2>2. NB!Applied(p, u).regs = [p.regs EXCEPT ![u.reg] = v(p.regs[u.reg])]
    BY <1>3, AppliedFields
  <2>. HIDE DEF v
  <2>. QED BY <1>1, <1>3, <2>1, <2>2
<1>4. CASE u.to \in {"cell", "hit"}
  <2>1. NB!Applied(o, u).regs = o.regs
    BY <1>4, AppliedFields
  <2>2. NB!Applied(p, u).regs = p.regs
    BY <1>4, AppliedFields
  <2>. QED BY <1>4, <2>1, <2>2
<1>. QED BY <1>2, <1>3, <1>4 DEF Effect

\* An update changes the places it touches, by what they held.
LEMMA AppliedLook ==
  ASSUME NEW o \in Results, NEW p \in Results, NEW u \in Effect, NEW x \in Place
  PROVE  /\ ~Touches(u, x) => Look(NB!Applied(o, u), x) = Look(o, x)
         /\ Look(o, x) = Look(p, x) => Look(NB!Applied(o, u), x) = Look(NB!Applied(p, u), x)
<1>1. CASE x \in {"reg"} \X Reg
  <2>1. x[1] = "reg" /\ x[2] \in Reg
    BY <1>1
  <2>. DEFINE r == x[2]
  <2>2. \A q : Look(q, x) = <<q.regs[r]>>
    BY <2>1 DEF Look
  <2>3. Touches(u, x) <=> u.to \in {"reg", "bits"} /\ u.reg = r
    BY <2>1 DEF Touches
  <2>4. Look(o, x) = Look(p, x) => o.regs[r] = p.regs[r]
    <3>1. <<o.regs[r]>> = <<p.regs[r]>> => <<o.regs[r]>>[1] = <<p.regs[r]>>[1]
      OBVIOUS
    <3>. QED BY <2>2, <3>1
  <2>. HIDE DEF r
  <2>5. r \in Reg
    BY <2>1 DEF r
  <2>6. /\ ~Touches(u, x) => NB!Applied(o, u).regs[r] = o.regs[r]
        /\ o.regs[r] = p.regs[r] => NB!Applied(o, u).regs[r] = NB!Applied(p, u).regs[r]
    BY <2>3, <2>5, AppliedReg
  <2>. DEFINE a == NB!Applied(o, u)
              b == NB!Applied(p, u)
  <2>7. Look(a, x) = <<a.regs[r]>> /\ Look(b, x) = <<b.regs[r]>>
        /\ Look(o, x) = <<o.regs[r]>>
    BY <2>2
  <2>. HIDE DEF a, b
  <2>8. /\ ~Touches(u, x) => a.regs[r] = o.regs[r]
        /\ o.regs[r] = p.regs[r] => a.regs[r] = b.regs[r]
    BY <2>6 DEF a, b
  <2>9. /\ ~Touches(u, x) => Look(a, x) = Look(o, x)
        /\ Look(o, x) = Look(p, x) => Look(a, x) = Look(b, x)
    BY <2>4, <2>7, <2>8
  <2>. QED BY <2>9 DEF a, b
<1>2. CASE x \in {"cell"} \X (Mem \X Address)
  <2>1. x[1] = "cell"
    BY <1>2
  <2>. DEFINE c == x[2]
  <2>2. \A q : Look(q, x) = IF c \in DOMAIN q.mems THEN <<q.mems[c]>> ELSE <<>>
    BY <2>1 DEF Look
  <2>3. Touches(u, x) <=> u.to = "cell" /\ u.cell = c
    BY <2>1 DEF Touches
  <2>. HIDE DEF c
  <2>4. ASSUME u.to = "cell", NEW q \in Results
        PROVE  Look(NB!Applied(q, u), x) = IF c = u.cell THEN <<Fit(u.value, u.cell[1])>> ELSE Look(q, x)
    <3>. DEFINE v == Fit(u.value, u.cell[1])
    <3>1. NB!Applied(q, u).mems
            = [y \in DOMAIN q.mems \cup {u.cell} |-> IF y = u.cell THEN v ELSE q.mems[y]]
      BY <2>4, AppliedFields
    <3>. HIDE DEF v
    <3>2. Look(NB!Applied(q, u), x) = IF c = u.cell THEN <<v>> ELSE Look(q, x)
      BY <2>2, <3>1
    <3>. QED BY <3>2 DEF v
  <2>5. ASSUME u.to # "cell", NEW q \in Results
        PROVE  Look(NB!Applied(q, u), x) = Look(q, x)
    <3>1. NB!Applied(q, u).mems = q.mems
      BY <2>5, AppliedFields
    <3>. QED BY <2>2, <3>1
  <2>6. CASE u.to = "cell"
    <3>. DEFINE v == <<Fit(u.value, u.cell[1])>>
    <3>1. Look(NB!Applied(o, u), x) = IF c = u.cell THEN v ELSE Look(o, x)
      BY <2>4, <2>6
    <3>2. Look(NB!Applied(p, u), x) = IF c = u.cell THEN v ELSE Look(p, x)
      BY <2>4, <2>6
    <3>. HIDE DEF v
    <3>. QED BY <2>3, <2>6, <3>1, <3>2
  <2>7. CASE u.to # "cell"
    <3>1. Look(NB!Applied(o, u), x) = Look(o, x) /\ Look(NB!Applied(p, u), x) = Look(p, x)
      BY <2>5, <2>7
    <3>. QED BY <3>1
  <2>. QED BY <2>6, <2>7
<1>. QED BY <1>1, <1>2 DEF Place

\* The effects of a queue keep the results well typed.
LEMMA OutcomeResult ==
  ASSUME NEW o \in Results, NEW q \in Seq(Effect)
  PROVE  NB!Outcome(o, q) \in Results
<1>1. PICK f : Outcomes(f, Results, o, q)
  BY AppliedType, OutcomeSteps
<1>2. f[Len(q)] \in Results
  BY <1>1 DEF Outcomes
<1>. QED BY <1>1, <1>2 DEF Outcomes

\* So do the updates of a queue.
LEMMA OutcomeLook ==
  ASSUME NEW o \in Results, NEW p \in Results, NEW q \in Seq(Effect), NEW x \in Place
  PROVE  /\ (\A i \in DOMAIN q : ~Touches(q[i], x)) => Look(NB!Outcome(o, q), x) = Look(o, x)
         /\ Look(o, x) = Look(p, x) => Look(NB!Outcome(o, q), x) = Look(NB!Outcome(p, q), x)
         /\ NB!Outcome(o, q) \in Results
<1>. DEFINE L == Len(q)
<1>1. L \in Nat /\ DOMAIN q = 1 .. L /\ \A n \in 0 .. (L - 1) : n + 1 \in DOMAIN q /\ q[n + 1] \in Effect
  OBVIOUS
<1>2. \E f : Outcomes(f, Results, o, q)
  BY AppliedType, OutcomeSteps
<1>3. \E f : Outcomes(f, Results, p, q)
  BY AppliedType, OutcomeSteps
<1>4. PICK f : Outcomes(f, Results, o, q)
  BY <1>2
<1>5. PICK g : Outcomes(g, Results, p, q)
  BY <1>3
<1>6. /\ f \in [Nat -> Results] /\ f[0] = o /\ NB!Outcome(o, q) = f[L]
      /\ \A n \in 0 .. (L - 1) : f[n + 1] = NB!Applied(f[n], q[n + 1])
  BY <1>4 DEF Outcomes
<1>7. /\ g \in [Nat -> Results] /\ g[0] = p /\ NB!Outcome(p, q) = g[L]
      /\ \A n \in 0 .. (L - 1) : g[n + 1] = NB!Applied(g[n], q[n + 1])
  BY <1>5 DEF Outcomes
<1>. HIDE DEF L
<1>8. ASSUME \A i \in DOMAIN q : ~Touches(q[i], x) PROVE Look(f[L], x) = Look(o, x)
  <2>. DEFINE Kept == {n \in Nat : n <= L => Look(f[n], x) = Look(o, x)}
  <2>1. 0 \in Kept
    BY <1>6
  <2>2. ASSUME NEW n \in Nat, n \in Kept PROVE n + 1 \in Kept
    <3>1. SUFFICES ASSUME n + 1 <= L PROVE Look(f[n + 1], x) = Look(o, x)
      OBVIOUS
    <3>2. n \in 0 .. (L - 1) /\ Look(f[n], x) = Look(o, x)
      BY <1>1, <2>2, <3>1
    <3>3. f[n] \in Results /\ q[n + 1] \in Effect /\ ~Touches(q[n + 1], x)
      BY <1>1, <1>6, <1>8, <3>2
    <3>4. Look(NB!Applied(f[n], q[n + 1]), x) = Look(f[n], x)
      BY <3>3, AppliedLook
    <3>. QED BY <1>6, <3>2, <3>4
  <2>3. Nat \subseteq Kept
    <3>. HIDE DEF Kept
    <3>. QED BY <2>1, <2>2, NatSetInduction
  <2>. QED BY <1>1, <2>3
<1>9. ASSUME Look(o, x) = Look(p, x) PROVE Look(f[L], x) = Look(g[L], x)
  <2>. DEFINE Same == {n \in Nat : n <= L => Look(f[n], x) = Look(g[n], x)}
  <2>1. 0 \in Same
    BY <1>6, <1>7, <1>9
  <2>2. ASSUME NEW n \in Nat, n \in Same PROVE n + 1 \in Same
    <3>1. SUFFICES ASSUME n + 1 <= L PROVE Look(f[n + 1], x) = Look(g[n + 1], x)
      OBVIOUS
    <3>2. n \in 0 .. (L - 1) /\ Look(f[n], x) = Look(g[n], x)
      BY <1>1, <2>2, <3>1
    <3>3. f[n] \in Results /\ g[n] \in Results /\ q[n + 1] \in Effect
      BY <1>1, <1>6, <1>7, <3>2
    <3>4. Look(NB!Applied(f[n], q[n + 1]), x) = Look(NB!Applied(g[n], q[n + 1]), x)
      BY <3>2, <3>3, AppliedLook
    <3>. QED BY <1>6, <1>7, <3>2, <3>4
  <2>3. Nat \subseteq Same
    <3>. HIDE DEF Same
    <3>. QED BY <2>1, <2>2, NatSetInduction
  <2>. QED BY <1>1, <2>3
<1>. QED BY <1>1, <1>6, <1>7, <1>8, <1>9

\* The outcome of one queue after another.
LEMMA OutcomeConcat ==
  ASSUME NEW o \in Results, NEW q \in Seq(Effect), NEW r \in Seq(Effect)
  PROVE  NB!Outcome(o, q \o r) = NB!Outcome(NB!Outcome(o, q), r)
<1>. DEFINE L == Len(q)
            M == Len(r)
            t == q \o r
            p == NB!Outcome(o, q)
<1>1. L \in Nat /\ M \in Nat /\ t \in Seq(Effect) /\ Len(t) = L + M
      /\ (\A n \in 0 .. (L - 1) : t[n + 1] = q[n + 1])
      /\ (\A n \in 0 .. (M - 1) : t[L + n + 1] = r[n + 1])
  <2>1. t \in Seq(Effect) /\ Len(t) = L + M
        /\ \A i \in 1 .. L + M : t[i] = IF i <= L THEN q[i] ELSE r[i - L]
    BY ConcatProperties
  <2>2. L \in Nat /\ M \in Nat
    OBVIOUS
  <2>. HIDE DEF L, M, t
  <2>3. ASSUME NEW n \in 0 .. (L - 1) PROVE t[n + 1] = q[n + 1]
    BY <2>1, <2>2
  <2>4. ASSUME NEW n \in 0 .. (M - 1) PROVE t[L + n + 1] = r[n + 1]
    <3>1. L + n + 1 \in 1 .. L + M /\ ~(L + n + 1 <= L) /\ (L + n + 1) - L = n + 1
      BY <2>2
    <3>. QED BY <2>1, <3>1
  <2>. QED BY <2>1, <2>2, <2>3, <2>4
<1>2. p \in Results
  BY OutcomeResult
<1>. HIDE DEF t, p
<1>3. PICK f : Outcomes(f, Results, o, q)
  BY AppliedType, OutcomeSteps
<1>4. PICK g : Outcomes(g, Results, o, t)
  BY <1>1, AppliedType, OutcomeSteps
<1>5. PICK h : Outcomes(h, Results, p, r)
  BY <1>2, AppliedType, OutcomeSteps
<1>6. /\ f[0] = o /\ p = f[L] /\ \A n \in 0 .. (L - 1) : f[n + 1] = NB!Applied(f[n], q[n + 1])
  BY <1>3 DEF Outcomes, p
<1>7. /\ g[0] = o /\ NB!Outcome(o, t) = g[L + M]
      /\ \A n \in 0 .. (L + M - 1) : g[n + 1] = NB!Applied(g[n], t[n + 1])
  BY <1>1, <1>4 DEF Outcomes
<1>8. /\ h[0] = p /\ NB!Outcome(p, r) = h[M]
      /\ \A n \in 0 .. (M - 1) : h[n + 1] = NB!Applied(h[n], r[n + 1])
  BY <1>5 DEF Outcomes
<1>. HIDE DEF L, M
<1>. DEFINE First == {n \in Nat : n <= L => g[n] = f[n]}
            Second == {n \in Nat : n <= M => g[L + n] = h[n]}
<1>9. Nat \subseteq First
  <2>1. 0 \in First
    BY <1>6, <1>7
  <2>2. ASSUME NEW n \in Nat, n \in First PROVE n + 1 \in First
    <3>1. SUFFICES ASSUME n + 1 <= L PROVE g[n + 1] = f[n + 1]
      OBVIOUS
    <3>2. n \in 0 .. (L - 1) /\ n \in 0 .. (L + M - 1) /\ g[n] = f[n]
      BY <1>1, <2>2, <3>1
    <3>. QED BY <1>1, <1>6, <1>7, <3>2
  <2>. HIDE DEF First
  <2>. QED BY <2>1, <2>2, NatSetInduction
<1>10. Nat \subseteq Second
  <2>1. 0 \in Second
    <3>1. g[L] = f[L] /\ L + 0 = L
      BY <1>1, <1>9
    <3>. QED BY <1>6, <1>8, <3>1
  <2>2. ASSUME NEW n \in Nat, n \in Second PROVE n + 1 \in Second
    <3>1. SUFFICES ASSUME n + 1 <= M PROVE g[L + (n + 1)] = h[n + 1]
      OBVIOUS
    <3>2. n \in 0 .. (M - 1) /\ L + n \in 0 .. (L + M - 1) /\ g[L + n] = h[n] /\ L + (n + 1) = (L + n) + 1
      BY <1>1, <2>2, <3>1
    <3>3. g[(L + n) + 1] = NB!Applied(g[L + n], t[(L + n) + 1])
      BY <1>7, <3>2
    <3>4. t[(L + n) + 1] = r[n + 1]
      BY <1>1, <3>2
    <3>. QED BY <1>8, <3>2, <3>3, <3>4
  <2>. HIDE DEF Second
  <2>. QED BY <2>1, <2>2, NatSetInduction
<1>11. g[L + M] = h[M]
  BY <1>1, <1>10
<1>. QED BY <1>7, <1>8, <1>11 DEF t, p

\* No update of the queue touches the place.
Silent(q, x) == \A i \in DOMAIN q : ~Touches(q[i], x)

\* When one queue only touches a place, what the others do does not show there.
LEMMA FlattenLook ==
  ASSUME NEW o \in Results, NEW qs \in Seq(Seq(Effect)), NEW x \in Place, NEW k \in 0 .. Len(qs),
         \A j \in 1 .. Len(qs) : j # k => Silent(qs[j], x)
  PROVE  /\ k = 0 => Look(NB!Outcome(o, NB!FlattenSeq(qs)), x) = Look(o, x)
         /\ k # 0 => Look(NB!Outcome(o, NB!FlattenSeq(qs)), x) = Look(NB!Outcome(o, qs[k]), x)
<1>. DEFINE L == Len(qs)
            Seen(a, at) == Look(NB!Outcome(a, From(qs, at)), x)
            Own(a) == Look(NB!Outcome(a, qs[k]), x)
            Right(a, at) == /\ at > k => Seen(a, at) = Look(a, x)
                            /\ at <= k => Seen(a, at) = Own(a)
            S == {n \in Nat : n <= L => \A a \in Results : Right(a, L + 1 - n)}
<1>1. L \in Nat /\ \A at \in 1 .. L : qs[at] \in Seq(Effect)
  OBVIOUS
<1>2. /\ From(qs, 1) = NB!FlattenSeq(qs)
      /\ \A at \in Nat \ {0} : From(qs, at) \in Seq(Effect)
      /\ \A at \in Nat \ {0} : at > L => From(qs, at) = <<>>
      /\ \A at \in 1 .. L : From(qs, at) = qs[at] \o From(qs, at + 1)
  BY FromLaw
<1>3. 0 \in S
  <2>1. From(qs, L + 1) = <<>>
    BY <1>1, <1>2
  <2>2. \A a : Seen(a, L + 1) = Look(a, x)
    BY <2>1, OutcomeEmpty
  <2>. HIDE DEF Seen
  <2>. QED BY <1>1, <2>2
<1>4. ASSUME NEW n \in Nat, n \in S PROVE n + 1 \in S
  <2>1. SUFFICES ASSUME n + 1 <= L, NEW a \in Results PROVE Right(a, L + 1 - (n + 1))
    OBVIOUS
  <2>. DEFINE at == L - n
              b == NB!Outcome(a, qs[at])
  <2>2. at \in 1 .. L /\ L + 1 - (n + 1) = at /\ L + 1 - n = at + 1
    BY <1>1, <2>1
  <2>. HIDE DEF at
  <2>3. qs[at] \in Seq(Effect) /\ From(qs, at + 1) \in Seq(Effect)
        /\ From(qs, at) = qs[at] \o From(qs, at + 1)
    <3>1. at + 1 \in Nat \ {0}
      BY <1>1, <2>2
    <3>2. From(qs, at + 1) \in Seq(Effect)
      BY <1>2, <3>1
    <3>3. qs[at] \in Seq(Effect) /\ From(qs, at) = qs[at] \o From(qs, at + 1)
      BY <1>1, <1>2, <2>2
    <3>. QED BY <3>2, <3>3
  <2>4. b \in Results
    BY <2>3, OutcomeResult
  <2>5. Seen(a, at) = Seen(b, at + 1)
    BY <2>3, OutcomeConcat
  <2>6. Right(b, at + 1)
    <3>1. n <= L
      BY <1>1, <2>1
    <3>2. \A p \in Results : Right(p, L + 1 - n)
      BY <1>4, <3>1
    <3>. HIDE DEF Right, b
    <3>. QED BY <2>2, <2>4, <3>2
  <2>7. at # k => Look(b, x) = Look(a, x)
    <3>1. SUFFICES ASSUME at # k PROVE Look(b, x) = Look(a, x)
      OBVIOUS
    <3>2. Silent(qs[at], x)
      BY <2>2, <3>1
    <3>. QED BY <2>3, <3>2, OutcomeLook DEF Silent
  <2>8. at < k => Own(b) = Own(a)
    <3>1. SUFFICES ASSUME at < k PROVE Own(b) = Own(a)
      OBVIOUS
    <3>2. k \in 1 .. L /\ qs[k] \in Seq(Effect) /\ Look(b, x) = Look(a, x)
      BY <1>1, <2>2, <2>7, <3>1
    <3>. HIDE DEF b
    <3>. QED BY <2>4, <3>2, OutcomeLook
  <2>9. at = k => Own(a) = Look(b, x)
    OBVIOUS
  <2>. HIDE DEF Seen, Own, b
  <2>10. Right(a, at)
    BY <2>2, <2>5, <2>6, <2>7, <2>8, <2>9
  <2>. HIDE DEF Right
  <2>. QED BY <2>2, <2>10
<1>5. Nat \subseteq S
  <2>. HIDE DEF S
  <2>. QED BY <1>3, <1>4, NatSetInduction
<1>6. Right(o, 1)
  <2>. HIDE DEF Right
  <2>1. \A a \in Results : Right(a, L + 1 - L)
    BY <1>1, <1>5
  <2>2. L + 1 - L = 1
    BY <1>1
  <2>. QED BY <2>1, <2>2
<1>7. Seen(o, 1) = Look(NB!Outcome(o, NB!FlattenSeq(qs)), x)
  BY <1>2
<1>8. k \in Nat
  OBVIOUS
<1>. HIDE DEF Seen
<1>. QED BY <1>6, <1>7, <1>8

\* The updates of a queue, and of several, that count for a cover.
Scores(u, c) == u.to = "hit" /\ u.id = c
HitsOf(q, c) == {i \in DOMAIN q : Scores(q[i], c)}
HitsFrom(qs, at, c) ==
  {z \in (1 .. Len(qs)) \X Nat : z[1] >= at /\ z[2] \in HitsOf(qs[z[1]], c)}

\* A queue adds to a counter as many as its hits.
LEMMA OutcomeHits ==
  ASSUME NEW o \in Results, NEW q \in Seq(Effect), NEW c \in Cover
  PROVE  /\ IsFiniteSet(HitsOf(q, c)) /\ Cardinality(HitsOf(q, c)) \in Nat
         /\ NB!Outcome(o, q).hits[c] = o.hits[c] + Cardinality(HitsOf(q, c))
<1>. DEFINE L == Len(q)
            H(n) == {i \in 1 .. n : Scores(q[i], c)}
<1>1. L \in Nat /\ DOMAIN q = 1 .. L /\ \A n \in 0 .. (L - 1) : q[n + 1] \in Effect
  OBVIOUS
<1>2. HitsOf(q, c) = H(L)
  BY <1>1 DEF HitsOf
<1>3. PICK f : Outcomes(f, Results, o, q)
  BY AppliedType, OutcomeSteps
<1>4. /\ f \in [Nat -> Results] /\ f[0] = o /\ NB!Outcome(o, q) = f[L]
      /\ \A n \in 0 .. (L - 1) : f[n + 1] = NB!Applied(f[n], q[n + 1])
  BY <1>3 DEF Outcomes
<1>5. \A p \in Results : p.hits \in [Cover -> Nat]
  BY DEF Results
<1>6. \A n \in Nat : H(n) \in SUBSET (1 .. n) /\ H(n + 1) = H(n) \cup (IF Scores(q[n + 1], c) THEN {n + 1} ELSE {})
      /\ n + 1 \notin H(n) /\ H(0) = {}
  <2>1. SUFFICES ASSUME NEW n \in Nat
        PROVE  /\ H(n + 1) = H(n) \cup (IF Scores(q[n + 1], c) THEN {n + 1} ELSE {})
               /\ n + 1 \notin H(n) /\ H(0) = {}
    OBVIOUS
  <2>2. 1 .. n + 1 = (1 .. n) \cup {n + 1} /\ n + 1 \notin 1 .. n /\ 1 .. 0 = {}
    OBVIOUS
  <2>. QED BY <2>2
<1>. HIDE DEF H, L
<1>7. \A n \in Nat : IsFiniteSet(H(n)) /\ Cardinality(H(n)) \in Nat
  <2>1. SUFFICES ASSUME NEW n \in Nat PROVE IsFiniteSet(H(n)) /\ Cardinality(H(n)) \in Nat
    OBVIOUS
  <2>2. IsFiniteSet(1 .. n)
    BY FS_Interval
  <2>3. IsFiniteSet(H(n))
    BY <1>6, <2>2, FS_Subset
  <2>. QED BY <2>3, FS_CardinalityType
<1>8. \A n \in Nat : Cardinality(H(n + 1)) = Cardinality(H(n)) + (IF Scores(q[n + 1], c) THEN 1 ELSE 0)
  <2>1. SUFFICES ASSUME NEW n \in Nat
        PROVE  Cardinality(H(n + 1)) = Cardinality(H(n)) + (IF Scores(q[n + 1], c) THEN 1 ELSE 0)
    OBVIOUS
  <2>2. CASE Scores(q[n + 1], c)
    <3>1. H(n + 1) = H(n) \cup {n + 1} /\ n + 1 \notin H(n) /\ IsFiniteSet(H(n))
      BY <1>6, <1>7, <2>2
    <3>2. Cardinality(H(n) \cup {n + 1}) = Cardinality(H(n)) + 1
      BY <3>1, FS_AddElement
    <3>. QED BY <2>2, <3>1, <3>2
  <2>3. CASE ~Scores(q[n + 1], c)
    <3>1. H(n + 1) = H(n) /\ Cardinality(H(n)) \in Nat
      BY <1>6, <1>7, <2>3
    <3>. QED BY <2>3, <3>1
  <2>. QED BY <2>2, <2>3
<1>. DEFINE S == {n \in Nat : n <= L => f[n].hits[c] = o.hits[c] + Cardinality(H(n))}
<1>9. 0 \in S
  <2>1. H(0) = {} /\ Cardinality(H(0)) = 0
    BY <1>6, FS_EmptySet
  <2>2. o.hits[c] \in Nat
    BY <1>5
  <2>. QED BY <1>4, <2>1, <2>2
<1>10. ASSUME NEW n \in Nat, n \in S PROVE n + 1 \in S
  <2>1. SUFFICES ASSUME n + 1 <= L PROVE f[n + 1].hits[c] = o.hits[c] + Cardinality(H(n + 1))
    OBVIOUS
  <2>. DEFINE u == q[n + 1]
              a == f[n]
  <2>2. n \in 0 .. (L - 1) /\ a.hits[c] = o.hits[c] + Cardinality(H(n))
    BY <1>1, <1>10, <2>1
  <2>3. a \in Results /\ u \in Effect /\ f[n + 1] = NB!Applied(a, u)
    BY <1>1, <1>4, <2>2
  <2>. HIDE DEF a, u
  <2>4. a.hits \in [Cover -> Nat] /\ a.hits[c] \in Nat /\ o.hits[c] \in Nat
    BY <1>5, <2>3
  <2>5. NB!Applied(a, u).hits[c] = a.hits[c] + (IF Scores(u, c) THEN 1 ELSE 0)
    <3>1. CASE u.to = "hit"
      <4>1. NB!Applied(a, u).hits = [a.hits EXCEPT ![u.id] = a.hits[u.id] + 1]
        BY <2>3, <3>1, AppliedFields
      <4>. QED BY <2>4, <3>1, <4>1 DEF Scores
    <3>2. CASE u.to # "hit"
      <4>1. NB!Applied(a, u).hits = a.hits
        BY <2>3, <3>2, AppliedFields
      <4>. QED BY <2>4, <3>2, <4>1 DEF Scores
    <3>. QED BY <3>1, <3>2
  <2>6. Cardinality(H(n + 1)) = Cardinality(H(n)) + (IF Scores(u, c) THEN 1 ELSE 0)
    BY <1>8 DEF u
  <2>7. Cardinality(H(n)) \in Nat
    BY <1>7
  <2>. DEFINE d == IF Scores(u, c) THEN 1 ELSE 0
  <2>8. d \in Nat
    OBVIOUS
  <2>9. f[n + 1].hits[c] = a.hits[c] + d /\ Cardinality(H(n + 1)) = Cardinality(H(n)) + d
    BY <2>3, <2>5, <2>6
  <2>. HIDE DEF d
  <2>. QED BY <2>2, <2>4, <2>7, <2>8, <2>9
<1>11. Nat \subseteq S
  <2>. HIDE DEF S
  <2>. QED BY <1>9, <1>10, NatSetInduction
<1>12. f[L].hits[c] = o.hits[c] + Cardinality(H(L))
  BY <1>1, <1>11
<1>. QED BY <1>1, <1>2, <1>4, <1>7, <1>12

\* So do several, one after the other.
LEMMA FlattenHits ==
  ASSUME NEW o \in Results, NEW qs \in Seq(Seq(Effect)), NEW c \in Cover
  PROVE  /\ IsFiniteSet(HitsFrom(qs, 1, c))
         /\ NB!Outcome(o, NB!FlattenSeq(qs)).hits[c] = o.hits[c] + Cardinality(HitsFrom(qs, 1, c))
<1>. DEFINE L == Len(qs)
            Sum(a, at) == NB!Outcome(a, From(qs, at)).hits[c]
            F(at) == HitsFrom(qs, at, c)
            Right(a, at) == /\ IsFiniteSet(F(at)) /\ Cardinality(F(at)) \in Nat
                            /\ Sum(a, at) = a.hits[c] + Cardinality(F(at))
            S == {n \in Nat : n <= L => \A a \in Results : Right(a, L + 1 - n)}
<1>1. L \in Nat /\ \A at \in 1 .. L : qs[at] \in Seq(Effect)
  OBVIOUS
<1>2. /\ From(qs, 1) = NB!FlattenSeq(qs)
      /\ \A at \in Nat \ {0} : From(qs, at) \in Seq(Effect)
      /\ \A at \in Nat \ {0} : at > L => From(qs, at) = <<>>
      /\ \A at \in 1 .. L : From(qs, at) = qs[at] \o From(qs, at + 1)
  BY FromLaw
<1>3. \A a \in Results : a.hits \in [Cover -> Nat]
  BY DEF Results
<1>4. 0 \in S
  <2>1. From(qs, L + 1) = <<>>
    BY <1>1, <1>2
  <2>2. \A a : Sum(a, L + 1) = a.hits[c]
    BY <2>1, OutcomeEmpty
  <2>3. F(L + 1) = {}
    BY <1>1 DEF HitsFrom
  <2>4. IsFiniteSet(F(L + 1)) /\ Cardinality(F(L + 1)) = 0
    BY <2>3, FS_EmptySet
  <2>5. L + 1 - 0 = L + 1
    BY <1>1
  <2>. HIDE DEF Sum, F
  <2>6. ASSUME NEW a \in Results PROVE Right(a, L + 1)
    <3>1. a.hits[c] \in Nat
      BY <1>3
    <3>. QED BY <2>2, <2>4, <3>1
  <2>. HIDE DEF Right
  <2>. QED BY <1>1, <2>5, <2>6
<1>5. ASSUME NEW n \in Nat, n \in S PROVE n + 1 \in S
  <2>1. SUFFICES ASSUME n + 1 <= L, NEW a \in Results PROVE Right(a, L + 1 - (n + 1))
    OBVIOUS
  <2>. DEFINE at == L - n
              q == qs[at]
              b == NB!Outcome(a, q)
              H == HitsOf(q, c)
  <2>2. at \in 1 .. L /\ L + 1 - (n + 1) = at /\ L + 1 - n = at + 1 /\ at + 1 \in Nat \ {0}
    BY <1>1, <2>1
  <2>. HIDE DEF at
  <2>3. q \in Seq(Effect) /\ From(qs, at + 1) \in Seq(Effect)
        /\ From(qs, at) = q \o From(qs, at + 1)
    <3>1. From(qs, at + 1) \in Seq(Effect)
      BY <1>2, <2>2
    <3>2. q \in Seq(Effect) /\ From(qs, at) = q \o From(qs, at + 1)
      BY <1>1, <1>2, <2>2
    <3>. QED BY <3>1, <3>2
  <2>4. F(at) = ({at} \X H) \cup F(at + 1) /\ ({at} \X H) \cap F(at + 1) = {}
    <3>1. H \subseteq Nat
      BY <2>3 DEF HitsOf
    <3>. QED BY <2>2, <3>1, <1>1 DEF HitsFrom
  <2>. HIDE DEF q
  <2>5. b \in Results /\ IsFiniteSet(H) /\ Cardinality(H) \in Nat
        /\ b.hits[c] = a.hits[c] + Cardinality(H)
    BY <2>3, OutcomeHits, OutcomeResult
  <2>6. Sum(a, at) = Sum(b, at + 1)
    BY <2>3, OutcomeConcat
  <2>7. Right(b, at + 1)
    <3>1. n <= L
      BY <1>1, <2>1
    <3>2. \A p \in Results : Right(p, L + 1 - n)
      BY <1>5, <3>1
    <3>. HIDE DEF Right, b
    <3>. QED BY <2>2, <2>5, <3>2
  <2>8. IsFiniteSet({at} \X H) /\ Cardinality({at} \X H) = Cardinality(H)
    <3>1. IsFiniteSet({at}) /\ Cardinality({at}) = 1
      BY FS_Singleton
    <3>2. IsFiniteSet({at} \X H) /\ Cardinality({at} \X H) = Cardinality({at}) * Cardinality(H)
      BY <2>5, <3>1, FS_Product
    <3>. HIDE DEF H
    <3>. QED BY <2>5, <3>1, <3>2
  <2>. HIDE DEF H, F, Sum, b
  <2>9. IsFiniteSet(F(at)) /\ Cardinality(F(at)) = Cardinality(H) + Cardinality(F(at + 1))
    <3>. DEFINE X == {at} \X H
                Y == F(at + 1)
    <3>1. IsFiniteSet(X) /\ IsFiniteSet(Y) /\ Cardinality(Y) \in Nat /\ X \cap Y = {} /\ F(at) = X \cup Y
      BY <2>4, <2>7, <2>8
    <3>2. IsFiniteSet(X \cup Y) /\ Cardinality(X \cup Y) = Cardinality(X) + Cardinality(Y) - Cardinality(X \cap Y)
      BY <3>1, FS_Union
    <3>3. Cardinality(X \cap Y) = 0 /\ Cardinality(X) = Cardinality(H)
      BY <2>8, <3>1, FS_EmptySet
    <3>. HIDE DEF X
    <3>. QED BY <2>5, <3>1, <3>2, <3>3
  <2>10. a.hits[c] \in Nat
    BY <1>3
  <2>11. Right(a, at)
    BY <2>5, <2>6, <2>7, <2>9, <2>10
  <2>. HIDE DEF Right
  <2>. QED BY <2>2, <2>11
<1>6. Nat \subseteq S
  <2>. HIDE DEF S
  <2>. QED BY <1>4, <1>5, NatSetInduction
<1>7. Right(o, 1)
  <2>. HIDE DEF Right
  <2>1. \A a \in Results : Right(a, L + 1 - L)
    BY <1>1, <1>6
  <2>2. L + 1 - L = 1
    BY <1>1
  <2>. QED BY <2>1, <2>2
<1>8. Sum(o, 1) = NB!Outcome(o, NB!FlattenSeq(qs)).hits[c]
  BY <1>2
<1>. HIDE DEF Sum
<1>. QED BY <1>7, <1>8
-----------------------------------------------------------------------------
\* The updates that stay within the registers and the memories of a list.
OwnedBy(b) == {u \in Update : /\ u.to \in {"reg", "bits"} => u.reg \in Targets[b]
                              /\ u.to = "cell" => u.cell[1] \in MemTargets[b]}

\* The queue of a list inside another one stays within what that one writes.
LEMMA OwnedInside ==
  ASSUME NEW b, NEW c, Targets[c] \subseteq Targets[b], MemTargets[c] \subseteq MemTargets[b],
         NEW q \in Seq(OwnedBy(c))
  PROVE  q \in Seq(OwnedBy(b))
<1>1. OwnedBy(c) \subseteq OwnedBy(b)
  BY DEF OwnedBy
<1>2. q \in [1 .. Len(q) -> OwnedBy(b)] /\ Len(q) \in Nat
  BY <1>1
<1>. QED BY <1>2

\* The queue of a statement stays within what its list writes.
LEMMA QueuedOwned ==
  ASSUME NEW b \in Body, NEW s \in Statement, NEW st \in EvalState, NEW g \in Tables,
         s.kind \in {"default", "assign", "patch"} => s.reg \in Targets[b],
         s.kind = "memWrite" => s.mem \in MemTargets[b],
         s.kind = "if" => \A k \in KnownState : /\ g[s.then][k] \in Seq(OwnedBy(b))
                                                /\ g[s.els][k] \in Seq(OwnedBy(b)),
         s.kind = "loop" => \A k \in KnownState : g[s.body][k] \in Seq(OwnedBy(b))
  PROVE  NB!Queued(s, st, g) \in Seq(OwnedBy(b))
<1>. DEFINE V(e) == Eval(e, st)
            T == OwnedBy(b)
<1>1. \A e \in Expr : V(e) \in Int
  BY EvalAssumption
<1>2. /\ \A e \in BoundExpr : V(e) \in 0 .. MaxBound
      /\ \A e \in AddrExpr : V(e) \in Address
  BY EvalAssumption
<1>3. <<>> \in Seq(T) /\ \A u \in T : <<u>> \in Seq(T)
  OBVIOUS
<1>4. \A why \in {"eval", "index", "budget", "assert"} : NB!Failure(why) \in Seq(T)
  <2>1. SUFFICES ASSUME NEW why \in {"eval", "index", "budget", "assert"} PROVE NB!Failure(why) \in Seq(T)
    OBVIOUS
  <2>. DEFINE u == [to |-> "error", why |-> why]
  <2>2. u \in T
    BY DEF OwnedBy, Update, Refusal
  <2>3. NB!Failure(why) = <<u>>
    BY DEF NB!Failure
  <2>. HIDE DEF u, T
  <2>. QED BY <1>3, <2>2, <2>3
<1>. DEFINE q == NB!Queued(s, st, g)
<1>. HIDE DEF T
<1>5. CASE \E e \in Operands(s) : Fails(e, st)
  <2>1. q = NB!Failure("eval")
    BY <1>5, QueuedCases
  <2>. QED BY <1>4, <2>1 DEF T
<1>6. CASE \A e \in Operands(s) : ~Fails(e, st)
  <2>1. CASE s.kind \in {"default", "assign"}
    <3>. DEFINE u == [to |-> "reg", reg |-> s.reg, value |-> V(s.val)]
    <3>1. s.reg \in Reg /\ V(s.val) \in Int /\ s.reg \in Targets[b]
      BY <1>1, <2>1, FieldTypes
    <3>2. u \in T
      BY <3>1 DEF T, OwnedBy, Update, Effect
    <3>3. q = <<u>>
      BY <1>6, <2>1, QueuedCases
    <3>. HIDE DEF u, q
    <3>. QED BY <1>3, <3>2, <3>3 DEF q, T
  <2>2. CASE s.kind = "patch"
    <3>. DEFINE u == [to |-> "bits", reg |-> s.reg, hi |-> s.hi, lo |-> s.lo, value |-> V(s.val)]
    <3>1. s.reg \in Reg /\ V(s.val) \in Int /\ s.hi \in Int /\ s.lo \in Int /\ s.reg \in Targets[b]
      BY <1>1, <2>2, FieldTypes
    <3>2. CASE OutOfRange(s)
      <4>1. q = NB!Failure("index")
        BY <1>6, <2>2, <3>2, QueuedCases
      <4>. QED BY <1>4, <4>1 DEF T
    <3>3. CASE ~OutOfRange(s)
      <4>0. ~OutOfRange(u)
        BY <3>3 DEF OutOfRange
      <4>1. u \in T
        BY <3>1, <4>0 DEF T, OwnedBy, Update, Effect
      <4>2. q = <<u>>
        BY <1>6, <2>2, <3>3, QueuedCases
      <4>. HIDE DEF u, q
      <4>. QED BY <1>3, <4>1, <4>2 DEF q, T
    <3>. QED BY <3>2, <3>3
  <2>3. CASE s.kind = "memWrite"
    <3>. DEFINE u == [to |-> "cell", cell |-> <<s.mem, V(s.addr)>>, value |-> V(s.val)]
    <3>1. V(s.val) \in Int /\ s.mem \in MemTargets[b]
      BY <1>1, <2>3, FieldTypes
    <3>2. CASE <<s.mem, V(s.addr)>> \notin Cell
      <4>1. q = <<>>
        BY <1>6, <2>3, <3>2, QueuedCases
      <4>. QED BY <1>3, <4>1 DEF T
    <3>3. CASE <<s.mem, V(s.addr)>> \in Cell
      <4>1. u \in T
        BY <3>1, <3>3 DEF T, OwnedBy, Update, Effect
      <4>2. q = <<u>>
        BY <1>6, <2>3, <3>3, QueuedCases
      <4>. HIDE DEF u, q
      <4>. QED BY <1>3, <4>1, <4>2 DEF q, T
    <3>. QED BY <3>2, <3>3
  <2>4. CASE s.kind = "loop"
    <3>1. s.body \in Body /\ s.var \in Var /\ V(s.lo) \in 0 .. MaxBound
          /\ V(s.hi) \in 0 .. MaxBound
      BY <1>2, <2>4, FieldTypes
    <3>2. CASE V(s.hi) - V(s.lo) > RepeatBudget
      <4>1. q = NB!Failure("budget")
        BY <1>6, <2>4, <3>2, QueuedCases
      <4>. QED BY <1>4, <4>1 DEF T
    <3>3. CASE ~(V(s.hi) - V(s.lo) > RepeatBudget)
      <4>. DEFINE c == Copies(s.body, st.known, s.var, V(s.lo), V(s.hi), g)
      <4>1. st.known \in KnownState
        BY DEF EvalState
      <4>2. c \in Seq(Seq(T))
        <5>0. c \in Seq(Seq(Update))
              /\ \A i \in 1 .. V(s.hi) - V(s.lo) :
                   c[i] = g[s.body][[st.known EXCEPT ![s.var] = V(s.lo) + i - 1]]
          <6>1. c \in Seq(Seq(Update))
            BY <3>1, <4>1, CopiesType
          <6>2. \A i \in 1 .. V(s.hi) - V(s.lo) :
                   c[i] = g[s.body][[st.known EXCEPT ![s.var] = V(s.lo) + i - 1]]
            BY DEF Copies
          <6>. QED BY <6>1, <6>2
        <5>1. DOMAIN c = 1 .. V(s.hi) - V(s.lo)
          BY DEF Copies
        <5>2. ASSUME NEW i \in 1 .. V(s.hi) - V(s.lo)
              PROVE  [st.known EXCEPT ![s.var] = V(s.lo) + i - 1] \in KnownState
          <6>1. V(s.lo) + i - 1 \in 0 .. MaxBound
            BY <3>1, SignalAssumption
          <6>. QED BY <4>1, <6>1 DEF KnownState
        <5>3. \A i \in 1 .. V(s.hi) - V(s.lo) : c[i] \in Seq(T)
          BY <2>4, <5>0, <5>2 DEF T
        <5>. HIDE DEF c, V
        <5>4. Len(c) \in Nat /\ DOMAIN c = 1 .. Len(c) /\ c = [i \in DOMAIN c |-> c[i]]
          BY <5>0
        <5>5. \A i \in 1 .. Len(c) : c[i] \in Seq(T)
          BY <5>1, <5>3, <5>4
        <5>6. c \in [1 .. Len(c) -> Seq(T)]
          BY <5>4, <5>5
        <5>. QED BY <5>4, <5>6
      <4>3. q = NB!FlattenSeq(c)
        BY <1>6, <2>4, <3>3, QueuedCases
      <4>. HIDE DEF c, q
      <4>4. q \in Seq(T)
        BY <1>3, <4>2, <4>3, FlattenLaw
      <4>. QED BY <4>4 DEF q, T
    <3>. QED BY <3>2, <3>3
  <2>5. CASE s.kind = "if"
    <3>1. st.known \in KnownState
      BY DEF EvalState
    <3>2. q = g[IF True(V(s.cond)) THEN s.then ELSE s.els][st.known]
      BY <1>6, <2>5, QueuedCases
    <3>. HIDE DEF q
    <3>3. q \in Seq(T)
      BY <2>5, <3>1, <3>2 DEF T
    <3>. QED BY <3>3 DEF q, T
  <2>6. CASE s.kind = "assert"
    <3>1. q = <<>> \/ q = NB!Failure("assert")
      BY <1>6, <2>6, QueuedCases
    <3>. QED BY <1>3, <1>4, <3>1 DEF T
  <2>7. CASE s.kind = "cover"
    <3>. DEFINE u == [to |-> "hit", id |-> s.id]
    <3>1. u \in T
      BY <2>7, FieldTypes DEF T, OwnedBy, Update, Effect
    <3>2. q = <<>> \/ q = <<u>>
      BY <1>6, <2>7, QueuedCases
    <3>. HIDE DEF u, q
    <3>. QED BY <1>3, <3>1, <3>2 DEF q, T
  <2>8. s.kind \in {"default", "assign", "patch", "memWrite", "loop", "if", "assert", "cover"}
    BY DEF Statement
  <2>. QED BY <2>1, <2>2, <2>3, <2>4, <2>5, <2>6, <2>7, <2>8
<1>. QED BY <1>5, <1>6

\* All that a list queues stays within what it writes.
LEMMA UpdatesOwned ==
  ASSUME NEW st \in EvalState, NEW b \in Body, NEW k \in KnownState
  PROVE  NB!Updates(st)[b][k] \in Seq(OwnedBy(b))
<1>. DEFINE g == NB!Updates(st)
            S == {n \in Nat : \A c \in Body : Nesting[c] < n =>
                    \A j \in KnownState : g[c][j] \in Seq(OwnedBy(c))}
<1>1. g \in Tables /\ g = Round(st, g)
  BY UpdatesLaw
<1>. HIDE DEF g
<1>2. 0 \in S
  BY BodyAssumption
<1>3. ASSUME NEW n \in Nat, n \in S PROVE n + 1 \in S
  <2>1. SUFFICES ASSUME NEW c \in Body, Nesting[c] < n + 1, NEW j \in KnownState
                 PROVE  g[c][j] \in Seq(OwnedBy(c))
    OBVIOUS
  <2>. DEFINE here == [st EXCEPT !.known = j]
              T == OwnedBy(c)
  <2>2. here \in EvalState
    BY DEF EvalState
  <2>. HIDE DEF here
  <2>3. c \in Seq(Statement) /\ Len(c) \in Nat /\ DOMAIN c = 1 .. Len(c)
    BY BodyAssumption
  <2>4. \A d \in Body : Nesting[d] < Nesting[c] => \A i \in KnownState : g[d][i] \in Seq(OwnedBy(d))
    BY <1>3, <2>1, BodyAssumption
  <2>. HIDE DEF S
  <2>5. ASSUME NEW i \in DOMAIN c PROVE NB!Queued(c[i], here, g) \in Seq(OwnedBy(c))
    <3>. DEFINE s == c[i]
    <3>1. s \in Statement
      BY <2>3
    <3>2. s.kind \in {"default", "assign", "patch"} => s.reg \in Targets[c]
      BY OwnerAssumption
    <3>3. s.kind = "memWrite" => s.mem \in MemTargets[c]
      BY DriverAssumption
    <3>4. s.kind = "if" => \A m \in KnownState : /\ g[s.then][m] \in Seq(OwnedBy(c))
                                                 /\ g[s.els][m] \in Seq(OwnedBy(c))
      <4>1. SUFFICES ASSUME s.kind = "if", NEW m \in KnownState
                     PROVE  g[s.then][m] \in Seq(OwnedBy(c)) /\ g[s.els][m] \in Seq(OwnedBy(c))
        OBVIOUS
      <4>2. s.then \in Body /\ s.els \in Body
        BY <3>1, <4>1, FieldTypes
      <4>3. /\ Nesting[s.then] < Nesting[c] /\ Nesting[s.els] < Nesting[c]
            /\ Targets[s.then] \subseteq Targets[c] /\ Targets[s.els] \subseteq Targets[c]
            /\ MemTargets[s.then] \subseteq MemTargets[c] /\ MemTargets[s.els] \subseteq MemTargets[c]
        <5>1. Nesting[s.then] < Nesting[c] /\ Nesting[s.els] < Nesting[c]
          BY <4>1, BodyAssumption
        <5>2. Targets[s.then] \subseteq Targets[c] /\ Targets[s.els] \subseteq Targets[c]
          BY <4>1, OwnerAssumption
        <5>3. MemTargets[s.then] \subseteq MemTargets[c] /\ MemTargets[s.els] \subseteq MemTargets[c]
          BY <4>1, DriverAssumption
        <5>. QED BY <5>1, <5>2, <5>3
      <4>. HIDE DEF s
      <4>4. g[s.then][m] \in Seq(OwnedBy(s.then)) /\ g[s.els][m] \in Seq(OwnedBy(s.els))
        BY <2>4, <4>2, <4>3
      <4>. QED BY <4>3, <4>4, OwnedInside
    <3>5. s.kind = "loop" => \A m \in KnownState : g[s.body][m] \in Seq(OwnedBy(c))
      <4>1. SUFFICES ASSUME s.kind = "loop", NEW m \in KnownState
                     PROVE  g[s.body][m] \in Seq(OwnedBy(c))
        OBVIOUS
      <4>2. s.body \in Body
        BY <3>1, <4>1, FieldTypes
      <4>3. /\ Nesting[s.body] < Nesting[c] /\ Targets[s.body] \subseteq Targets[c]
            /\ MemTargets[s.body] \subseteq MemTargets[c]
        BY <4>1, BodyAssumption, OwnerAssumption, DriverAssumption
      <4>. HIDE DEF s
      <4>4. g[s.body][m] \in Seq(OwnedBy(s.body))
        BY <2>4, <4>2, <4>3
      <4>. QED BY <4>3, <4>4, OwnedInside
    <3>. HIDE DEF s
    <3>6. NB!Queued(s, here, g) \in Seq(OwnedBy(c))
      BY <1>1, <2>2, <3>1, <3>2, <3>3, <3>4, <3>5, QueuedOwned
    <3>. QED BY <3>6 DEF s
  <2>6. <<>> \in Seq(T)
    OBVIOUS
  <2>7. ASSUME NEW pass PROVE NB!FlattenSeq(HalfSeq(c, here, g, pass)) \in Seq(T)
    <3>. DEFINE h == HalfSeq(c, here, g, pass)
    <3>. HIDE DEF T
    <3>1. h \in [1 .. Len(c) -> Seq(T)]
      BY <2>3, <2>5, <2>6 DEF HalfSeq, Share, T
    <3>. HIDE DEF h
    <3>2. h \in Seq(Seq(T))
      BY <2>3, <3>1
    <3>3. NB!FlattenSeq(h) \in Seq(T)
      BY <2>6, <3>2, FlattenLaw
    <3>. QED BY <3>3 DEF h
  <2>8. g[c][j] = NB!FlattenSeq(HalfSeq(c, here, g, "defaults"))
                    \o NB!FlattenSeq(HalfSeq(c, here, g, "rest"))
    <3>1. g[c][j] = Round(st, g)[c][j]
      BY <1>1
    <3>2. Round(st, g)[c][j] = NB!Half(c, here, g, TRUE) \o NB!Half(c, here, g, FALSE)
      BY DEF Round, here
    <3>. QED BY <3>1, <3>2, HalfPass
  <2>9. g[c][j] \in Seq(T)
    <3>. DEFINE x == NB!FlattenSeq(HalfSeq(c, here, g, "defaults"))
                y == NB!FlattenSeq(HalfSeq(c, here, g, "rest"))
    <3>1. x \in Seq(T) /\ y \in Seq(T)
      BY <2>7
    <3>2. g[c][j] = x \o y
      BY <2>8
    <3>. HIDE DEF T, x, y
    <3>. QED BY <3>1, <3>2, ConcatProperties
  <2>. QED BY <2>9
<1>4. Nat \subseteq S
  <2>. HIDE DEF S
  <2>. QED BY <1>2, <1>3, NatSetInduction
<1>5. Nesting[b] + 1 \in Nat /\ Nesting[b] < Nesting[b] + 1
  BY BodyAssumption
<1>6. g[b][k] \in Seq(OwnedBy(b))
  BY <1>4, <1>5
<1>. QED BY <1>6 DEF g
-----------------------------------------------------------------------------
\* No two of the queues touch one place.
Disjoint(qs) ==
  \A x \in Place : \A j, k \in 1 .. Len(qs) :
    j # k => Silent(qs[j], x) \/ Silent(qs[k], x)

\* What every place holds and every counter says is the whole of a result.
LEMMA LookSame ==
  ASSUME NEW a \in Results, NEW b \in Results, a.hits = b.hits,
         \A x \in Place : Look(a, x) = Look(b, x)
  PROVE  a = b
<1>1. a.regs = b.regs
  <2>1. a.regs = [r \in Reg |-> a.regs[r]] /\ b.regs = [r \in Reg |-> b.regs[r]]
    BY DEF Results, RegState
  <2>2. ASSUME NEW r \in Reg PROVE a.regs[r] = b.regs[r]
    <3>. DEFINE x == <<"reg", r>>
    <3>1. x \in Place /\ x[1] = "reg" /\ x[2] = r
      BY DEF Place
    <3>. HIDE DEF x
    <3>2. <<a.regs[r]>> = <<b.regs[r]>>
      BY <3>1 DEF Look
    <3>. QED BY <3>2
  <2>. QED BY <2>1, <2>2
<1>2. a.mems = b.mems
  <2>1. /\ a.mems = [c \in DOMAIN a.mems |-> a.mems[c]] /\ DOMAIN a.mems \subseteq Mem \X Address
        /\ b.mems = [c \in DOMAIN b.mems |-> b.mems[c]] /\ DOMAIN b.mems \subseteq Mem \X Address
    BY DEF Results, Stores
  <2>2. ASSUME NEW c \in Mem \X Address
        PROVE  /\ c \in DOMAIN a.mems <=> c \in DOMAIN b.mems
               /\ c \in DOMAIN a.mems => a.mems[c] = b.mems[c]
    <3>. DEFINE x == <<"cell", c>>
    <3>1. x \in Place /\ x[1] # "reg" /\ x[2] = c
      BY DEF Place
    <3>. HIDE DEF x
    <3>2. (IF c \in DOMAIN a.mems THEN <<a.mems[c]>> ELSE <<>>)
            = (IF c \in DOMAIN b.mems THEN <<b.mems[c]>> ELSE <<>>)
      BY <3>1 DEF Look
    <3>3. \A v, w : <<v>> # <<>> /\ (<<v>> = <<w>> => v = w)
      OBVIOUS
    <3>. QED BY <3>2, <3>3
  <2>3. DOMAIN a.mems = DOMAIN b.mems
    BY <2>1, <2>2
  <2>. QED BY <2>1, <2>2, <2>3
<1>3. a = [regs |-> a.regs, mems |-> a.mems, hits |-> a.hits]
      /\ b = [regs |-> b.regs, mems |-> b.mems, hits |-> b.hits]
  BY DEF Results
<1>. QED BY <1>1, <1>2, <1>3

\* An order of n queues takes each of them once.
LEMMA OrderOnto ==
  ASSUME NEW n \in Nat, NEW order \in [1 .. n -> 1 .. n], IsInjective(order)
  PROVE  \A k \in 1 .. n : \E i \in 1 .. n : order[i] = k
<1>1. order \in Injection(1 .. n, 1 .. n) /\ IsFiniteSet(1 .. n)
  <2>1. IsFiniteSet(1 .. n)
    BY FS_Interval
  <2>2. order \in Injection(1 .. n, 1 .. n)
    BY DEF Injection
  <2>. QED BY <2>1, <2>2
<1>2. order \in Surjection(1 .. n, 1 .. n)
  BY <1>1, FS_Injection
<1>. QED BY <1>2 DEF Surjection

\* The queues in another order count the same hits.
LEMMA ReorderedHits ==
  ASSUME NEW o \in Results, NEW qs \in Seq(Seq(Effect)), NEW order \in [1 .. Len(qs) -> 1 .. Len(qs)],
         IsInjective(order), NEW c \in Cover
  PROVE  Cardinality(HitsFrom([i \in 1 .. Len(qs) |-> qs[order[i]]], 1, c))
           = Cardinality(HitsFrom(qs, 1, c))
<1>. DEFINE n == Len(qs)
            rs == [i \in 1 .. n |-> qs[order[i]]]
            S == HitsFrom(rs, 1, c)
            T == HitsFrom(qs, 1, c)
            f == [z \in S |-> <<order[z[1]], z[2]>>]
<1>1. n \in Nat /\ rs \in Seq(Seq(Effect)) /\ Len(rs) = n
  <2>1. n \in Nat /\ \A i \in 1 .. n : qs[order[i]] \in Seq(Effect)
    OBVIOUS
  <2>2. rs \in [1 .. n -> Seq(Effect)]
    BY <2>1
  <2>. HIDE DEF rs, n
  <2>. QED BY <2>1, <2>2, FunctionSeq
<1>2. /\ \A z \in S : z[1] \in 1 .. n /\ z[2] \in Nat /\ z = <<z[1], z[2]>>
                      /\ z[2] \in HitsOf(qs[order[z[1]]], c)
      /\ \A i \in 1 .. n, m \in Nat : m \in HitsOf(qs[order[i]], c) => <<i, m>> \in S
  BY <1>1 DEF HitsFrom
<1>3. /\ \A z \in T : z[1] \in 1 .. n /\ z[2] \in Nat /\ z = <<z[1], z[2]>> /\ z[2] \in HitsOf(qs[z[1]], c)
      /\ \A k \in 1 .. n, m \in Nat : m \in HitsOf(qs[k], c) => <<k, m>> \in T
  BY <1>1 DEF HitsFrom
<1>4. IsFiniteSet(S)
  <2>. HIDE DEF rs
  <2>. QED BY <1>1, FlattenHits
<1>. HIDE DEF S, T, n, rs
<1>5. f \in [S -> T]
  BY <1>2, <1>3 DEF n
<1>6. \A y, z \in S : f[y] = f[z] => y = z
  <2>1. SUFFICES ASSUME NEW y \in S, NEW z \in S, f[y] = f[z] PROVE y = z
    OBVIOUS
  <2>2. order[y[1]] = order[z[1]] /\ y[2] = z[2]
    BY <2>1
  <2>3. y[1] = z[1]
    BY <1>2, <2>2 DEF IsInjective, n
  <2>. QED BY <1>2, <2>2, <2>3
<1>7. \A t \in T : \E z \in S : f[z] = t
  <2>1. SUFFICES ASSUME NEW t \in T PROVE \E z \in S : f[z] = t
    OBVIOUS
  <2>2. PICK i \in 1 .. n : order[i] = t[1]
    BY <1>1, <1>3, OrderOnto DEF n
  <2>3. <<i, t[2]>> \in S
    BY <1>2, <1>3, <2>2
  <2>4. f[<<i, t[2]>>] = t
    BY <1>3, <2>2, <2>3
  <2>. QED BY <2>3, <2>4
<1>8. f \in Bijection(S, T)
  <2>. HIDE DEF f
  <2>. QED BY <1>5, <1>6, <1>7 DEF Bijection, Injection, Surjection, IsInjective
<1>9. Cardinality(T) = Cardinality(S)
  <2>1. ExistsBijection(S, T)
    BY <1>8 DEF ExistsBijection
  <2>. QED BY <1>4, <2>1, FS_Bijection
<1>. QED BY <1>9 DEF S, T, rs, n

\* Queues that touch no common place have the same outcome in every order.
LEMMA ReorderedOutcome ==
  ASSUME NEW o \in Results, NEW qs \in Seq(Seq(Effect)), Disjoint(qs),
         NEW order \in [1 .. Len(qs) -> 1 .. Len(qs)], IsInjective(order)
  PROVE  LET rs == [i \in 1 .. Len(qs) |-> qs[order[i]]] IN
         /\ NB!FlattenSeq(rs) \in Seq(Effect)
         /\ NB!Outcome(o, NB!FlattenSeq(rs)) = NB!Outcome(o, NB!FlattenSeq(qs))
<1>. DEFINE n == Len(qs)
            rs == [i \in 1 .. n |-> qs[order[i]]]
            a == NB!Outcome(o, NB!FlattenSeq(rs))
            b == NB!Outcome(o, NB!FlattenSeq(qs))
<1>1. n \in Nat /\ rs \in Seq(Seq(Effect)) /\ Len(rs) = n
  <2>1. n \in Nat /\ \A i \in 1 .. n : qs[order[i]] \in Seq(Effect)
    OBVIOUS
  <2>2. rs \in [1 .. n -> Seq(Effect)]
    BY <2>1
  <2>. HIDE DEF rs, n
  <2>. QED BY <2>1, <2>2, FunctionSeq
<1>2. \A i \in 1 .. n : rs[i] = qs[order[i]] /\ order[i] \in 1 .. n
  OBVIOUS
<1>3. \A c \in Cover : Cardinality(HitsFrom(rs, 1, c)) = Cardinality(HitsFrom(qs, 1, c))
  BY ReorderedHits
<1>. HIDE DEF rs
<1>4. NB!FlattenSeq(rs) \in Seq(Effect) /\ NB!FlattenSeq(qs) \in Seq(Effect)
  <2>1. <<>> \in Seq(Effect)
    OBVIOUS
  <2>2. NB!FlattenSeq(rs) \in Seq(Effect)
    BY <1>1, <2>1, FlattenLaw
  <2>3. NB!FlattenSeq(qs) \in Seq(Effect)
    BY <2>1, FlattenLaw
  <2>. QED BY <2>2, <2>3
<1>5. a \in Results /\ b \in Results
  BY <1>4, OutcomeResult
<1>6. a.hits = b.hits
  <2>1. \A c \in Cover : a.hits[c] = b.hits[c]
    <3>1. SUFFICES ASSUME NEW c \in Cover PROVE a.hits[c] = b.hits[c]
      OBVIOUS
    <3>2. a.hits[c] = o.hits[c] + Cardinality(HitsFrom(rs, 1, c))
      BY <1>1, FlattenHits
    <3>3. b.hits[c] = o.hits[c] + Cardinality(HitsFrom(qs, 1, c))
      BY FlattenHits
    <3>. HIDE DEF a, b
    <3>. QED BY <1>3, <3>2, <3>3
  <2>. HIDE DEF a, b
  <2>2. a.hits = [c \in Cover |-> a.hits[c]] /\ b.hits = [c \in Cover |-> b.hits[c]]
    BY <1>5 DEF Results
  <2>. QED BY <2>1, <2>2
<1>7. ASSUME NEW x \in Place PROVE Look(a, x) = Look(b, x)
  <2>1. CASE \A j \in 1 .. n : Silent(qs[j], x)
    <3>1. \A i \in 1 .. n : Silent(rs[i], x)
      BY <1>2, <2>1
    <3>2. 0 \in 0 .. n
      BY <1>1
    <3>3. Look(a, x) = Look(o, x)
      BY <1>1, <3>1, <3>2, FlattenLook
    <3>4. Look(b, x) = Look(o, x)
      BY <2>1, <3>2, FlattenLook
    <3>. QED BY <3>3, <3>4
  <2>2. ASSUME NEW k \in 1 .. n, ~Silent(qs[k], x) PROVE Look(a, x) = Look(b, x)
    <3>1. \A j \in 1 .. n : j # k => Silent(qs[j], x)
      BY <2>2 DEF Disjoint
    <3>2. PICK i \in 1 .. n : order[i] = k
      BY <1>1, OrderOnto
    <3>3. \A j \in 1 .. n : j # i => Silent(rs[j], x)
      BY <1>2, <3>1, <3>2 DEF IsInjective
    <3>4. k \in 0 .. n /\ k # 0 /\ i \in 0 .. n /\ i # 0 /\ rs[i] = qs[k]
      BY <1>1, <1>2, <3>2
    <3>5. Look(a, x) = Look(NB!Outcome(o, rs[i]), x)
      BY <1>1, <3>3, <3>4, FlattenLook
    <3>6. Look(b, x) = Look(NB!Outcome(o, qs[k]), x)
      BY <3>1, <3>4, FlattenLook
    <3>. HIDE DEF a, b
    <3>. QED BY <3>4, <3>5, <3>6
  <2>. QED BY <2>1, <2>2
<1>8. a = b
  <2>. HIDE DEF a, b
  <2>. QED BY <1>5, <1>6, <1>7, LookSame
<1>. QED BY <1>4, <1>8 DEF rs

\* Queues whose join refuses nothing refuse nothing.
LEMMA EffectsOnly ==
  ASSUME NEW qs \in Seq(Seq(Update)), NB!FlattenSeq(qs) \in Seq(Effect)
  PROVE  qs \in Seq(Seq(Effect))
<1>. DEFINE L == Len(qs)
            S == {n \in Nat : n <= L => From(qs, n + 1) \in Seq(Effect)}
<1>1. L \in Nat /\ \A at \in 1 .. L : qs[at] \in Seq(Update)
  OBVIOUS
<1>2. /\ From(qs, 1) = NB!FlattenSeq(qs)
      /\ \A at \in Nat \ {0} : From(qs, at) \in Seq(Update)
      /\ \A at \in 1 .. L : From(qs, at) = qs[at] \o From(qs, at + 1)
  BY FromLaw
<1>3. ASSUME NEW q \in Seq(Update), NEW r \in Seq(Update), q \o r \in Seq(Effect)
      PROVE  q \in Seq(Effect) /\ r \in Seq(Effect)
  <2>. DEFINE t == q \o r
  <2>1. Len(t) = Len(q) + Len(r) /\ Len(q) \in Nat /\ Len(r) \in Nat
        /\ \A i \in 1 .. Len(q) + Len(r) : t[i] = IF i <= Len(q) THEN q[i] ELSE r[i - Len(q)]
    BY ConcatProperties
  <2>2. t \in Seq(Effect)
    BY <1>3
  <2>. HIDE DEF t
  <2>3. \A i \in 1 .. Len(q) + Len(r) : t[i] \in Effect
    BY <2>1, <2>2
  <2>4. \A i \in 1 .. Len(q) : q[i] \in Effect
    BY <2>1, <2>3
  <2>5. \A i \in 1 .. Len(r) : r[i] \in Effect
    <3>1. SUFFICES ASSUME NEW i \in 1 .. Len(r) PROVE r[i] \in Effect
      OBVIOUS
    <3>2. Len(q) + i \in 1 .. Len(q) + Len(r) /\ ~(Len(q) + i <= Len(q)) /\ Len(q) + i - Len(q) = i
      BY <2>1
    <3>3. t[Len(q) + i] = r[i]
      BY <2>1, <3>2
    <3>. QED BY <2>3, <3>2, <3>3
  <2>6. q \in [1 .. Len(q) -> Effect] /\ r \in [1 .. Len(r) -> Effect]
    <3>1. q = [i \in 1 .. Len(q) |-> q[i]] /\ r = [i \in 1 .. Len(r) |-> r[i]]
      OBVIOUS
    <3>. QED BY <2>4, <2>5, <3>1
  <2>. QED BY <2>1, <2>6, FunctionSeq
<1>4. 0 \in S
  BY <1>2
<1>5. ASSUME NEW n \in Nat, n + 1 \in 1 .. L, From(qs, n + 1) \in Seq(Effect)
      PROVE  qs[n + 1] \in Seq(Effect) /\ From(qs, (n + 1) + 1) \in Seq(Effect)
  <2>1. (n + 1) + 1 \in Nat \ {0}
    OBVIOUS
  <2>2. qs[n + 1] \in Seq(Update) /\ From(qs, (n + 1) + 1) \in Seq(Update)
    BY <1>1, <1>2, <1>5, <2>1
  <2>3. From(qs, n + 1) = qs[n + 1] \o From(qs, (n + 1) + 1)
    BY <1>2, <1>5
  <2>. QED BY <1>3, <1>5, <2>2, <2>3
<1>6. ASSUME NEW n \in Nat, n \in S PROVE n + 1 \in S
  <2>1. SUFFICES ASSUME n + 1 <= L PROVE From(qs, (n + 1) + 1) \in Seq(Effect)
    OBVIOUS
  <2>2. n + 1 \in 1 .. L /\ From(qs, n + 1) \in Seq(Effect)
    BY <1>1, <1>6, <2>1
  <2>. QED BY <1>5, <2>2
<1>7. Nat \subseteq S
  <2>. HIDE DEF S
  <2>. QED BY <1>4, <1>6, NatSetInduction
<1>8. \A at \in 1 .. L : qs[at] \in Seq(Effect)
  <2>1. SUFFICES ASSUME NEW at \in 1 .. L PROVE qs[at] \in Seq(Effect)
    OBVIOUS
  <2>. DEFINE n == at - 1
  <2>2. n \in Nat /\ n <= L /\ n + 1 = at
    BY <1>1
  <2>. HIDE DEF n
  <2>3. From(qs, n + 1) \in Seq(Effect)
    BY <1>7, <2>2
  <2>. HIDE DEF S
  <2>. QED BY <1>5, <2>2, <2>3
<1>9. qs \in [1 .. L -> Seq(Effect)]
  <2>1. qs = [at \in 1 .. L |-> qs[at]]
    OBVIOUS
  <2>. HIDE DEF L
  <2>. QED BY <1>8, <2>1
<1>. HIDE DEF L, S
<1>. QED BY <1>1, <1>9, FunctionSeq

\* No two blocks of an edge touch one place.
LEMMA BlocksDisjoint ==
  ASSUME SimOK, SeqOK PROVE Disjoint(Blocks)
<1>. DEFINE B == NB!Before
            None == [v \in Var |-> Unbound]
            p == program
            n == Len(p)
<1>1. B \in EvalState /\ p \in Programs /\ None \in KnownState
  BY BeforeType DEF SimOK, KnownState
<1>. HIDE DEF B
<1>2. p \in Seq(Process) /\ n \in Nat /\ DOMAIN p = 1 .. n /\ \A i \in 1 .. n : p[i].body \in Body
  <2>1. p \in Seq(Process)
    BY <1>1, BodyAssumption
  <2>2. \A i \in 1 .. n : p[i] \in Process
    BY <2>1, ElementOfSeq
  <2>. QED BY <2>1, <2>2 DEF Process
<1>3. Len(Blocks) = n /\ \A i \in 1 .. n : Blocks[i] \in {<<>>, NB!Updates(B)[p[i].body][None]}
  <2>. DEFINE b == BlocksOf(p, clock, edge, B)
  <2>1. Blocks = b
    BY DEF Blocks, B
  <2>2. Len(b) = n
    <3>1. b \in Seq(Seq(Update)) /\ Len(b) = Len(p)
      BY <1>1, BlocksType
    <3>. QED BY <3>1
  <2>3. \A i \in 1 .. n : b[i] \in {<<>>, NB!Updates(B)[p[i].body][None]}
    BY DEF BlocksOf
  <2>. HIDE DEF b
  <2>. QED BY <2>1, <2>2, <2>3
<1>4. ASSUME NEW i \in 1 .. n PROVE Blocks[i] \in Seq(OwnedBy(p[i].body))
  <2>. DEFINE c == p[i].body
  <2>1. c \in Body
    BY <1>2
  <2>. HIDE DEF c, None
  <2>2. NB!Updates(B)[c][None] \in Seq(OwnedBy(c)) /\ <<>> \in Seq(OwnedBy(c))
    BY <1>1, <2>1, UpdatesOwned
  <2>. QED BY <1>3, <2>2 DEF c
<1>5. ASSUME NEW i \in 1 .. n, NEW x \in Place, ~Silent(Blocks[i], x)
      PROVE  IF x[1] = "reg" THEN x[2] \in Targets[p[i].body] ELSE x[2][1] \in MemTargets[p[i].body]
  <2>. DEFINE T == OwnedBy(p[i].body)
              q == Blocks[i]
  <2>1. q \in Seq(T)
    BY <1>4
  <2>2. PICK m \in DOMAIN q : Touches(q[m], x)
    BY <1>5 DEF Silent
  <2>. HIDE DEF T, q
  <2>3. q[m] \in T
    BY <2>1
  <2>. QED BY <2>2, <2>3 DEF T, OwnedBy, Touches
<1>6. ASSUME NEW x \in Place, NEW j \in 1 .. n, NEW k \in 1 .. n, j # k
      PROVE  Silent(Blocks[j], x) \/ Silent(Blocks[k], x)
  <2>1. /\ Targets[p[j].body] \cap Targets[p[k].body] = {}
        /\ MemTargets[p[j].body] \cap MemTargets[p[k].body] = {}
    BY <1>1, <1>2, <1>6, DriverAssumption
  <2>2. ~Silent(Blocks[j], x) =>
          IF x[1] = "reg" THEN x[2] \in Targets[p[j].body] ELSE x[2][1] \in MemTargets[p[j].body]
    BY <1>5
  <2>3. ~Silent(Blocks[k], x) =>
          IF x[1] = "reg" THEN x[2] \in Targets[p[k].body] ELSE x[2][1] \in MemTargets[p[k].body]
    BY <1>5
  <2>. QED BY <2>1, <2>2, <2>3
<1>. QED BY <1>3, <1>6 DEF Disjoint

\* The queue of the edge with the blocks in some order.
LEMMA QueueOrder ==
  ASSUME SimOK, SeqOK, NEW order \in NB!Orders
  PROVE  /\ order \in [1 .. Len(Blocks) -> 1 .. Len(Blocks)] /\ IsInjective(order)
         /\ NB!Queue(clock, edge, order)
              = NB!FlattenSeq([i \in 1 .. Len(Blocks) |-> Blocks[order[i]]])
<1>. DEFINE n == Len(program)
            B == NB!Before
<1>1. n \in Nat
  BY BodyAssumption DEF SimOK
<1>2. order \in [1 .. n -> 1 .. n] /\ IsInjective(order)
  BY DEF NB!Orders, NB!IsInjective, IsInjective
<1>3. Len(Blocks) = n
  <2>1. B \in EvalState /\ program \in Programs
    BY BeforeType DEF SimOK
  <2>. HIDE DEF B
  <2>2. Blocks = BlocksOf(program, clock, edge, B)
    BY DEF Blocks, B
  <2>. QED BY <2>1, <2>2, BlocksType
<1>4. Len(order) = n /\ \A i \in 1 .. n : order[i] \in 1 .. n
  BY <1>1, <1>2
<1>5. [i \in 1 .. n |->
         IF program[order[i]].clock = clock /\ program[order[i]].edge = edge
         THEN NB!Updates(NB!Before)[program[order[i]].body][NB!NoneBound] ELSE <<>>]
        = [i \in 1 .. n |-> Blocks[order[i]]]
  BY <1>4 DEF Blocks, BlocksOf, NB!NoneBound
<1>6. NB!Queue(clock, edge, order) = NB!FlattenSeq([i \in 1 .. n |-> Blocks[order[i]]])
  BY <1>4, <1>5 DEF NB!Queue
<1>. QED BY <1>2, <1>3, <1>6

\* When the bodies have run, every order of the blocks gives what is pending.
LEMMA OrderStep == TypeOK /\ MemFun /\ Progress => OrderIrrelevant
<1>1. SUFFICES ASSUME TypeOK, MemFun, Progress, pc = "body", stack = <<>>, proc > Len(program),
                      ~ResetNow, NEW order \in NB!Orders
               PROVE  LET queue == NB!Queue(clock, edge, order) IN
                      /\ NB!Errors(queue) = {}
                      /\ NB!After(queue)
                           = [regs |-> next, mems |-> nextMems, hits |-> Plus(hits, newHits)]
  BY DEF OrderIrrelevant
<1>2. PICK d, q : Divided(d, q)
  BY <1>1 DEF Progress
<1>3. NB!FlattenSeq(Blocks) = d /\ d \in Seq(Effect) /\ NB!Outcome(Now, d) = Pending
  <2>1. NB!FlattenSeq(Blocks) = d
    BY <1>1, <1>2, NothingLeft
  <2>. QED BY <1>2, <2>1 DEF Divided
<1>4. SimOK /\ SeqOK
  BY <1>1 DEF TypeOK
<1>5. Blocks \in Seq(Seq(Update))
  <2>. DEFINE B == NB!Before
  <2>1. B \in EvalState /\ program \in Programs
    BY <1>4, BeforeType DEF SimOK
  <2>. HIDE DEF B
  <2>2. Blocks = BlocksOf(program, clock, edge, B)
    BY DEF Blocks, B
  <2>. QED BY <2>1, <2>2, BlocksType
<1>. DEFINE qs == Blocks
<1>6. qs \in Seq(Seq(Effect)) /\ Disjoint(qs)
  BY <1>3, <1>4, <1>5, BlocksDisjoint, EffectsOnly
<1>7. Now \in Results
  BY <1>1, <1>4 DEF Now, Results, MemFun, SimOK
<1>. DEFINE rs == [i \in 1 .. Len(qs) |-> qs[order[i]]]
            t == NB!FlattenSeq(rs)
<1>8. /\ order \in [1 .. Len(qs) -> 1 .. Len(qs)] /\ IsInjective(order)
      /\ NB!Queue(clock, edge, order) = t
  BY <1>1, <1>4, QueueOrder
<1>9. t \in Seq(Effect) /\ NB!Outcome(Now, t) = Pending
  <2>. HIDE DEF qs
  <2>1. t \in Seq(Effect) /\ NB!Outcome(Now, t) = NB!Outcome(Now, NB!FlattenSeq(qs))
    BY <1>6, <1>7, <1>8, ReorderedOutcome
  <2>. QED BY <1>3, <2>1 DEF qs
<1>. HIDE DEF t
<1>10. NB!Errors(t) = {}
  <2>1. \A i \in DOMAIN t : t[i] \in Effect
    BY <1>9
  <2>2. \A u \in Effect : u.to # "error"
    BY DEF Effect
  <2>. QED BY <2>1, <2>2 DEF NB!Errors
<1>11. NB!After(t) = [regs |-> next, mems |-> nextMems, hits |-> Plus(hits, newHits)]
  BY <1>9 DEF NB!After, Now, Pending
<1>. QED BY <1>8, <1>10, <1>11

\* The order of the blocks is irrelevant: E0503 gives every register and every
\* memory to one block, so that each order of the blocks commits the same.
THEOREM KernelOrderIrrelevant == Spec => []OrderIrrelevant
<1>1. Init => Progress
  BY DEF Init, Progress
<1>. QED BY <1>1, InitType, TypeStep, MemFunInit, MemFunStep, ProgressStep, OrderStep, PTL DEF Spec
=============================================================================
