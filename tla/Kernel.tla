-------------------------------- MODULE Kernel --------------------------------
(****************************************************************************)
(* The simulation kernel, sim/kernel.rs: a `Sim` holds the values of the    *)
(* leaves, registers and memories of one elaborated design, and `tick_edge` *)
(* runs the bodies of the `on` blocks of one clock edge, statement by       *)
(* statement, into scratch copies that it commits together.                 *)
(*                                                                          *)
(* `run_seq` is a recursive interpreter.  Its Rust call stack is the        *)
(* sequence `stack` of frames here, and one action is one statement.  The   *)
(* design and the evaluation of its expressions are in module Design.       *)
(****************************************************************************)
EXTENDS Design

CONSTANT MaxTicks           \* bound: the number of tick and tick_edge calls of a run

ASSUME TicksAssumption == MaxTicks \in Nat

Frame(pass, body, at) == [pass |-> pass, body |-> body, at |-> at]
Loop(pass, body, at, hi, var, old) ==
  [pass |-> pass, body |-> body, at |-> at, hi |-> hi, var |-> var, old |-> old]

VARIABLES
  program,                  \* the design, fixed by Init
  leaves, regs, mems, hits, \* `Sim`
  clock, edge, fallDue,     \* the tick_edge call, and whether tick owes a fall
  pc,                       \* "ready", "body", "asserts", "covers", "stopped"
  proc, stack, known,       \* run_seq: next process, frames, loop variables
  next, nextMems, newHits,  \* the scratch copies of the edge
  error,                    \* why the call returned Err
  ticks

sim  == <<leaves, regs, mems, hits>>
call == <<clock, edge, fallDue>>
seq  == <<proc, stack, known>>
scratch == <<next, nextMems, newHits>>
vars == <<program, sim, call, pc, seq, scratch, error, ticks>>

Init ==
  /\ program \in Programs
  /\ leaves = [n \in Leaf |-> 0]
  /\ regs = [r \in Reg |-> Fit(ResetValue[r], r)]
  /\ mems = <<>> /\ hits = NoHits
  /\ clock \in Clock /\ edge = "rise" /\ fallDue = FALSE
  /\ pc = "ready"
  /\ proc = 1 /\ stack = <<>> /\ known = [v \in Var |-> Unbound]
  /\ next = regs /\ nextMems = mems /\ newHits = NoHits
  /\ error = "none" /\ ticks = 0
-----------------------------------------------------------------------------
\* What `CombEnv` shows an expression: the leaves, the committed registers and
\* memory cells, and the loop variables.  A cell never written, and one past
\* the end, reads the memory's initial value.
MemRead(m, a) ==
  IF <<m, a>> \in DOMAIN mems THEN mems[<<m, a>>] ELSE Fit(MemInit[m], m)

\* Fault: the scratch registers are visible, a blocking assignment.
EnvBlocking == [leaves |-> leaves, regs |-> next, known |-> known,
                cells |-> [c \in Mem \X Address |-> MemRead(c[1], c[2])]]

Env == [leaves |-> leaves, regs |-> regs, known |-> known,
        cells |-> [c \in Mem \X Address |-> MemRead(c[1], c[2])]]

Value(e) == Eval(e, Env)
Holds(e) == True(Value(e))

Stop(why) == /\ pc' = "stopped" /\ error' = why
             /\ UNCHANGED <<program, sim, call, seq, scratch, ticks>>
-----------------------------------------------------------------------------
\* `set` and `set_val`: a leaf takes a value reduced to its width.  On any
\* other name they return Err and change nothing.
Set(n, v) ==
  /\ pc = "ready" /\ ~fallDue
  /\ leaves' = [leaves EXCEPT ![n] = Fit(v, n)]
  /\ UNCHANGED <<program, regs, mems, hits, call, pc, seq, scratch, error, ticks>>

ResetNow == \E r \in Reset : True(leaves[r])

OnEdge(r, c, e) == RegClock[r] = c /\ RegEdge[r] = e

\* Fault: a reset also returns the memories to their initial values.
StartMemsCleared == IF ResetNow THEN <<>> ELSE mems

StartMems == mems

\* The entry of `tick_edge`: hold by default; a reset wins over the processes,
\* and leaves memory alone.
StartEdge(c, e) ==
  /\ clock' = c /\ edge' = e
  /\ next' = IF ResetNow
             THEN [r \in Reg |-> IF OnEdge(r, c, e) THEN Fit(ResetValue[r], r)
                                                    ELSE regs[r]]
             ELSE regs
  /\ nextMems' = StartMems /\ newHits' = NoHits
  /\ proc' = IF ResetNow THEN Len(program) + 1 ELSE 1
  /\ stack' = <<>> /\ known' = [v \in Var |-> Unbound]
  /\ pc' = "body"
  /\ UNCHANGED <<program, sim, error>>

\* `tick`: a full period, the rising edge and then the falling one.
Tick(c) ==
  /\ pc = "ready" /\ ~fallDue /\ ticks < MaxTicks
  /\ StartEdge(c, "rise")
  /\ fallDue' = TRUE /\ ticks' = ticks + 1

TickFall ==
  /\ pc = "ready" /\ fallDue
  /\ StartEdge(clock, "fall")
  /\ fallDue' = FALSE /\ UNCHANGED ticks

\* `run` starts the two edges itself, moving the clock leaf between them.
TickEdge(c, e) ==
  /\ pc = "ready" /\ ~fallDue /\ ticks < MaxTicks
  /\ StartEdge(c, e)
  /\ ticks' = ticks + 1 /\ UNCHANGED fallDue
-----------------------------------------------------------------------------
Top == Head(stack)
Stmt == Top.body[Top.at]
Running == pc = "body" /\ stack # <<>>
Reached(pass) == Running /\ Top.pass = pass /\ Top.at \in DOMAIN Top.body

\* What Rust's `for` does on the way to the next statement of the list.
Advanced == <<Frame(Top.pass, Top.body, Top.at + 1)>> \o Tail(stack)
Advance  == stack' = Advanced

\* Fault: a process runs on both edges of its clock.
MatchesClock(p) == p.clock = clock

\* The processes of this clock and edge run, in declaration order.
Matches(p) == p.clock = clock /\ p.edge = edge

EnterProcess ==
  /\ pc = "body" /\ stack = <<>> /\ proc <= Len(program)
  /\ proc' = proc + 1
  /\ stack' = IF Matches(program[proc])
              THEN <<Frame("defaults", program[proc].body, 1)>> ELSE <<>>
  /\ UNCHANGED <<program, sim, call, pc, known, scratch, error, ticks>>

\* `run_seq` makes two passes over a list: the defaults, then all the rest.
InPass(s) == (s.kind = "default") <=> (Top.pass = "defaults")

Skip ==
  /\ Reached("defaults") \/ Reached("rest")
  /\ ~InPass(Stmt)
  /\ Advance
  /\ UNCHANGED <<program, sim, call, pc, proc, known, scratch, error, ticks>>

EndPass ==
  /\ Running /\ Top.pass \in {"defaults", "rest"} /\ Top.at \notin DOMAIN Top.body
  /\ stack' = IF Top.pass = "defaults"
              THEN <<Frame("rest", Top.body, 1)>> \o Tail(stack)
              ELSE Tail(stack)
  /\ UNCHANGED <<program, sim, call, pc, proc, known, scratch, error, ticks>>

Execute(kinds) ==
  /\ Reached("defaults") \/ Reached("rest")
  /\ InPass(Stmt) /\ Stmt.kind \in kinds
  /\ \A e \in Operands(Stmt) : ~Fails(e, Env)

EvalError ==
  /\ Reached("defaults") \/ Reached("rest")
  /\ InPass(Stmt) /\ \E e \in Operands(Stmt) : Fails(e, Env)
  /\ Stop("eval")

\* `default r = e` and `r <- e`
Assign ==
  /\ Execute({"default", "assign"})
  /\ next' = [next EXCEPT ![Stmt.reg] = Fit(Value(Stmt.val), Stmt.reg)]
  /\ Advance
  /\ UNCHANGED <<program, sim, call, pc, proc, known, nextMems, newHits, error, ticks>>

\* Fault: no bounds check.
StoredAnywhere(m, a, v) ==
  [c \in DOMAIN nextMems \cup {<<m, a>>} |->
     IF c = <<m, a>> THEN Fit(v, m) ELSE nextMems[c]]

\* `m[addr] <- e`: a write past the end is dropped.
Stored(m, a, v) ==
  IF a < Depth[m]
  THEN [c \in DOMAIN nextMems \cup {<<m, a>>} |->
          IF c = <<m, a>> THEN Fit(v, m) ELSE nextMems[c]]
  ELSE nextMems

MemWrite ==
  /\ Execute({"memWrite"})
  /\ nextMems' = Stored(Stmt.mem, Value(Stmt.addr), Value(Stmt.val))
  /\ Advance
  /\ UNCHANGED <<program, sim, call, pc, proc, known, next, newHits, error, ticks>>

\* Fault: each patch starts over from the committed value.
PatchBaseCommitted(r) == regs[r]

\* The base is the pending value, so that patches of one edge accumulate.
PatchBase(r) == next[r]

\* `r[hi:lo] <- e`, and `r[i] <- e` as hi = lo.  The bounds are evaluated as
\* constants, in an environment the loop variables are not part of.
BadIndex(s) == s.usesVar \/ OutOfRange(s)

Patch ==
  /\ Execute({"patch"}) /\ ~BadIndex(Stmt)
  /\ next' = [next EXCEPT ![Stmt.reg] =
                Fit(Patched(PatchBase(Stmt.reg), Stmt.hi, Stmt.lo, Value(Stmt.val)),
                    Stmt.reg)]
  /\ Advance
  /\ UNCHANGED <<program, sim, call, pc, proc, known, nextMems, newHits, error, ticks>>

PatchError == Execute({"patch"}) /\ BadIndex(Stmt) /\ Stop("index")

If ==
  /\ Execute({"if"})
  /\ stack' = IF Holds(Stmt.cond)
              THEN <<Frame("defaults", Stmt.then, 1)>> \o Advanced
              ELSE <<Frame("defaults", Stmt.els, 1)>> \o Advanced
  /\ UNCHANGED <<program, sim, call, pc, proc, known, scratch, error, ticks>>

\* Every loop is held to the budget on its own.
OverBudget(s) == Value(s.hi) - Value(s.lo) > RepeatBudget

EnterLoop ==
  /\ Execute({"loop"}) /\ ~OverBudget(Stmt)
  /\ stack' = <<Loop("loop", Stmt.body, Value(Stmt.lo), Value(Stmt.hi),
                     Stmt.var, Unbound)>> \o Advanced
  /\ UNCHANGED <<program, sim, call, pc, proc, known, scratch, error, ticks>>

LoopError == Execute({"loop"}) /\ OverBudget(Stmt) /\ Stop("budget")

\* Bind the variable, remembering what it shadows, and run the body.
Iterate ==
  /\ Running /\ Top.pass = "loop" /\ Top.at < Top.hi
  /\ known' = [known EXCEPT ![Top.var] = Top.at]
  /\ stack' = <<Frame("defaults", Top.body, 1),
                Loop("unbind", Top.body, Top.at, Top.hi, Top.var, known[Top.var])>>
              \o Tail(stack)
  /\ UNCHANGED <<program, sim, call, pc, proc, scratch, error, ticks>>

\* Fault: the variable is removed, even when an outer loop had it bound.
RestoredUnbound(v, old) == [known EXCEPT ![v] = Unbound]

Restored(v, old) == [known EXCEPT ![v] = old]

\* Fault: the counter is not advanced.
Following(i) == i

Successor(i) == i + 1

Unbind ==
  /\ Running /\ Top.pass = "unbind"
  /\ known' = Restored(Top.var, Top.old)
  /\ stack' = <<Loop("loop", Top.body, Successor(Top.at), Top.hi, Top.var, Unbound)>>
              \o Tail(stack)
  /\ UNCHANGED <<program, sim, call, pc, proc, scratch, error, ticks>>

EndLoop ==
  /\ Running /\ Top.pass = "loop" /\ Top.at >= Top.hi
  /\ stack' = Tail(stack)
  /\ UNCHANGED <<program, sim, call, pc, proc, known, scratch, error, ticks>>

AssertHolds ==
  /\ Execute({"assert"}) /\ Holds(Stmt.cond)
  /\ Advance
  /\ UNCHANGED <<program, sim, call, pc, proc, known, scratch, error, ticks>>

AssertFails == Execute({"assert"}) /\ ~Holds(Stmt.cond) /\ Stop("assert")

Count ==
  /\ Execute({"cover"})
  /\ newHits' = IF Holds(Stmt.cond) THEN [newHits EXCEPT ![Stmt.id] = @ + 1]
                                    ELSE newHits
  /\ Advance
  /\ UNCHANGED <<program, sim, call, pc, proc, known, next, nextMems, error, ticks>>
-----------------------------------------------------------------------------
\* The tail of `tick_edge`: everything the edge computed takes effect at once.
Commit ==
  /\ pc = "body" /\ stack = <<>> /\ proc > Len(program)
  /\ regs' = next /\ mems' = nextMems /\ hits' = Plus(hits, newHits)
  /\ pc' = "asserts"
  /\ UNCHANGED <<program, leaves, call, seq, scratch, error, ticks>>

\* `check_comb_asserts`, on the state just committed: the first one that
\* cannot be evaluated or does not hold stops the call.
BadAsserts == {i \in DOMAIN Asserts : Fails(Asserts[i], Env) \/ ~Holds(Asserts[i])}

AssertsHold ==
  /\ pc = "asserts" /\ BadAsserts = {}
  /\ pc' = "covers"
  /\ UNCHANGED <<program, sim, call, seq, scratch, error, ticks>>

AssertsFail ==
  /\ pc = "asserts"
  /\ \E i \in BadAsserts :
       /\ \A j \in BadAsserts : i <= j
       /\ Stop(IF Fails(Asserts[i], Env) THEN "eval" ELSE "assert")

\* `tally_comb_covers`: counts every true condition, or nothing at all.
CombHits == [c \in Cover |-> IF c \in CombCover /\ Holds(CoverCond[c]) THEN 1 ELSE 0]

Tally ==
  /\ pc = "covers"
  /\ \A c \in CombCover : ~Fails(CoverCond[c], Env)
  /\ hits' = Plus(hits, CombHits)
  /\ pc' = "ready"
  /\ UNCHANGED <<program, leaves, regs, mems, call, seq, scratch, error, ticks>>

TallyError ==
  /\ pc = "covers" /\ \E c \in CombCover : Fails(CoverCond[c], Env)
  /\ Stop("eval")
-----------------------------------------------------------------------------
\* The steps of a tick_edge call once it has begun.
Step ==
  \/ EnterProcess \/ Skip \/ EndPass \/ EvalError
  \/ Assign \/ MemWrite \/ Patch \/ PatchError \/ If
  \/ EnterLoop \/ LoopError \/ Iterate \/ Unbind \/ EndLoop
  \/ AssertHolds \/ AssertFails \/ Count
  \/ Commit \/ AssertsHold \/ AssertsFail \/ Tally \/ TallyError

Request ==
  \/ \E n \in Leaf, v \in 0 .. 2^MaxWidth : Set(n, v)
  \/ \E c \in Clock : Tick(c) \/ \E e \in Edge : TickEdge(c, e)

Next == Request \/ TickFall \/ Step

Spec == Init /\ [][Next]_vars

\* tick and tick_edge run to completion on the caller's thread; nothing
\* obliges the caller to start another one.
FairSpec == Spec /\ WF_vars(TickFall \/ Step)
-----------------------------------------------------------------------------
BodyFrame == [pass : {"defaults", "rest"}, body : Body, at : Nat \ {0}]
LoopFrame ==
  {f \in [pass : {"loop", "unbind"}, body : Body, at : 0 .. MaxBound,
          hi : 0 .. MaxBound, var : Var, old : (0 .. MaxBound) \cup {Unbound}] :
     f.pass = "unbind" => f.at < f.hi}

CellsOK(f) ==
  /\ DOMAIN f \subseteq Mem \X Address
  /\ \A c \in DOMAIN f : f[c] \in Word(c[1])

SimOK ==
  /\ program \in Programs
  /\ leaves \in LeafState /\ regs \in RegState /\ CellsOK(mems)
  /\ hits \in [Cover -> Nat]

CallOK ==
  /\ clock \in Clock /\ edge \in Edge /\ fallDue \in BOOLEAN
  /\ pc \in {"ready", "body", "asserts", "covers", "stopped"}
  /\ error \in {"none", "eval", "index", "budget", "assert"} /\ ticks \in 0 .. MaxTicks

SeqOK ==
  /\ proc \in Nat \ {0} /\ known \in KnownState
  /\ stack \in Seq(BodyFrame \cup LoopFrame)

ScratchOK ==
  /\ next \in RegState /\ CellsOK(nextMems) /\ newHits \in [Cover -> Nat]

TypeOK == SimOK /\ CallOK /\ SeqOK /\ ScratchOK

\* No cell past the end of a memory is ever stored, in the committed cells or
\* in the pending ones: a store there is dropped, as the emitted array drops it.
MemInBounds == DOMAIN mems \subseteq Cell /\ DOMAIN nextMems \subseteq Cell

\* The frames that have a loop variable bound, innermost first, each remember
\* what they shadow: the value of the next one out, or nothing.
Binders(v) == {i \in DOMAIN stack : stack[i].pass = "unbind" /\ stack[i].var = v}
Outer(v, i) == {j \in Binders(v) : i < j}
Innermost(S) == IF S = {} THEN Unbound
                ELSE stack[CHOOSE i \in S : \A j \in S : i <= j].at

\* A loop variable has the value of the innermost iteration that binds it, and
\* none outside its loops: no statement, and no later block or edge, reads a
\* value left over from a loop.
Scoped ==
  \A v \in Var :
    /\ known[v] = Innermost(Binders(v))
    /\ \A i \in Binders(v) : stack[i].old = Innermost(Outer(v, i))

\* Every register that changes is one of the edge that is committing, on its
\* own clock: a falling edge and another clock leave it alone.
OwnEdgeOnly ==
  [][\A r \in Reg : regs'[r] # regs[r] => RegClock[r] = clock /\ RegEdge[r] = edge]_vars

\* An edge under reset gives the registers of the edge their reset values and
\* does nothing else: memories hold and no cover inside a block counts.
ResetWins ==
  [][pc = "body" /\ pc' = "asserts" /\ ResetNow =>
       /\ mems' = mems /\ hits' = hits
       /\ \A r \in Reg : regs'[r] = IF OnEdge(r, clock, edge)
                                     THEN Fit(ResetValue[r], r) ELSE regs[r]]_vars

\* Every call returns: the loops of the bodies end, and a tick that began with
\* a rising edge completes its falling edge unless an error stopped it.
CallReturns ==
  (pc = "body" \/ fallDue) ~> (pc = "stopped" \/ (pc = "ready" /\ ~fallDue))
-----------------------------------------------------------------------------
\* The edge of the kernel happens when it commits, or when it fails.
NB == INSTANCE NonBlocking WITH
  phase <- CASE pc = "body" -> "edge" [] pc \in {"asserts", "covers"} -> "settle"
             [] OTHER -> pc

\* The kernel implements non-blocking assignment: running the bodies statement
\* by statement into scratch copies has, at every commit, the effect of
\* evaluating everything in the state before the edge and then applying it; an
\* edge that fails has none.
ImplementsNonBlocking == NB!Spec

\* No two blocks of an edge interfere: what is about to be committed is what
\* any other order of the blocks would have committed.  Verilog promises no
\* order between the always-blocks the back end emits for them.
OrderIrrelevant ==
  pc = "body" /\ stack = <<>> /\ proc > Len(program) /\ ~ResetNow =>
    \A order \in NB!Orders :
      LET queue == NB!Queue(clock, edge, order) IN
      /\ NB!Errors(queue) = {}
      /\ NB!After(queue) = [regs |-> next, mems |-> nextMems, hits |-> Plus(hits, newHits)]
=============================================================================
