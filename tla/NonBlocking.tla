----------------------------- MODULE NonBlocking -----------------------------
(****************************************************************************)
(* What an edge promises, spec/05 section 1: every right-hand side is       *)
(* evaluated in the state before the edge, then all the updates take effect *)
(* together.  It is the meaning of the non-blocking assignments the Verilog *)
(* back end emits: the bodies of the edge, unrolled and each with its       *)
(* defaults first, queue updates in some order of the blocks; the queue is  *)
(* applied from its head, so the last write to a bit wins.                  *)
(****************************************************************************)
EXTENDS Design, SequencesExt

CONSTANT MaxTicks

VARIABLES program, leaves, regs, mems, hits, clock, edge, fallDue, phase, error, ticks

sim  == <<leaves, regs, mems, hits>>
vars == <<program, sim, clock, edge, fallDue, phase, error, ticks>>

Init ==
  /\ program \in Programs
  /\ leaves = [n \in Leaf |-> 0]
  /\ regs = [r \in Reg |-> Fit(ResetValue[r], r)]
  /\ mems = <<>> /\ hits = NoHits
  /\ clock \in Clock /\ edge = "rise" /\ fallDue = FALSE
  /\ phase = "ready" /\ error = "none" /\ ticks = 0

\* The state before the edge, outside of every loop.
NoneBound == [v \in Var |-> Unbound]
Before == [leaves |-> leaves, regs |-> regs, known |-> NoneBound,
           cells |-> [c \in Mem \X Address |->
                        IF c \in DOMAIN mems THEN mems[c] ELSE Fit(MemInit[c[1]], c[1])]]
-----------------------------------------------------------------------------
Failure(why) == <<[to |-> "error", why |-> why]>>

\* The updates a statement queues, all evaluated in st; nested[b][k] are those of
\* a list b inside it when the loop variables are k.
Queued(s, st, nested) ==
  LET V(e) == Eval(e, st) IN
  IF \E e \in Operands(s) : Fails(e, st) THEN Failure("eval")
  ELSE CASE s.kind \in {"default", "assign"} ->
              <<[to |-> "reg", reg |-> s.reg, value |-> V(s.val)]>>
         [] s.kind = "patch" ->
              IF OutOfRange(s) THEN Failure("index")
              ELSE <<[to |-> "bits", reg |-> s.reg, hi |-> s.hi, lo |-> s.lo,
                      value |-> V(s.val)]>>
         [] s.kind = "memWrite" ->
              IF <<s.mem, V(s.addr)>> \notin Cell THEN <<>>
              ELSE <<[to |-> "cell", cell |-> <<s.mem, V(s.addr)>>, value |-> V(s.val)]>>
         [] s.kind = "loop" ->
              IF V(s.hi) - V(s.lo) > RepeatBudget THEN Failure("budget")
              ELSE FlattenSeq([i \in 1 .. V(s.hi) - V(s.lo) |->
                     nested[s.body][[st.known EXCEPT ![s.var] = V(s.lo) + i - 1]]])
         [] s.kind = "if" -> nested[IF True(V(s.cond)) THEN s.then ELSE s.els][st.known]
         [] s.kind = "assert" -> IF True(V(s.cond)) THEN <<>> ELSE Failure("assert")
         [] s.kind = "cover" -> IF True(V(s.cond)) THEN <<[to |-> "hit", id |-> s.id]>> ELSE <<>>

\* The defaults of a list, or all the rest of it.
Half(b, st, nested, defaults) ==
  FlattenSeq([i \in 1 .. Len(b) |->
    IF (b[i].kind = "default") <=> defaults THEN Queued(b[i], st, nested) ELSE <<>>])

\* The updates a list queues under the loop variables k: its defaults first, the
\* lists nested in it unrolled.
Updates(st) ==
  LET updates[b \in Body] ==
        [k \in KnownState |->
           LET here == [st EXCEPT !.known = k]
           IN  Half(b, here, updates, TRUE) \o Half(b, here, updates, FALSE)]
  IN  updates

Applied(st, u) ==
  CASE u.to = "reg"  -> [st EXCEPT !.regs[u.reg] = Fit(u.value, u.reg)]
    [] u.to = "bits" -> [st EXCEPT !.regs[u.reg] =
                           Fit(Patched(@, u.hi, u.lo, u.value), u.reg)]
    [] u.to = "cell" -> [st EXCEPT !.mems =
                           [c \in DOMAIN @ \cup {u.cell} |->
                              IF c = u.cell THEN Fit(u.value, c[1]) ELSE @[c]]]
    [] u.to = "hit"  -> [st EXCEPT !.hits[u.id] = @ + 1]

\* The queue of edge e of clock c, its blocks taken in the given order.
Queue(c, e, order) ==
  FlattenSeq([i \in 1 .. Len(order) |->
    LET p == program[order[i]]
    IN IF p.clock = c /\ p.edge = e THEN Updates(Before)[p.body][NoneBound] ELSE <<>>])

Orders == {o \in [1 .. Len(program) -> 1 .. Len(program)] : IsInjective(o)}

Errors(queue) == {i \in DOMAIN queue : queue[i].to = "error"}

\* The updates take effect from the head of the queue.
Outcome(st, queue) ==
  LET outcome[i \in 0 .. Len(queue)] ==
        IF i = 0 THEN st ELSE Applied(outcome[i - 1], queue[i])
  IN  outcome[Len(queue)]
After(queue) == Outcome([regs |-> regs, mems |-> mems, hits |-> hits], queue)

ResetNow == \E r \in Reset : True(leaves[r])
ResetRegs(c, e) == [r \in Reg |-> IF RegClock[r] = c /\ RegEdge[r] = e
                                  THEN Fit(ResetValue[r], r) ELSE regs[r]]
-----------------------------------------------------------------------------
Set(n, v) ==
  /\ phase = "ready" /\ ~fallDue
  /\ leaves' = [leaves EXCEPT ![n] = v]
  /\ UNCHANGED <<program, regs, mems, hits, clock, edge, fallDue, phase, error, ticks>>

Start(c, e, full) ==
  /\ phase = "ready" /\ ~fallDue /\ ticks < MaxTicks
  /\ phase' = "edge" /\ clock' = c /\ edge' = e /\ fallDue' = full
  /\ ticks' = ticks + 1
  /\ UNCHANGED <<program, sim, error>>

\* A full period owes the falling edge of the same clock, and nothing between.
StartFall ==
  /\ phase = "ready" /\ fallDue
  /\ phase' = "edge" /\ edge' = "fall" /\ fallDue' = FALSE
  /\ UNCHANGED <<program, sim, clock, error, ticks>>

\* A reset clears the registers of the edge and nothing else.
ResetEdge ==
  /\ phase = "edge" /\ ResetNow
  /\ regs' = ResetRegs(clock, edge)
  /\ phase' = "settle"
  /\ UNCHANGED <<program, leaves, mems, hits, clock, edge, fallDue, error, ticks>>

ClockedEdge ==
  /\ phase = "edge" /\ ~ResetNow
  /\ \E order \in Orders :
       LET queue == Queue(clock, edge, order) IN
       /\ Errors(queue) = {}
       /\ regs' = After(queue).regs /\ mems' = After(queue).mems
       /\ hits' = After(queue).hits
  /\ phase' = "settle"
  /\ UNCHANGED <<program, leaves, clock, edge, fallDue, error, ticks>>

\* An edge that cannot complete has no effect at all.
FailedEdge ==
  /\ phase = "edge" /\ ~ResetNow
  /\ \E order \in Orders :
       LET queue == Queue(clock, edge, order) IN
       /\ Errors(queue) # {}
       /\ error' = queue[Min(Errors(queue))].why
  /\ phase' = "stopped"
  /\ UNCHANGED <<program, sim, clock, edge, fallDue, ticks>>

\* The module-level asserts and covers see the state after the edge.
SettleVerdict == {a \in Range(Asserts) : Fails(a, Before) \/ ~True(Eval(a, Before))}

Settle ==
  /\ phase = "settle" /\ SettleVerdict = {}
  /\ \A c \in CombCover : ~Fails(CoverCond[c], Before)
  /\ hits' = [c \in Cover |->
       IF c \in CombCover /\ True(Eval(CoverCond[c], Before)) THEN hits[c] + 1 ELSE hits[c]]
  /\ phase' = "ready"
  /\ UNCHANGED <<program, leaves, regs, mems, clock, edge, fallDue, error, ticks>>

FailedSettle ==
  /\ phase = "settle"
  /\ \/ /\ \E a \in SettleVerdict : Fails(a, Before)
        /\ error' = "eval"
     \/ /\ \E a \in SettleVerdict : ~Fails(a, Before)
        /\ error' = "assert"
     \/ /\ SettleVerdict = {} /\ \E c \in CombCover : Fails(CoverCond[c], Before)
        /\ error' = "eval"
  /\ phase' = "stopped"
  /\ UNCHANGED <<program, sim, clock, edge, fallDue, ticks>>

Next ==
  \/ \E n \in Leaf : \E v \in Word(n) : Set(n, v)
  \/ \E c \in Clock : Start(c, "rise", TRUE) \/ \E e \in Edge : Start(c, e, FALSE)
  \/ StartFall \/ ResetEdge \/ ClockedEdge \/ FailedEdge \/ Settle \/ FailedSettle

Spec == Init /\ [][Next]_vars
=============================================================================
