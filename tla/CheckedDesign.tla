---------------------------- MODULE CheckedDesign ----------------------------
(****************************************************************************)
(* `mimz test`: a module is checked, and simulated if the checker reports   *)
(* nothing.  The checker walks the syntax and the simulator evaluates the   *)
(* elaborated design, so the two need not agree on what reads what.         *)
(*                                                                          *)
(* CombEnv: the simulator computes a wire when somebody asks for it, by     *)
(* recursion through its driver, remembers it for as long as the state is   *)
(* the same, and stops with S0238 when a wire is asked for while it is      *)
(* being computed.                                                          *)
(****************************************************************************)
EXTENDS FindCycles

CONSTANTS None, MaxDepth      \* bound on the nesting of drivers; never reached

ResolverAssumption == None \notin Bit \union Wire /\ MaxDepth \in Nat

ASSUME ResolverAssumptionHolds == ResolverAssumption

VARIABLES
  leaf,       \* CombEnv.known: the values of registers and inputs
  memo,       \* CombEnv.memo
  frames,     \* the drivers being evaluated, outermost first (CombEnv.stack)
  error       \* the wire that S0238 names, or None

resolverVars == <<leaf, memo, frames, error>>

\* One driver and the values it has read so far.
Frame == [wire : Wire, got : Seq(Bit)]
Called(w) == [wire |-> w, got |-> <<>>]

NoMemo == [w \in Wire |-> None]

ResolverInit ==
  /\ leaf \in [Leaf -> Bit] /\ memo = NoMemo /\ frames = <<>> /\ error = None

\* Fault: the value of a driver is not cut to the width of its wire.
XorUnmasked(a, b) == a + b

Xor(a, b) == (a + b) % 2

\* The position an evaluation of d reads next, after the values in got: the
\* condition decides which branch is evaluated at all.
NextRead(d, got) ==
  IF got = <<>> THEN 1 ELSE IF d.op = "if" /\ got[1] = 0 THEN 3 ELSE 2

Evaluated(got) == Len(got) = 2

Result(d, got) == IF d.op = "if" THEN got[2] ELSE Xor(got[1], got[2])

Top == Last(frames)
ReadNow(f) == NextRead(comb[f.wire], f.got)
Wanted == comb[Top.wire].arg[ReadNow(Top)]

Value(x) == IF x \in Leaf THEN leaf[x] ELSE memo[x]
Known(x) == Value(x) # None

\* Fault: only a driver that reads its own wire is caught.
InProgressSelf(w) == frames # <<>> /\ Top.wire = w

InProgress(w) == \E i \in DOMAIN frames : frames[i].wire = w

Running == frames # <<>> /\ error = None /\ ~Evaluated(Top.got)

\* eval, snapshot: an expression, a report or an update asks for a wire.
Ask(w) ==
  /\ frames = <<>> /\ error = None /\ ~Known(w)
  /\ frames' = <<Called(w)>>
  /\ UNCHANGED <<leaf, memo, error>>

Read ==
  /\ Running /\ Known(Wanted)
  /\ frames' = [frames EXCEPT ![Len(frames)] =
                  [wire |-> Top.wire, got |-> Append(Top.got, Value(Wanted))]]
  /\ UNCHANGED <<leaf, memo, error>>

Recurse ==
  /\ Running /\ ~Known(Wanted) /\ ~InProgress(Wanted) /\ Len(frames) < MaxDepth
  /\ frames' = Append(frames, Called(Wanted))
  /\ UNCHANGED <<leaf, memo, error>>

\* The names stay on the stack; the caller drops the environment with them.
ReportCycle ==
  /\ Running /\ ~Known(Wanted) /\ InProgress(Wanted)
  /\ error' = Wanted
  /\ UNCHANGED <<leaf, memo, frames>>

Return ==
  /\ frames # <<>> /\ error = None /\ Evaluated(Top.got)
  /\ memo' = [memo EXCEPT ![Top.wire] = Result(comb[Top.wire], Top.got)]
  /\ frames' = Front(frames)
  /\ UNCHANGED <<leaf, error>>

\* Fault: the environment outlives a change of the state.
NewStateSameEnv ==
  /\ frames = <<>> \/ error # None
  /\ leaf' \in [Leaf -> Bit] /\ frames' = <<>> /\ error' = None
  /\ UNCHANGED memo

\* A drive or an edge changes the leaves, and the next question is put to a
\* fresh comb_env.
NewState ==
  /\ frames = <<>> \/ error # None
  /\ leaf' \in [Leaf -> Bit] /\ memo' = NoMemo /\ frames' = <<>> /\ error' = None

Step == Read \/ Recurse \/ ReportCycle \/ Return
Resolve == (\E w \in Wire : Ask(w)) \/ Step \/ NewState
-----------------------------------------------------------------------------
ResolverTypeOK ==
  /\ leaf \in [Leaf -> Bit] /\ memo \in [Wire -> Bit \union {None}]
  /\ frames \in Seq(Frame) /\ error \in Wire \union {None}
  /\ \A i \in DOMAIN frames : Len(frames[i].got) <= 2

\* What is remembered solves the equations of the drivers for the leaves as they
\* are now: a wire's value is what its driver gives for the values of its reads.
Solved(w) ==
  \E a, b \in Bit :
    LET d == comb[w] IN
    /\ Known(d.arg[1]) /\ Value(d.arg[1]) = a
    /\ Known(d.arg[NextRead(d, <<a>>)]) /\ Value(d.arg[NextRead(d, <<a>>)]) = b
    /\ memo[w] = Result(d, <<a, b>>)

MemoRight == \A w \in Wire : memo[w] # None => Solved(w)
-----------------------------------------------------------------------------
vars == <<comb, dfsVars, resolverVars>>

Init == comb \in Designs /\ DfsInit /\ ResolverInit

Check == Search /\ UNCHANGED <<comb, resolverVars>>
Simulate == Accepted /\ Resolve /\ UNCHANGED <<comb, dfsVars>>

Next == Check \/ Simulate

Spec == Init /\ [][Next]_vars

\* The checker and an evaluation are loops of one thread: they run on.
FairSpec ==
  Spec /\ WF_vars(Check) /\ WF_vars(Accepted /\ Step /\ UNCHANGED <<comb, dfsVars>>)
-----------------------------------------------------------------------------
TypeOK == comb \in Designs /\ DfsTypeOK /\ ResolverTypeOK

\* The frame that started to compute w.
StartOf(w) == CHOOSE i \in DOMAIN frames : frames[i].wire = w

\* The resolver meets a cycle in a design the checker accepted only through a
\* field of a bundle: every other read that an evaluation makes was recorded.
CyclesAreFields ==
  error # None =>
    \E k \in StartOf(error)..Len(frames) : ReadNow(frames[k]) \in comb[frames[k].wire].field

\* The checker ends, and every wire asked for is answered, by a value or by
\* S0238: the recursion cannot go on for ever.
Settles == <>Walked /\ (frames # <<>> ~> (frames = <<>> \/ error # None))
=============================================================================
