---------------------------- MODULE Expressions ------------------------------
(****************************************************************************)
(* One program, `y = e`, through the compiler and then run twice: by the     *)
(* simulator, which walks the tree, and as the Verilog that was emitted for  *)
(* it.  The checker's types, the simulator's widths and the emitter's        *)
(* `infer_kind` are three separate computations over the same tree.          *)
(****************************************************************************)
EXTENDS ExprVerilog

CONSTANTS Programs,   \* the right-hand sides: a set of expressions
          Targets,    \* the kinds y may be declared with
          Inputs      \* the environments to run in

VARIABLES phase,      \* how far the program has come
          expr,       \* the right-hand side
          target,     \* the kind of y
          text,       \* the Verilog of the right-hand side
          inputs,     \* the values of the signals
          simulated,  \* what the simulator gives for the right-hand side
          hardware    \* what the emitted assignment gives y

vars == <<phase, expr, target, text, inputs, simulated, hardware>>

NoInputs == [n \in DOMAIN Decls |-> 0]

Init ==
  /\ phase = "source"
  /\ expr \in Programs
  /\ target \in Targets \cup (IF Sized(TypeOf(expr)) THEN {KindOf(TypeOf(expr))} ELSE {})
  /\ text = VRefused
  /\ inputs = NoInputs
  /\ simulated = Fault
  /\ hardware = Fault

Check ==
  /\ phase = "source"
  /\ phase' = IF Accepts(expr, TyOf(target)) THEN "checked" ELSE "rejected"
  /\ UNCHANGED <<expr, target, text, inputs, simulated, hardware>>

Emit ==
  /\ phase = "checked"
  /\ text' = Render(expr)
  /\ phase' = IF HasRefused(text') THEN "refused" ELSE "emitted"
  /\ UNCHANGED <<expr, target, inputs, simulated, hardware>>

Run ==
  /\ phase = "emitted"
  /\ phase' = "run"
  /\ inputs' \in Inputs
  /\ simulated' = Eval(expr, inputs')
  /\ hardware' = VAssign(text, target, inputs')
  /\ UNCHANGED <<expr, target, text>>

Next == Check \/ Emit \/ Run
Spec == Init /\ [][Next]_vars
=============================================================================
