# Min-Mozhi in TLA+

Min-Mozhi is a hardware description language with a compiler to Verilog, an
event-driven simulator and an emulator that connects a simulated design to
terminal peripherals. Its sources may be written in English, Tamil or a mixture of
both, and in two word orders. This directory holds TLA+ models of its compiler,
simulator and tools, the TLC runs that check them on small instances, and theorems
about them that the TLA+ proof system checks for every value of the constants.

Paths below are those of the repository: `core` is `crates/mimz-core/src`, `sim`
is `crates/mimz-sim/src/sim`, and `src/...` is the shell crate.

## 1. The system

```
 .mimz files --loader--> texts --lexer, parser--> syntax trees --printer, translator--> texts
     ^                                                |
     | saves                       lowerings (foreach, sync loop, sync.*)
 check --watch                                        |
                                 checker: names, widths, drivers, clocks
                                      |                         |
                               Verilog emitter             elaborator
                                                                |
                             CombEnv (on demand) <--- Sim (kernel) <--- harness ---> host
                                                                           |          |
                                                                     test blocks   LED, speaker,
                                                                                 uart_rx, uart_tx
```

| Component | State it keeps | Operations | Talks to |
| --- | --- | --- | --- |
| Loader (`src/project.rs`) | queue, visited set, files, links between them | load an entry, follow imports | disk, embedded library |
| `check --watch` (`src/commands/check.rs`) | watched directories, channel of events | a pass, reconcile, debounce | loader, the system's watcher, the user |
| Lexer, parser (`core/lexer`, `core/parser`) | cursor, nesting, diagnostics of one text | `lex`, `parse`, `parse_recover` | everything behind them; language server |
| Printer, translator (`core/pretty`, `core/translate.rs`, `src/commands/translate.rs`) | name map beside an output | `translate` in four modes | files |
| Checker (`core/checker`) | tables of one project; colours, path and stack of the cycle search | names, widths, drivers, clocks passes; `find_cycles` | syntax trees, lowerings |
| Lowerings (`core/ast/*_lower.rs`) | none; what they build has registers | `foreach`, `sync loop`, `sync.pulse`, `sync.double_flop` | checker, elaborator, emitter |
| Emitter (`core/emit_verilog`) | hoisted wires of one module | render, `infer_kind`, hoist | checked trees |
| Elaborator (`sim/elaborate`) | work list, substitution, flat design | elaborate, inline, rewrite | checked trees, kernel |
| Evaluation (`CombEnv` in `sim/kernel.rs`, `sim/value`) | memo and stack of the wires being computed | `signal`, by recursion; the operators | kernel state, elaborated drivers |
| Kernel (`sim/kernel.rs`) | leaves, registers, memory cells, cover counts; per edge the scratch copies, the loop variables and the recursion of `run_seq` | `set`, `tick`, `tick_edge`, `peek`, `eval` | harness, `run.rs`; `CombEnv` for every value |
| Harness (`sim/harness/mod.rs`, `src/commands/test.rs`) | position in the test, cycle count, the `sim` block in force | `drive`, `tick`, `expect`, `if`, `sim` | kernel, host |
| Host and dashboard (`src/emulate/host.rs`, `dashboard.rs`) | bound peripherals, terminal open or not, the user's quit | bind, drive, on_tick, on_change, frame, finish | harness, peripherals, keyboard |
| UART peripherals (`src/emulate/uart_rx.rs`, `uart_tx.rs`) | a frame counter each; queue; log; socket stream | one call per cycle; reader thread; accept thread | host, sockets |
| Library hardware (`examples/english/std`) | registers and memories | one edge of a clock | user designs |

Where the behaviour is hard:

* **One edge, many statements.** The kernel runs the statements of all the blocks
  of an edge one by one, while the language (and the emitted Verilog) says that
  they happen together. Errors, defaults, bit writes, memories, nested loops over
  one variable and resets all meet in that interpreter.
* **One expression, three computations.** The checker gives it a type, the
  simulator a value that carries its own width, and the emitter infers a width for
  a third time, to write text whose meaning depends on the text around it.
* **Two walks of one design.** The checker walks modules one at a time with their
  defaults; the elaborator flattens a tree of instances with their arguments. What
  one of them overlooks is accepted and then fails, or means something else.
* **Texts that come back.** A program may be printed, reskinned, romanized and
  restored in any order, and must keep its meaning; an editor sends texts with an
  error in them, and must keep the rest of the tree.
* **A disk that changes.** Saves fall between any two steps of a check.
* **Threads and time.** The sockets of the UART peripherals are served by threads
  of their own, between any two cycles; a frame takes tens of cycles.
* **Batches.** A live test simulates in batches, shows a frame after each, may
  stop for a key, may be quit, and must still give the result that its text says.
* **Generated machines.** What `sync loop` and `sync.pulse` become is hardware
  that has to be right for every range, body, and order of clock edges.

What makes each part correct is stated in section 4, property by property, and
`PROJECT.json` lists the places in the code where it could go wrong.

## 2. Modules

| Module | Models | Correspondence |
| --- | --- | --- |
| `Design` | an elaborated design: signals, widths, blocks, statements | constants; `Eval(e, s)` and `Fails(e, s)` stand for the expression evaluator; a value is an integer that is cut to the width of its target by `Fit`, as `mask` does; `Nesting`, `Targets` and `MemTargets` are facts of the text of a body, and what the checker grants of them are assumptions (E0503 as `OwnerAssumption` and `DriverAssumption`) |
| `Kernel` | `Sim` | `leaves`, `regs`, `mems`, `hits` are the fields of `Sim`; `next`, `nextMems`, `newHits` the scratch copies of `tick_edge`; `stack` is the call stack of `run_seq` (one frame per list of statements or loop), `known` its loop variables; one action is one statement or one loop step, and `pc` is the place in `tick_edge` and `tick` |
| `NonBlocking` | what an edge promises | abstract: all right-hand sides in the state before the edge, a queue of updates for each block, the blocks in any order, applied together; bodies unrolled by a recursive function. `NB` in `Kernel` is the instance that the kernel implements |
| `Harness` | `mimz test`: the loop over tests, `exec`, batches, host, dashboard | `stack` is the recursion of `exec`, `pc` the place in the loops of a `tick` statement (`drive_peripherals`, `tick`, `notify_on_tick`, `notify_peripherals`, `frame`), `host` the peripherals with history counters of the calls they got, `screen` the dashboard |
| `UartPeripherals` | the state machines of the UART peripherals, the queue and its reader thread, the socket of the decoder and its accept thread | the fields of `UartRx` and `UartTx`; `link` is `stream` and `gave_up_on_socket` together |
| `UartLink` | the two of them on the ends of a design that is a wire | one `Tick` is one cycle of the harness; `sent` and `delivered` are histories |
| `ByteStream` | what a serial link promises | abstract: lossless, ordered |
| `SyncLoop`, `ConstEval` | the four registers that a `sync loop` becomes; `clog2` | one action is one edge, which `Kernel` shows to be atomic |
| `LoopService` | what a `sync loop` promises | abstract |
| `PulseSync` | toggle, stages and pulse of `sync.pulse`, and the module's reset | one action is one edge of one of the two clocks |
| `Fifo` | `fifo.mimz`, every register and output | one action is one edge |
| `BoundedQueue` | what the header of `fifo.mimz` promises | abstract |
| `FindCycles` | the drivers of the wires of one module, the reads the checker records (`expr_reads`), and `find_cycles` | expressions cut down to a lazy form (`if`) and a strict one (`xor`), each operand perhaps a field of a bundle; the locals of the search; one action is one popped entry of the explicit stack; `finish` is a history: the order in which nodes turn black |
| `CheckedDesign` | `CombEnv::signal`, which resolves a wire on demand, and check, then simulate | `memo`; `frames` is the recursion and the stack of names; one action is one read, call or return. `mimz test` on one module: the resolver runs only on what the search accepted |
| `WidthCheck` | scalar expressions, `width_rules.rs`, the constant folder, the types the checker gives | an expression is a record whose `op` is the `ExprKind`; one operator per function of `checker/widths/ops`; `Ill` is a type under which a diagnostic was reported |
| `ExprValue` | the evaluator of `sim/value` | `Val` is `Val`; `Fault` any of its errors |
| `ExprVerilog` | `emit_verilog/expr.rs`, `kinds.rs`, `self_determined.rs` and the hoists | `Render` is `expr_subst`, `InferKind` `infer_kind`, `SelfDeterminedKind` `verilog_self_determined_kind`; `VRefused` is a diagnostic in place of text |
| `Verilog` | what a Verilog expression means (IEEE 1364-2005, section 5) | external: sizing top down, signs, selects and assignment |
| `Expressions` | one program `y = e`: check, emit, run in the simulator and as hardware | composes the four above |
| `Hardware` | modules of the source language and their lowerings | names are sequences of parts, so that two names collide exactly when the strings do; an expression is the sequence of its leaves |
| `StaticCheck` | names, index ranges, drivers and clocks passes | one operator per function; the codes reported are a set |
| `Elaborate` | `sim/elaborate`: work list, instances, rewriting | `Rw` is the rewriter, `Flat` the pieces of the children; `errs` holds the codes |
| `Hierarchy` | what a tree of modules means, by lexical scope and without rewriting | abstract: the reference of `FlatMeansTree` |
| `Static` | read, check, elaborate | composes the four above |
| `Lexer` | `core/lexer` | a text is a sequence of pieces (words, numbers, marks, blanks, line ends); neighbours fuse by the longest-match rule |
| `Parser` | `core/parser` | a production is a sequence of steps that stops at the first failure, as `?` does; the state is the cursor, the nodes so far and whether a diagnostic was recorded |
| `Pretty` | `core/pretty` | from a tree to pieces |
| `Translation` | `mimz translate`, and `parse_recover` as the language server uses it | `side` holds the name map beside each file; one action is one command, or one edit |
| `Loader` | `load_project_with_lib` | one action is one file taken from the queue, or one import |
| `CheckWatch` | `check --watch` | one action is one step of a pass, one event received, or one save of the user |
| `MC...` | instances for TLC | definitions that give the constants their values |
| `...Proofs` | theorems | extend the module they are about; `PulseSync` holds its own |

Composition: `Static` and `Expressions` carry one source through checker and back ends
and compare what comes out; `Translation` puts lexer, parser, printer and translator in
a loop through files; `CheckWatch` runs the loader on a disk that changes;
`CheckedDesign` puts the checker's search and the simulator's evaluation side by side over
the same wires; `UartLink` wires two peripherals together under the harness's cycle;
`Kernel` implements `NonBlocking`, which is what allows `SyncLoop`, `Fifo` and `PulseSync`
to treat an edge as one action, and `Harness` to treat a period as one step (`Ticked`).
`Static` also shows the assumption on which `KernelOwnEdgeOnly` rests: registers of what the
elaborator makes are assigned by one block (E0503).

## 3. What is abstracted, and why it is safe

* In `Kernel`, `Harness` and the models of hardware, values are small integers or model
  values and arithmetic is a constant: the properties are about which value goes where and
  when. What the operators compute is `Expressions`' subject, over whole numbers cut to
  their widths; the simulator's two representations of a value, up to 128 bits and above,
  are one there.
* In `Hardware`, the operators of an expression are forgotten: every pass treats them alike,
  and the properties tell only the leaves apart. Enums, bundles, functions and extern modules
  are left out of `Hardware` and `WidthCheck`; `Parser` and `Pretty` have them.
* In `Lexer`, every spelling of a keyword is one word with a mark for Tamil script, since the
  table maps them to one token; numbers and strings are opaque. What can fuse with what is kept,
  because it is what a translation may spoil.
* Spans, messages and the layout of diagnostics are left out; an error is the fact that a call
  returned `Err`, or a code where a property needs it. Comments and indentation are left out.
* In `Kernel`, `set` on a name that is no leaf returns `Err` and changes nothing,
  so it is no action.
* In `Harness`, what an input peripheral drives is chosen freely at each cycle, and a count or
  a speed evaluates to any integer, of which `exec` refuses those that are no number of cycles;
  the peripherals that may fail are given by `Fallible`.
* In `CheckWatch`, the content of a file is whether it parses and what it imports; the system's
  watcher sends one event or two for each change in a watched directory, in order, and loses none.
* The Rust call stacks (`run_seq`, `exec`, `CombEnv::signal`) are sequences in the
  models, so an error or a return in the middle is visible.
* Bounds, all named constants: `MaxTicks` (calls of `tick`), `MaxBytes` (bytes sent
  on a link), `MaxSent` (pulses between two resets), `MaxSaves` (changes by the user), `MaxDepth`
  (nesting of an evaluation in `CheckedDesign`, above the number of wires and so never reached;
  nesting of a text in `Parser` and of instances in `Elaborate`, limits of the code with smaller
  values), `Words` (the 64 bits of a count, as 16), `IntWidth` (the 32 bits of an unsized
  Verilog literal, as 12, which is wider than any expression of the run), `RepeatBudget`,
  `MaxRepeatChecks`, `MaxSimCycles`, `LogCap` (limits of the code, with smaller values). A program of
  `MCTranslation` brings its own number of commands and edits.

## 4. Runs

Eleven runs pass; between them they fire every action of every specification.

**`kernel`** (`MCKernel.cfg`). Four registers on both edges of one clock and on a
second clock, a two-cell memory, one reset, one input, six programs and three calls
of `tick` or `tick_edge` in any mixture, with the leaves set freely between them.
Two programs race writes with reads and defaults with assignments; one patches bits
over whole writes; one nests loops over the same variable with a bound read from
the outer one; one fails an assert after it has written; one meets every error. Three
calls are enough for a value to be written, read back and acted upon, for a reset
between the halves of a period, and for an error after a successful edge.
`Scoped`: a loop variable has the value of the innermost iteration that binds it.
`OwnEdgeOnly` and `ResetWins`: which registers a committing edge may change, with and
without reset. `ImplementsNonBlocking`: refinement of `NonBlocking`, errors included (a
failed edge has no effect). `OrderIrrelevant`: any order of the blocks would commit the same,
where `ImplementsNonBlocking` only asks that some order would.
`CallReturns`: every call returns, and a period that began completes its second half.

**`expressions`** (`MCExpressions.cfg`). Every expression of one operator over an unsigned,
a signed and a one-bit signal and two literals, every one of two operators over a smaller
choice of operands, and selects of those in a concatenation; a target of the expression's own
kind and two others; every state of the inputs. Two operators are what it takes for an
operand's bits to depend on the operator around it. `SimulatedAsTyped`: what the checker accepts
the simulator evaluates, to the kind the checker gave it. `HardwareAgrees`: the emitted
assignment gives `y` what the simulator gives it. `KindsAgree`: an operand's width in the
emitter is the checker's. `NothingRefused`: the emitter can write what the checker accepts.
All four hold of the expressions without any of six constructs (`Settled` in
`MCExpressions`) in which the computations are known to part; the second table below lists
what each of them costs, and seven in ten of the programs have none.

**`static`** (`MCStatic.cfg`). A top module with two clocks, a reset, two memories, two
registers and two outputs, one of two bits: 22 ways to drive the one (whole, by bit, by slice,
through `repeat`, nested `repeat`, `foreach`, `const if`, instances in rows and in parameters,
over budget, too deep) times 15 ways to drive the other times 15 pairs of blocks
(crossings with and without synchronizers, in every order of the clocks, in `const if`, in
`if`, in loops), over seven child modules that share names with their parents. `Elaborates`: what
the checker accepts the elaborator turns into a design in which each reference has a value.
`FlatMeansTree`: the flat design is the hierarchy, bit by bit. `NoCombLoop`: no signal follows
itself although each module was looked at alone. `CrossingsGuarded`: a block reads only registers
of its own clock, but for the first stage of a synchronizer. The first two and the last hold
outside the named disagreements of `Static` (`Settled`, `Unseen`, `ColouredTwice`), listed
below; `NoCombLoop` holds of all.

**`translation`** (`MCTranslation.cfg`). Two thousand programs: each of 19 expression shapes in
each other, binary operators side by side without parentheses, and every shape in each of some
thirty places where an expression may stand, so that every production of the grammar is used; a
program in the Tamil word order; Tamil names that read as keywords, as builtins or as each
other once romanized. One command on each, or two and three with a name map in between; or one
edit, that removes any piece of a printed text. `KeepsMeaning`: whatever commands led to a file, it
parses to the tree of the program it began as, names aside. `Recovers`: an edit in a line of a module
costs `parse_recover` that line at most. `KeepsMeaning` says nothing after a translation that is one of
the named exceptions (`claimed`): trees the printer does not print (`PrintsItself`), nesting
beyond half of the limit (`Shallow`), names that romanize to words with a meaning (`Special`), and name
maps of another text. `Recovers` says nothing of lines with braces, lines an edit joins with the next one
(`Closed`), and tests, functions, bundles and extern modules, which give up as a whole.

**`watch`** (`MCCheckWatch.cfg`). An entry and two files in another directory, with imports
that cross and cycle, both variants of an embedded module or a local library, files that do not
parse, imports of nothing; three changes by the user at any moment, of any file or of `mimz.toml`.
Three are enough for a save during a check, a break and its fix. `Linked`: a loaded project is
closed under imports, and each import is linked to the file it names or, in the embedded library, to
the source its alias selects, unless the project imports the other variant of that module too
(`OtherVariant`). A local library keeps the two variants in two files, and there the exception does
not apply. Imports that cycle load like any others; `Linked` demands no error for them (section 4). `Fresh`: at rest, what was said is
still true of each file that was looked at, unless it was changed outside of the directories of
the last project that loaded. `Rests`: the command always comes back to waiting.

**`checked_design`** (`MCCheckedDesign.cfg`). Every module of three wires over one
leaf in which the first wire has any of the drivers of `MCDriver` and the other two
are conditionals: strict and lazy reads, cycles of length one to three, cycles
guarded by a condition, cycles through bundle fields. Three wires are the smallest
number with a cycle that is reached through a node outside it, with a cross edge and
with two cycles sharing a node. `Ordered`: an accepted module has an order in which
every wire comes after all that it was seen to read, so no cycle of recorded reads
is missed. `CyclesReal`: what is reported is a cycle. `MemoRight`: a remembered
value always solves its driver for the present leaves. `CyclesAreFields`: the
simulator meets a cycle in an accepted module only through a bundle's field.
`Settles`: the search ends, and so does every question.

**`uart_link`** (`UartLink.cfg`). Three cycles to a bit (the smallest odd period,
where the midpoint is not a boundary), three bytes of two values, a log of two.
`Lossless`, `StreamSpec` and `Delivery` together: exactly the bytes that were sent, in
order, and all of them in the end, whatever the reader thread does between cycles.
`Synchronised`: the two frame counters never drift, although the encoder's start bit is
a cycle longer. `OneWait`: whenever the accept thread succeeds, the simulation is
stalled for a peer by the first byte only, and once; a peer that comes after that wait has run out is
never written to (the comment in `push_char` says why a second wait would stall the run for
good). Bytes are sequences of bits, so the order of the bits matters.

**`harness`** (`MCHarness.cfg`). Five files of tests under three command lines
(headless, live, stepping), with the keyboard and failing peripherals free. The tests
have speeds below, at and above the frame rate, batches that do not divide a count, a
second `sim` block, a block inside a branch, a failing assert, the cycle limit, and each
of the errors. `InStep`: each peripheral of the block in force hears each cycle exactly
once. `FramePace`: how far the dashboard may lag. `Limit`: the cycle limit holds for a
whole test. `RunsAsWritten`: the outcome, checks, cycles and final state are those of the
text read statement by statement (the reference reading `Ref` in `Harness`, written with
recursive functions so that it can be proved about).
`EndsOrAsks`: the command ends or asks.

**`sync_loop`** (`MCSyncLoop.cfg`). The range 2..8, whose end is a power of two, so that
the counter has no room for it, with a body that tells samples, positions and the
starting value apart. `ServiceSpec`: refinement of `LoopService`. `RunEnds`.

**`pulse_sync`** (`PulseSync.cfg`). Up to five pulses between two resets and every
order of the edges; five exceed what the chain can hold at once. `NoneInvented`,
`ExactlyOnce` (while a destination edge falls between any two pulses) and `Arrives`.

**`fifo`** (`Fifo.cfg`). A ring of three cells, no power of two, three data values.
`QueueSpec`: refinement of `BoundedQueue`, outputs included.

Every property of these runs has a mutant in `PROJECT.json`: a small change of one
definition, such as the code could have had, that makes TLC find the property violated.
They are the operators whose comment starts with `Fault:`, used by nothing else.

One run shows where the code and what is written about it disagree: `translation_reparses`
(`MCTranslationPrinted.cfg`, `Reparses`): `(-a)[1]` is printed without its parentheses, so that the
output of `translate --order` parses as `-(a[1])` (`core/pretty/exprs.rs:47`, against
`core/pretty/mod.rs:10`).

### Divergences

What the passing properties except, by the operator that excepts it. An entry is a program of
the run in which the two sides differ.

| Exception | What happens |
| --- | --- |
| `ConstantKeepsItsKind` | a literal is adapted to its sibling by the checker; the simulator gives it its natural, unsigned kind, and stops (S0240) on `s * 1` with a signed `s` (`sim/value/binary.rs:145`) |
| `LiteralBranch` | an unsized literal as a branch of `if`, `match`, `min` or `max` has 32 bits in Verilog, and the branch beside it is widened to them: `&min(a, 3)` is 1 for `a = 3` in the simulator and 0 in the hardware |
| `LiteralSized` | a literal of a wrapping or bitwise operator is written with the sibling's width but not its sign, and loses the bits that do not fit: `-(s ^ 1)` |
| `ContextEscapes` | `not`, `>>` or a wrapping operator left in a wider context: next to an unsized literal in a comparison, or under an operator that grows: `extend(not a, 4)` of two zero bits is 3 in the simulator and 15 in the hardware |
| `KindMissed` | `infer_kind` passes a unary operator by (`core/emit_verilog/kinds.rs:125`), so `unsigned(-s)` is 7 in the simulator and 3 in the hardware; a literal wider than its sibling is given the sibling's width |
| `SelectUnsupported` | a bit of a result: accepted, but `(not a)[c]` stops the simulator, and `{c, (not a)[0]}` is refused by the emitter |
| `DrivesAtRuntime` | a bit driven at an index only known at run time is accepted and cannot be elaborated |
| `NamesOuterVariable` | of two nested `repeat`s only the inner variable is substituted in expressions |
| `AssertsInRepeat` | `assert`, `foreach` and `sync loop` in a `repeat` or `foreach` are accepted and then S0126 |
| `DrivenByDefaultOnly` | drivers are checked under the parameters' defaults only; an instance may leave a bit undriven or drive it twice |
| `NamesCollide` | a declared name `u_y` is the flat name of port `y` of instance `u` |
| `ClockDangles` | a clock or reset of a child with neither connection nor namesake is bound to nothing |
| `LoopCaptured` | inlining replaces a child's `loop` variable that is also a name of the child |
| `CrossesInstance`, `BlockReadsInConstIf`, `ReadsPulse` | clock crossings the clock pass does not see: through the ports of an instance, in a block under `const if`, of the wire of a `sync.pulse` |
| `ColouredTwice` | the clock pass colours both branches of a `const if` and keeps the first (`core/checker/clocks.rs:431`), so it may be wrong and not just imprecise |
| `PrintsItself` | besides the finding above, `&(&a)` and `\|(\|a)` are printed `&&a` and `\|\|a`; the last expression of a function that is an `if` reads as a statement; `Foo()` as the type of a bundle is printed `Foo` |
| `Shallow` | the printer adds parentheses to long chains, and they count towards the depth limit (E1113) |
| `Special` | a Tamil name may be romanized to `min` or another builtin, although `core/translate.rs:207` says that a romanized name never shadows a real one |
| `side` | a command that romanizes nothing leaves an older name map beside its output, and the next command restores names from it |
| `Closed` | a damaged line that ends in an operator or an open parenthesis takes the next line with it |
| `excused` | `check.rs:231` says that the fix-save is never missed; a file that stopped the load and lies outside of the directories watched so far may be fixed unheard |
| `OtherVariant` | embedded modules are deduplicated by their stem alone, so of a project that imports both variants of a module every import is linked to the one met first (`src/project.rs:265`), where `spec/02:268-270` says that the written alias selects which |
| `CyclesAreFields` | a combinational loop through bundle fields is accepted (`core/checker/drivers.rs:532`) and stops the simulator (S0238), where `spec/02:1619` says cycles are rejected |

Met while modelling, and shown by no run:

* A bit write whose index is the loop variable is folded without it (`sim/kernel.rs:495`) and stops the
  edge (S0216), although each copy of the body is an ordinary statement (`spec/02`, 1.15).
* With two resets the simulator obeys either (`sim/kernel.rs:232`), the emitted blocks the first
  (`core/emit_verilog/module/mod.rs:535`).
* Module-level asserts are checked at ticks only, so an `expect` after a drive passes in a state in which one
  fails (`sim/harness/mod.rs:358`, `spec/02:1185`). Module-level covers are counted at both edges of a
  tick (`sim/kernel.rs:315`).
* A `sync loop` over an empty or backward range runs until its counter wraps
  (`core/ast/sync_loop_lower.rs:88`).
* When `finish` fails after the user has quit, the next test of the file still begins
  (`sim/harness/mod.rs:227`).
* One port bound twice starves the second peripheral (`src/emulate/host.rs:86`, against
  `docs/guide/13-hardware-emulation.md:61`); a headless test with a `sim` block is skipped at its first tick
  and not before (`sim/harness/mod.rs:374`, `docs/guide/13:21`); a tick count is cut to 64 bits before it is
  compared with the limit (`sim/harness/mod.rs:390`).
* Two pulses of `sync.pulse` between two destination edges are both lost, where `docs/guide/08:259-261` names
  no minimum distance.
* Files that import each other load without an error: the visited set skips what was met
  (`src/project.rs:99`; `docs/source-guide/02-foundations.md:244` says so too), where `spec/02:260` says that
  cycles of imports are a compile error. The programs of `watch` have such cycles, and load.
* The elaborator drops a child's module-level asserts and covers, and does not rewrite the top's that
  read an instance; a constant of the file replaces a parameter of the same name; a memory walked by `foreach`
  in a block under `const if` is dropped; a bit index of 128 or more is S0134.
* Names restored in Tamil script keep the blank that separated their romanized form; a brace on a
  damaged line ends the recovery of the block around it.
* The language server loads a document without the embedded library, keeps one set of documents with
  published diagnostics, and runs its handlers concurrently, so the diagnostics of an older text may be
  published last (`src/lsp.rs`).

## 5. Fairness

* `Kernel`: `tick` and `tick_edge` run to completion on the caller's thread, hence weak
  fairness of `TickFall \/ Step`. Nothing obliges a caller to begin a call.
* `CheckedDesign`: the search and an evaluation are loops of one thread: weak fairness of
  `Check` and of the resolver's own steps, none of questions or changes of the state.
* `Harness`: weak fairness of what the program does by itself; none of the keyboard.
* `UartLink`: weak fairness of `Tick`, for a test that goes on ticking; the reader and
  accept threads owe nothing.
* `SyncLoop`, `PulseSync`: the clock (the destination clock) goes on ticking.
* `CheckWatch`: weak fairness of the process; none of the user. As the user's changes are
  finitely many, a burst ends; nothing in the code bounds the debounce of an endless one.
* `Expressions`, `Static`, `Translation` are one pass after another, and no liveness is claimed.

## 6. Theorems

Each holds for every value of the constants that satisfies the named assumptions of its
module. TLC evaluates the assumptions on each instance.

`KernelProofs` (every design: signals, widths, memories, programs, evaluation function).
`KernelTypeOK` is inductive; it needs the range of every frame of the interpreter.
`KernelMemInBounds` adds that pending cells are bounded too, because a commit copies them.
`KernelOwnEdgeOnly` rests on `OwnPending`: in the middle of an edge a scratch register
differs from the committed one only if it belongs to the edge. That in turn needs the
assumption that a register is assigned only in blocks of its own clock and edge, which
the checker guarantees by E0503. `KernelResetWins` rests on a similar invariant of an edge
under reset.

`CheckedDesignProofs` (any number of wires, any drivers). The invariant has two
halves. For the search: grey nodes are the ones with a leaving entry on the stack, every root
already passed is coloured or waiting, and as long as no cycle was reported, what a grey
node reads is black or waits above it, and what a black node reads is black and finished
before it. An empty stack then gives `AcceptedOrdered`. For the evaluation: along the
frames, while reads are recorded ones, the finishing order goes down (stated for any two
frames, not for neighbours, to be inductive); a wire under computation has no value yet and
is computed once; values read stay what they were. It follows that a wire met again would
have been finished before itself, unless a read on the way was not recorded
(`CycleThroughField`), and that what is remembered solves the equations (`MemoSolves`).

`UartLinkProofs` (every bit period of at least two cycles, every log length, every set of
bytes). The invariant ties the decoder's phase and cycle to the encoder's, one cycle ahead of it,
and says that the bits decoded so far are those of the byte at the front. `LinkLossless`,
`LinkSynchronised`, `LinkOneWait`, and `LinkImplementsStream`: each step is a step of
`ByteStream` or leaves it alone. The bound is needed: at one cycle to a bit the
longer start bit puts every sample one bit early, and TLC shows a byte whose last bit is 0
decoded as a framing error. `LinkOneWait` has an invariant of its own, `WaitInv`: only a
pending link waits, one that waited is not pending any more, and the first byte settles it.

`SyncLoopProofs` (every non-empty range, body, value and input sets). The counter is the
position in the range and the accumulator the loop over the samples so far. `Loop` is given
by its two equations (`LoopAssumption`), as induction over data is not available.
`LoopTyped`, `LoopImplementsService`.

`FifoProofs` (every depth and data width). The invariant is `TypeOK` itself: its last
conjunct says where the tail is. `FifoTyped`, `FifoImplementsQueue`.

`PulseSync` (any number of pulses, any order of the edges). `Accounted`: the two properties, which
need each other across a reset, that the registers are bits, and that an edge during a reset leaves the
registers of its clock clear. A release finds the whole chain clear because both clocks have
seen the reset; without that the destination would read half a reset as a pulse.
`PulseNoneInvented`, `PulseExactlyOnce`.

`CheckWatchProofs` (any files, imports, libraries and directories, any number of saves).
`ProjectLinked` rests on `LoaderInv`: what is visited has been loaded or is being walked, each
import walked so far is noted as a pending link under the number its file will get, nothing else is
noted, and the target of each note is visited or queued. Only when the queue is empty does this
say that every import has its file. That an embedded file has a variant which some import of the
project selects is `SourcesSelected`; that every import walked is of a file or of a known module,
`NoneBad`. Without the first, nothing would say whose source an import of the other variant gets. `RestIsFresh` rests on `WatchInv`: a file that differs from
what the last pass saw was changed outside of the project's directories, or is announced: an
event for it is in the channel, or in the burst that the command is draining. The first is the
excuse of `Fresh` and a divergence of section 4.

`CheckedDesignProofs` also has `ReportsAreCycles`. By `PathInv` the path is what the stack has
to leave, in order; neighbours on it are joined by a recorded read; and what waits to be entered is
read by the first node to be left below it. So the part of the path from a node met again
closes a cycle.

`KernelProofs` also has `KernelScoped`, by `ScopeInv`: each frame that binds a loop
variable remembers, for its end, what the frames below it give to the variable. A loop's
exit restores that value, so shadowing to any depth and a loop left after any iteration come out right.

`KernelImplementsNonBlocking` is the refinement of `NonBlocking`, for any program, nesting and
evaluation function. The middle of an edge is tied to its queue by `Progress`: the updates
already applied, followed by what is left of each frame of the stack and of the blocks to
come, are the whole queue (`Divided`), and the scratch copies are the outcome of the applied
part. What is left of a frame depends on the loop variables, so it needs `ScopeInv` to know
what they will be once the frames above it are done; that it is evaluated in the state before the edge
is where the scratch copies matter. `ResetPending` says the same of an edge under reset, `Settled` that
what `Commit`, the asserts and the covers find is the state after the edge, and `MemFun` that cells
never written read as their initial value. An error is the first update of the queue that is one:
what precedes it has been applied without any, to scratch copies only. The theorem has one hypothesis,
`PlainPatches`: no bit or slice bound mentions a loop variable. For the others it would be false:
the kernel folds such a bound without the loop variables and stops with an index error, where each
copy of the body would be an ordinary statement (section 4, the first of those shown by no run).
`Updates` recurses over the nesting of bodies and
`Outcome` over the queue; that each satisfies its equation is proved, for the one by the least
nesting at which it would fail and for the other by well-founded recursion on the naturals.

`KernelOrderIrrelevant` needs no such hypothesis. The queue of a block touches only its own registers and memory cells
(`UpdatesOwned`, from the targets of its body), and by `DriverAssumption` no other block has
them; so the last values of a place are those of the one block that has it, wherever the block
stands (`OrderOnto`, `LookSame`). Cover counts are shared between blocks, but only added to: the hits of a cover
in one order and in another are matched by a bijection of their positions (`ReorderedHits`).
Errors do not depend on the order either, since `EffectsOnly` finds none in the committed queue.

`HarnessProofs` (any test file, command line, registry, frame rate and limit). `WithinLimit`
rests on `CallInv`: the cycles simulated so far and those left of the call together
are within the limit, from the moment the call is allowed, over nested `if`s and branches.
`PeripheralsInStep` rests on `HostInv` and `Heard`: the peripherals of the block in force are the last of
the host, and each has been driven and called once for each cycle since it was bound, up to the cycle
that is being simulated, of which `pc` tells the one and not yet the other.
`DashboardPace` adds how far the screen may be behind in each phase of a batch. The last two
assume that no test binds one port twice, `[]BoundOnce`: a second peripheral on a port is
never called (section 4, "One port bound twice starves the second peripheral"), so neither holds
without it. The files of the run satisfy it, and TLC has checked that they do.
`BodyAssumption` says that the statements of a file are finite sequences of statements.
`HarnessRunsAsWritten` compares a run with `Ref`, which reads the body of the test by a recursive function over
its text and knows nothing of batches, frames, keys or the host. Its invariant, `RunInv`: the outcome so far,
after the cycles that the call still owes, and then what is left of each list on the stack, from the
innermost on, gives what the whole body gives (`Leads` names the outcome at which each list is resumed, so no
function over the stack is needed); and a verdict is that of the whole body, since a verdict passes through
whatever is left. That `Cycles` and `Reading` satisfy their equations is proved as for `Updates`
above, the one by iteration, the other by the size of the text that is left (`Rank`). `StateAssumption` says that
the simulator's operations stay within its states. The hypothesis, `CountsFit`, excludes the divergence
of section 4 in which a tick count of 2^64 or more is cut.

Model-checked only:

* All liveness (`Delivery`, `CallReturns`, `Settles`, `RunEnds`, `Arrives`, `EndsOrAsks`,
  `Rests`), as the prover handles neither ENABLED nor fairness.
* `Expressions`, `Static` and `Translation`, which are built from recursive operators over trees,
  and whose claims are inductions over those trees.

## 7. Plan

In this order, with what each would show:

1. `UartEcho`: `std/uart_tx.mimz` against the decoder of the host, a second implementation of
   the frame; `Debouncer`.
2. The language server: an order on the diagnostics that its handlers publish for the versions of a text.
3. Bundles, functions and enums in `Hardware`: the flattening of their fields, and the reads of a field.
4. The emitter's module level, instances, ports and always-blocks, against `Hierarchy`.

The runs are kept to a dozen and the properties to forty: a new run that passes takes the
place of one that shows a divergence already written up, or joins an existing composition.

## 8. Not modelled

Lint, analysis, morphology and explanations are functions from a tree to text with no state in between.
Waveforms, traces, the dashboard's drawing and the speaker's samples are output. Arithmetic beyond the
widths of the instances, and the constant folder's overflow, are the business of the unit tests and of the
differential tests against Icarus. The checks of bundles, enums, functions and extern modules are lookups of
a declaration and the width rules of `WidthCheck` applied to each part. Of the emitter, module headers,
functions, test benches and transliteration are text around the expressions and blocks that are modelled. The
language server answers each request from the text that comes with it; only its use of the parser is modelled.
`PROJECT.json` gives each part as a component with its reason.

## 9. Running

```
tlc -config MCKernel.cfg MCKernel.tla
tlapm KernelProofs.tla
```
`PROJECT.json` names the module and configuration of every run.
