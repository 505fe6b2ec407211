------------------------------- MODULE Parser --------------------------------
(****************************************************************************)
(* The recursive-descent parser: parser/mod.rs, parser/expr.rs and           *)
(* parser/items/*.                                                           *)
(*                                                                           *)
(* The parser's place is a record s: `i` the cursor, `c` the nodes built so  *)
(* far by the productions under way, `ok` FALSE after a production returned  *)
(* None, `bad` TRUE once a diagnostic was recorded.  A production is a       *)
(* sequence of steps; Steps runs them and stops at the first that fails, as  *)
(* the `?` after each call does.  g holds what does not change inside a      *)
(* production: the tokens `t`, the word order `th` and the nesting `d`,      *)
(* which every production leaves as it found it.                             *)
(****************************************************************************)
EXTENDS Lexer, TLC

CONSTANT MaxDepth

ASSUME MaxDepthAssumption == MaxDepth \in Nat \ {0}

N(k, v, c) == [k |-> k, v |-> v, c |-> c]
Leaf(k, v) == N(k, v, <<>>)
Id(name)   == Leaf("id", name)
None       == Leaf("none", "")
Error      == Leaf("error", "")
IsNode(n, k) == n.k = k

Peek(g, s)      == g.t[s.i]
AtMark(g, s, m) == Peek(g, s) = Mark(m)
AtKw(g, s, k)   == Peek(g, s) = Kw(k)
AtId(g, s)      == Peek(g, s).k = "id"
AtEof(g, s)     == Peek(g, s) = Eof
NextIs(g, s, tok) == s.i < Len(g.t) /\ g.t[s.i + 1] = tok

Bump(g, s)   == IF s.i < Len(g.t) THEN [s EXCEPT !.i = @ + 1] ELSE s
Report(s)    == [s EXCEPT !.bad = TRUE]
Fail(s)      == [s EXCEPT !.bad = TRUE, !.ok = FALSE]
Push(s, n)   == [s EXCEPT !.c = Append(@, n)]
Height(s)    == Len(s.c)
Top(s)       == s.c[Len(s.c)]
Above(s, h)  == SubSeq(s.c, h + 1, Len(s.c))
DropTo(s, h) == [s EXCEPT !.c = SubSeq(@, 1, h)]

\* The nodes above height h become the children of one node.
Reduce(s, h, k, v) == IF s.ok THEN Push(DropTo(s, h), N(k, v, Above(s, h))) ELSE s

Expect(g, s, tok) == IF Peek(g, s) = tok THEN Bump(g, s) ELSE Fail(s)
Ident(g, s) == IF AtId(g, s) THEN Push(Bump(g, s), Id(Peek(g, s).v)) ELSE Fail(s)

\* The lexer leaves no two newlines in a row.
SkipNewlines(g, s) == IF Peek(g, s) = Newline THEN Bump(g, s) ELSE s

\* Fault: always skips the token it is on.
RECURSIVE SyncPastToken(_, _)
SyncPastToken(g, s) ==
  LET a == Bump(g, s) IN
  IF Peek(g, a) = Newline THEN Bump(g, a)
  ELSE IF AtMark(g, a, "}") \/ AtEof(g, a) THEN a ELSE SyncPastToken(g, a)

RECURSIVE SyncToNewline(_, _)
SyncToNewline(g, s) ==
  IF Peek(g, s) = Newline THEN Bump(g, s)
  ELSE IF AtMark(g, s, "}") \/ AtEof(g, s) THEN s
  ELSE SyncToNewline(g, Bump(g, s))

RECURSIVE SyncToSimClose(_, _)
SyncToSimClose(g, s) ==
  IF AtMark(g, s, "}") \/ AtEof(g, s) THEN Bump(g, s) ELSE SyncToSimClose(g, Bump(g, s))

Terminator(g, s) ==
  IF Peek(g, s) = Newline THEN Bump(g, s)
  ELSE IF AtMark(g, s, "}") \/ AtEof(g, s) THEN s
  ELSE SyncToNewline(g, Report(s))

TooDeep(g) == g.d >= MaxDepth
Enter(g)   == [g EXCEPT !.d = @ + 1]

(****************************************************************************)
(* Steps.                                                                    *)
(****************************************************************************)
Step(do, of, w) == [do |-> do, of |-> of, w |-> w]
M(m)   == Step("mark", m, <<>>)
K(k)   == Step("kw", k, <<>>)
Do(p)  == Step(p, "", <<>>)      \* the production p
Opt(m, w)     == Step("opt", m, w)      \* after the mark m, if it is there
Many(w, m)    == Step("many", m, w)     \* comma-separated up to the closing m
Listed(m, w)  == Step("listed", m, w)   \* the same between brackets, or nothing
Body(what)    == Step("body", what, <<>>)
Node(k, w)    == Step("node", k, w)

Braced    == <<M("{"), Do("nl"), Do("expr"), Do("nl"), M("}")>>
Bounds     == <<Do("expr"), M(".."), Do("expr")>>
EdgeArgs  == <<M("("), Do("id"), M(")")>>
NamedArg  == <<Node("arg", <<Do("id"), M(":"), Do("expr")>>)>>
Param     == <<Node("param", <<Do("id"), M(":"), Do("paramty"), Opt("=", <<Do("expr")>>)>>)>>
Params    == <<Listed("(", Param)>>
Closing   == ("(" :> ")") @@ ("{" :> "}")
Decl      == <<Do("id"), M(":"), Do("ty")>>

PortForm    == <<Do("any")>> \o Decl \o <<Do("end")>>
ClockForm   == <<Do("any"), Do("id"), Do("end")>>
AsyncForm   == <<Do("any"), K("reset"), Do("id"), Do("end")>>
WireForm    == <<Do("any")>> \o Decl \o <<M("="), Do("expr"), Do("end")>>
MemForm     == <<Do("any")>> \o Decl \o <<Do("depth"), M("="), Do("expr"), Do("end")>>
ConstForm   == <<Do("any"), Do("id"), M(":"), Do("paramty"), M("="), Do("expr"), Do("end")>>
Payload     == <<Node("payload", Decl)>>
Variant     == <<Node("enumvariant", <<Do("id"), Do("payload"), Listed("(", Payload)>>)>>
EnumForm    == <<Do("any"), Do("id"), M("{"), Many(Variant, "}"), Do("nonempty")>>
ImportForm  == <<Do("any"), Do("path"), Do("end")>>
OnForm      == <<Do("any"), Do("edge")>> \o EdgeArgs \o <<Body("seq")>>
OnThamizh   == <<Do("edge")>> \o EdgeArgs \o <<K("on"), Body("seq")>>
SyncForm    == <<Do("any"), K("loop"), Do("id"), K("on"), Do("edge")>> \o EdgeArgs
                 \o <<M("("), Do("id"), M(":")>> \o Bounds \o <<M(")"), M("->")>>
                 \o Decl \o <<M("="), Do("expr"), Body("seq")>>
AssertForm  == <<Do("any"), M("("), Do("expr"), Opt(",", <<Do("str")>>), M(")")>>
RepeatForm(what)  == <<Do("any"), Do("id"), M(":")>> \o Bounds \o <<Body(what)>>
ForeachForm(what) == <<Do("any"), Do("id"), K("in"), Do("source"), Body(what)>>
DriveForm   == <<Do("lvalue"), M("="), Do("expr"), Do("end")>>
AssignForm  == <<Do("lvalue"), M("<-"), Do("expr"), Do("end")>>
DefaultForm == <<Do("any"), Do("id"), M("<-"), Do("expr"), Do("end")>>
ConstIfForm == <<Do("any"), Do("any"), M("("), Do("expr"), M(")"), Body("item"), Do("constelse")>>
LetForm     == <<Do("any"), Do("id"), M("="), Do("expr")>>
ReturnForm  == <<Do("any"), Do("expr")>>
DestructForm == <<Do("any"), M("{"), Many(<<Do("id")>>, "}"), M("="), Do("expr"), Do("end")>>
InstForm    == <<Do("any"), Do("id"), Opt("[", <<Do("expr"), M("]")>>), M("="), Do("path"), M("("),
                 Many(NamedArg, ")"), Do("conns"), Do("end")>>
ModuleForm  == <<Do("any"), Do("id")>> \o Params \o <<Body("item")>>
BundleForm  == <<Do("any"), Do("id")>> \o Params \o <<Body("field")>>
ExternForm  == <<Do("any"), K("module"), Do("id"), Opt("=", <<Do("str")>>)>> \o Params
                 \o <<M("{"), Do("nl"), Do("doc"), Do("externitems")>>
FnParam     == <<Node("fnparam", Decl)>>
FnForm      == <<Do("any"), Do("id"), M("("), Do("fnparams"), M(")"), M("->"), Do("ty"), M("{"),
                 Do("fnbody")>>
TestArgs    == Listed("(", NamedArg)
TestForm    == <<Do("any"), Do("name"), K("for"), Do("path"), TestArgs, Body("test")>>
TestThamizh == <<Do("path"), TestArgs, K("for"), Do("name"), Do("namefirst"), K("test"), Body("test")>>
TickForm    == <<Do("any"), M("("), Do("id"), Opt(",", <<Do("expr")>>), M(")"), Do("end")>>
ExpectForm  == <<Do("any"), Do("expr"), Do("end")>>
InputForm   == <<Do("id"), M("="), Do("expr"), Do("end")>>
BindArg     == <<Node("bindarg", <<Do("id"), M(":"), Do("bindvalue")>>)>>
BindForm    == <<Do("any"), Do("id"), M("->"), Do("id"), M("("), Many(BindArg, ")"), Do("end")>>
SpeedForm   == <<Do("any"), Do("unit"), M("("), Do("expr"), M(")")>>
ArmForm     == <<Do("patterns"), M("=>"), Do("expr"), Do("end")>>

\* What the leading keyword of a module item, and of a statement, starts.
ItemForms ==
  [in |-> PortForm, out |-> PortForm, clock |-> ClockForm, reset |-> ClockForm,
   async |-> AsyncForm, wire |-> WireForm, reg |-> WireForm, mem |-> MemForm,
   const |-> ConstForm, enum |-> EnumForm, on |-> OnForm, sync |-> SyncForm,
   assert |-> AssertForm, cover |-> AssertForm, repeat |-> RepeatForm("item"),
   foreach |-> ForeachForm("item")]
SeqForms  == [assert |-> AssertForm, cover |-> AssertForm, default |-> DefaultForm]
FnForms   == [let |-> LetForm, return |-> ReturnForm]
TestForms == [tick |-> TickForm, expect |-> ExpectForm]
FileForms == [const |-> ConstForm, module |-> ModuleForm, enum |-> EnumForm, test |-> TestForm,
              fn |-> FnForm, bundle |-> BundleForm, extern |-> ExternForm]

Prec == ("*" :> 9) @@ ("*%" :> 9) @@ ("+" :> 8) @@ ("-" :> 8) @@ ("+%" :> 8) @@ ("-%" :> 8)
        @@ ("<<" :> 7) @@ (">>" :> 7) @@ ("&" :> 6) @@ ("^" :> 5) @@ ("|" :> 4)
        @@ ("==" :> 3) @@ ("!=" :> 3) @@ ("<" :> 3) @@ ("<=" :> 3) @@ (">" :> 3) @@ (">=" :> 3)
        @@ ("&&" :> 2) @@ ("||" :> 1) @@ ("??" :> 0)
BinOp(tok) ==
  CASE tok = Kw("and") -> "&&" [] tok = Kw("or") -> "||"
    [] tok.k = "mark" /\ tok.v \in DOMAIN Prec -> tok.v
    [] OTHER -> ""
PrecOf(tok) == IF BinOp(tok) = "" THEN -1 ELSE Prec[BinOp(tok)]
UnaryOp(tok) ==
  CASE tok = Kw("not") -> "!"
    [] tok.k = "mark" /\ tok.v \in {"-", "~", "!", "&", "|", "^"} -> tok.v
    [] OTHER -> ""
Ascending  == {"<", "<="}
Descending == {">", ">="}

\* `Builtin::from_name`: the arities of the builtin functions.
Builtins == [extend |-> 2, trunc |-> 2, signed |-> 1, unsigned |-> 1, min |-> 2, max |-> 2,
             abs |-> 1, nand |-> 1, nor |-> 1, xnor |-> 1, encoding |-> 1, clog2 |-> 1]
SyncCalls == {"double_flop", "pulse"}

(****************************************************************************)
(* Expressions: parser/expr.rs.                                              *)
(****************************************************************************)
RECURSIVE Steps(_, _, _), DoStep(_, _, _)

Produce(g, s, k, v, w) == Reduce(Steps(g, w, s), Height(s), k, v)

\* The productions that others come back to are steps too.
Expr(g, s)        == DoStep(g, Do("expr"), s)
Climb(g, min, s)  == DoStep(g, Step("binary", min, <<>>), s)
AStmt(g, what, s) == DoStep(g, Step("stmt", what, <<>>), s)
AnIf(g, what, s)  == DoStep(g, Step("if", what, <<>>), s)

\* A list up to `m`: newlines between the elements and a comma after the last
\* are allowed.
RECURSIVE List(_, _, _, _)
List(g, s, w, m) ==
  LET a == SkipNewlines(g, s)
      b == Steps(g, w, a)
      c == SkipNewlines(g, b)
  IN  CASE AtMark(g, a, m)   -> Bump(g, a)
        [] ~b.ok             -> b
        [] AtMark(g, c, ",") -> List(g, Bump(g, c), w, m)
        [] OTHER             -> Expect(g, c, Mark(m))

Args(g, s) == Reduce(List(g, Expect(g, s, Mark("(")), <<Do("expr")>>, ")"), Height(s), "list", "")

\* The chain's operators are kept as nodes between its operands.
RECURSIVE ChainRest(_, _, _)
ChainRest(g, s, h) ==
  IF PrecOf(Peek(g, s)) = 3
  THEN LET op == BinOp(Peek(g, s))
           r  == Climb(g, 4, SkipNewlines(g, Bump(g, s)))
       IN  IF r.ok THEN ChainRest(g, [r EXCEPT !.c = SubSeq(@, 1, Len(@) - 1) \o <<Leaf("op", op), Top(r)>>], h)
           ELSE r
  ELSE s

Pairs(q) ==
  LET Pair(i) == N("bin", q[2 * i].v, <<q[2 * i - 1], q[2 * i + 1]>>)
      all[i \in 1..(Len(q) \div 2)] ==
        IF i = 1 THEN Pair(1) ELSE N("bin", "&&", <<all[i - 1], Pair(i)>>)
  IN  all[Len(q) \div 2]

ComparisonChain(h, r) ==
  LET q   == Above(r, h)
      ops == {q[i].v : i \in {j \in 1..Len(q) : j % 2 = 0}}
  IN  CASE ~r.ok -> r
        [] Len(q) = 3 \/ ops \subseteq Ascending \/ ops \subseteq Descending ->
             Push(DropTo(r, h), Pairs(q))
        [] OTHER -> Fail(r)

RECURSIVE BinaryRest(_, _, _, _)
BinaryRest(g, min, s, h) ==
  LET p == PrecOf(Peek(g, s)) IN
  CASE ~s.ok \/ p < min \/ p = -1 -> s
    [] s.ok /\ p >= min /\ p = 3  -> BinaryRest(g, min, ComparisonChain(h, ChainRest(g, s, h)), h)
    [] s.ok /\ p >= min /\ p \notin {-1, 3} ->
         BinaryRest(g, min, Reduce(Climb(g, p + 1, SkipNewlines(g, Bump(g, s))), h, "bin", BinOp(Peek(g, s))), h)

ArrayLit(g, s) == Reduce(List(g, Bump(g, s), <<Do("expr")>>, "]"), Height(s), "array", "")

RECURSIVE Parts(_, _)
Parts(g, s) ==
  IF AtMark(g, s, ",")
  THEN LET r == SkipNewlines(g, Expr(g, SkipNewlines(g, Bump(g, s)))) IN IF r.ok THEN Parts(g, r) ELSE r
  ELSE Expect(g, s, Mark("}"))

RECURSIVE Group(_, _)
Group(g, s) ==
  LET r == SkipNewlines(g, Expr(g, SkipNewlines(g, s)))
  IN  CASE ~r.ok             -> r
        [] AtMark(g, r, ",") -> Group(g, Bump(g, r))
        [] OTHER             -> Steps(g, <<M("}"), Do("nl"), M("}")>>, r)

BraceExpr(g, s) ==
  LET a == SkipNewlines(g, Bump(g, s))
      b == SkipNewlines(g, Expr(g, a))
      h == Height(s)
  IN  CASE AtId(g, a) /\ NextIs(g, a, Mark(":")) -> Reduce(List(g, a, NamedArg, "}"), h, "lit", "")
        [] ~b.ok             -> b
        [] AtMark(g, b, "{") -> Reduce(Group(g, Bump(g, b)), h, "replicate", "")
        [] OTHER             -> Reduce(Parts(g, b), h, "concat", "")

BuiltinCall(g, s, name) ==
  LET r == Args(g, s)
      n == Top(r)
  IN  CASE ~r.ok -> r
        [] name \notin DOMAIN Builtins      -> Push(DropTo(r, Height(s)), N("fncall", name, n.c))
        [] Len(n.c) = Builtins[name]        -> Push(DropTo(r, Height(s)), N("call", name, n.c))
        [] OTHER                            -> Fail(r)

SyncPrimCall(g, s) ==
  LET a == Steps(g, <<Do("any"), M("."), Do("id")>>, s)
      r == Args(g, DropTo(a, Height(s)))
  IN  CASE ~a.ok \/ Top(a).v \notin SyncCalls -> Fail(a)
        [] ~r.ok                              -> r
        [] Len(Top(r).c) # 3                  -> Fail(r)
        [] OTHER -> Push(DropTo(r, Height(s)), N("synccall", Top(a).v, Top(r).c))

IfExpr(g, s) ==
  IF TooDeep(g) THEN Fail(s)
  ELSE Produce(Enter(g), s, "ifexpr", "", <<Do("any"), Do("expr")>> \o Braced \o <<K("else"), Do("elseexpr")>>)

\* The condition is on top, the keyword is next.
IfExprThamizh(g, s) ==
  IF TooDeep(g) THEN Fail(s)
  ELSE Reduce(Steps(Enter(g), <<Do("any")>> \o Braced \o <<K("else"), Do("elseexpr")>>, s), Height(s) - 1, "ifexpr", "")

IfAfter(g, head) == IF head.ok /\ AtKw(g, head, "if") THEN IfExprThamizh(g, head) ELSE Fail(head)
ElseExpr(g, s) ==
  CASE ~g.th /\ AtKw(g, s, "if")     -> IfExpr(g, s)
    [] g.th /\ ~AtMark(g, s, "{")    -> IfAfter(g, Climb(g, 0, s))
    [] (g.th => AtMark(g, s, "{")) /\ (~g.th => ~AtKw(g, s, "if")) -> Steps(g, Braced, s)

Primary(g, s) ==
  LET p == Peek(g, s) IN
  CASE p.k = "int"                  -> Push(Bump(g, s), Leaf("int", p.v))
    [] p \in {Kw("true"), Kw("false")} -> Push(Bump(g, s), Leaf("bool", p.v))
    [] p = Mark("(")                -> Steps(g, <<Do("any"), Do("nl"), Do("expr"), Do("nl"), M(")")>>, s)
    [] p = Mark("{")                -> BraceExpr(g, s)
    [] p = Mark("[")                -> ArrayLit(g, s)
    [] p = Kw("if") /\ ~g.th        -> IfExpr(g, s)
    [] p = Kw("match") /\ ~g.th     -> DoStep(g, Do("match"), s)
    [] p = Kw("sync")               -> SyncPrimCall(g, s)
    [] p.k = "id" /\ NextIs(g, s, Mark("(")) -> BuiltinCall(g, Bump(g, s), p.v)
    [] p.k = "id"                   -> Ident(g, s)
    [] OTHER                        -> Fail(s)

Selected(g, s, h) ==
  LET a == Expr(g, Bump(g, s))
      b == Expr(g, Bump(g, a))
  IN  CASE ~a.ok             -> a
        [] ~AtMark(g, a, ":") -> Reduce(Expect(g, a, Mark("]")), h, "index", "")
        [] ~b.ok             -> b
        [] OTHER             -> Reduce(Expect(g, b, Mark("]")), h, "slice", "")

FieldOf(g, s, h) ==
  LET a == Ident(g, Bump(g, s))
      r == Args(g, a)
      base == s.c[h + 1]
  IN  CASE ~a.ok              -> a
        [] ~AtMark(g, a, "(") -> Push(DropTo(a, h), N("field", Top(a).v, <<base>>))
        [] ~IsNode(base, "id") -> Fail(a)
        [] ~r.ok              -> r
        [] OTHER -> Push(DropTo(r, h), N("construct", base.v, <<Top(a), Top(r)>>))

RECURSIVE PostfixRest(_, _, _)
PostfixRest(g, s, h) ==
  CASE s.ok /\ AtMark(g, s, "[") -> PostfixRest(g, Selected(g, s, h), h)
    [] s.ok /\ AtMark(g, s, ".") -> PostfixRest(g, FieldOf(g, s, h), h)
    [] OTHER                     -> s

Postfix(g, s) == PostfixRest(g, DoStep(g, Do("primary"), s), Height(s))

RECURSIVE Unary(_, _)
Unary(g, s) ==
  LET op == UnaryOp(Peek(g, s)) IN
  IF TooDeep(g) THEN Fail(s)
  ELSE IF op = "" THEN Postfix(Enter(g), s)
       ELSE Reduce(Unary(Enter(g), Bump(g, s)), Height(s), "unary", op)

\* An operand and the operators that follow it.
Binary(g, min, s) == BinaryRest(g, min, Unary(g, s), Height(s))

Pattern(g, s) ==
  LET p == Peek(g, s) IN
  CASE p.k \in {"int", "mask"}                  -> Push(Bump(g, s), Leaf(p.k, p.v))
    [] p \in {Kw("true"), Kw("false")}          -> Push(Bump(g, s), Leaf("bool", p.v))
    [] p = Token("id", "_")                     -> Push(Bump(g, s), Leaf("wild", ""))
    [] p.k = "id"                               ->
         Produce(g, s, "pattern", "", <<Do("id"), M("."), Do("id"), Listed("(", <<Do("id")>>)>>)
    [] OTHER                                    -> Fail(s)

RECURSIVE Patterns(_, _)
Patterns(g, s) ==
  LET a == Pattern(g, s) IN
  IF a.ok /\ AtMark(g, a, ",") THEN Patterns(g, Bump(g, a)) ELSE a

\* A broken arm is skipped to the end of its line and leaves nothing behind.
RECURSIVE Arms(_, _, _)
Arms(g, s, h) ==
  LET a == SkipNewlines(g, s)
      r == Produce(g, a, "arm", "", ArmForm)
  IN  CASE AtMark(g, a, "}") -> Reduce(Bump(g, a), h, "match", "")
        [] AtEof(g, a)       -> Reduce(Report(a), h, "match", "")
        [] r.ok              -> Arms(g, r, h)
        [] OTHER             -> Arms(g, SyncToNewline(g, [DropTo(r, Height(a)) EXCEPT !.ok = TRUE]), h)

\* The scrutinee is on top.
FinishMatch(g, s) ==
  LET a == Expect(g, s, Mark("{")) IN IF a.ok THEN Arms(g, a, Height(s) - 1) ELSE a

MatchExpr(g, s) == LET a == Climb(g, 0, Bump(g, s)) IN IF a.ok THEN FinishMatch(g, a) ELSE a

ExprThamizh(g, head) ==
  CASE ~head.ok               -> head
    [] AtKw(g, head, "if")    -> IfExprThamizh(g, head)
    [] AtKw(g, head, "match") -> FinishMatch(g, Bump(g, head))
    [] OTHER                  -> head

AnyExpr(g, s) ==
  CASE g.th                 -> ExprThamizh(g, Climb(g, 0, s))
    [] AtKw(g, s, "if")     -> IfExpr(g, s)
    [] AtKw(g, s, "match")  -> MatchExpr(g, s)
    [] OTHER                -> Climb(g, 0, s)

(****************************************************************************)
(* Types, targets and the small productions: parser/items/mod.rs.            *)
(****************************************************************************)
ValidSuffix(g, s, h, width) ==
  LET valid(name, w) == Push(DropTo(Bump(g, s), h),
        N("bundle", "", <<N("path", "", <<Id(name)>>), N("list", "", <<N("arg", "", <<Id("N"), w>>)>>)>>))
  IN  CASE AtMark(g, s, "??")      -> Report(Bump(g, s))
        [] ~AtMark(g, s, "?")      -> s
        [] IsNode(Top(s), "bit")    -> valid("__Valid", Leaf("int", "1"))
        [] IsNode(Top(s), "bits")   -> valid("__Valid", width)
        [] IsNode(Top(s), "signed") -> valid("__ValidSigned", width)

Path(g, s) ==
  LET RECURSIVE Segments(_)
      Segments(a) == IF a.ok /\ AtMark(g, a, ".") THEN Segments(Ident(g, Bump(g, a))) ELSE a
  IN  Reduce(Segments(Ident(g, s)), Height(s), "path", "")

ScalarTy(g, s) ==
  LET p == Peek(g, s)
      h == Height(s)
      w == Produce(g, Bump(g, s), p.v, "", <<M("["), Do("expr"), M("]")>>)
      q == Path(g, s)
  IN  CASE p = Token("id", "bit") -> ValidSuffix(g, Push(Bump(g, s), Leaf("bit", "")), h, None)
        [] p \in {Token("id", "bits"), Token("id", "signed")} ->
             IF w.ok THEN ValidSuffix(g, w, h, Top(w).c[1]) ELSE w
        [] ~q.ok                -> q
        [] AtMark(g, q, "(")    -> Reduce(Steps(g, <<M("("), Many(NamedArg, ")")>>, q), h, "bundle", "")
        [] OTHER                -> Reduce(q, h, "named", "")

RECURSIVE ArraySuffix(_, _, _)
ArraySuffix(g, s, h) ==
  IF s.ok /\ AtMark(g, s, "[")
  THEN ArraySuffix(g, Reduce(Steps(g, <<Do("any"), Do("expr"), M("]")>>, s), h, "arrayty", ""), h)
  ELSE s
Ty(g, s) == ArraySuffix(g, ScalarTy(g, s), Height(s))

\* A memory's type is an array type taken apart again.
Depth(s) ==
  LET t == Top(s) IN
  IF IsNode(t, "arrayty") THEN [s EXCEPT !.c = SubSeq(@, 1, Len(@) - 1) \o t.c]
  ELSE Push(Report(s), Leaf("int", "0"))

LValue(g, s) ==
  LET a == Ident(g, s)
      h == Height(s)
  IN  IF a.ok /\ AtMark(g, a, "[") THEN Selected(g, a, h) ELSE a

ExprToLvalue(s) ==
  LET e == Top(s) IN
  IF IsNode(e, "id") \/ (e.k \in {"index", "slice"} /\ IsNode(e.c[1], "id")) THEN s ELSE Fail(s)

Source(g, s) ==
  LET a == Expr(g, s)
      b == Expr(g, Bump(g, a))
  IN  CASE ~a.ok              -> a
        [] AtMark(g, a, "..") -> Reduce(b, Height(s), "range", "")
        [] IsNode(Top(a), "id") -> a
        [] OTHER              -> Fail(a)

RECURSIVE FnParams(_, _)
FnParams(g, s) ==
  LET a == Steps(g, FnParam, s) IN
  IF a.ok /\ AtMark(g, a, ",") THEN FnParams(g, Bump(g, a)) ELSE a

\* A missing `}` after the connections is reported, and the instance kept.
RECURSIVE Conns(_, _)
Conns(g, s) ==
  LET a == SkipNewlines(g, s)
      b == Steps(g, NamedArg, a)
      c == SkipNewlines(g, b)
  IN  CASE AtMark(g, a, "}") -> Bump(g, a)
        [] ~b.ok             -> b
        [] AtMark(g, c, ",") -> Conns(g, Bump(g, c))
        [] AtMark(g, c, "}") -> Bump(g, c)
        [] OTHER             -> Report(c)

OneOf(g, s, k, names) ==
  CASE ~AtId(g, s)                -> Fail(s)
    [] Peek(g, s).v \in names     -> Push(Bump(g, s), Leaf(k, Peek(g, s).v))
    [] OTHER                      -> Fail(Bump(g, s))
Edge(g, s) ==
  IF AtKw(g, s, "rise") \/ AtKw(g, s, "fall") THEN Push(Bump(g, s), Leaf("edge", Peek(g, s).v)) ELSE Fail(s)
Text(g, s) ==
  IF Peek(g, s).k = "str" THEN Push(Bump(g, s), Leaf("str", Peek(g, s).v)) ELSE Fail(s)
\* The tree of a test is the same whichever order it was written in.
NameFirst(s) ==
  LET n == Len(s.c) IN [s EXCEPT !.c = SubSeq(@, 1, n - 3) \o <<@[n], @[n - 2], @[n - 1]>>]
BindValue(g, s) ==
  IF Peek(g, s).k \in {"str", "id", "int"} THEN Push(Bump(g, s), Leaf(Peek(g, s).k, Peek(g, s).v)) ELSE Fail(s)
Doc(g, s) ==
  IF Peek(g, s) = Token("id", "doc")
  THEN Produce(g, s, "some", "", <<Do("any"), M(":"), Do("str"), Do("end")>>) ELSE Push(s, None)

(****************************************************************************)
(* Statements and blocks.                                                    *)
(****************************************************************************)
ConstElse(g, s) ==
  IF AtKw(g, s, "else") THEN Steps(g, <<Do("any"), Body("item")>>, s) ELSE Push(s, None)

ModuleItem(g, s) ==
  LET p == Peek(g, s) IN
  CASE p = Kw("const") /\ NextIs(g, s, Kw("if"))   -> Produce(g, s, "constif", "", ConstIfForm)
    [] p = Kw("let") /\ NextIs(g, s, Mark("{"))    -> Produce(g, s, "destructure", "", DestructForm)
    [] p = Kw("let")                               -> Produce(g, s, "inst", "", InstForm)
    [] p \in {Kw("rise"), Kw("fall")} /\ g.th      -> Produce(g, s, "on", "", OnThamizh)
    [] p.k = "kw" /\ p.v \in DOMAIN ItemForms      -> Produce(g, s, p.v, "", ItemForms[p.v])
    [] p.k = "id"                                  -> Produce(g, s, "drive", "", DriveForm)
    [] OTHER                                       -> Fail(s)

\* A newline may come before `else`; without one the cursor goes back.
ThamizhElse(g, what, head) ==
  IF head.ok /\ AtKw(g, head, "if") THEN DoStep(g, Step("ifthamizh", what, <<>>), head) ELSE Fail(head)

Else(g, what, s) ==
  LET a == SkipNewlines(g, s)
      b == Bump(g, a)
      h == Height(s)
  IN  CASE ~s.ok                                     -> s
        [] ~AtKw(g, a, "else")                       -> Push(s, None)
        [] what # "test" /\ g.th /\ ~AtMark(g, b, "{") ->
             Reduce(ThamizhElse(g, what, Climb(g, 0, b)), h, "block", "")
        [] (what = "test" \/ ~g.th) /\ AtKw(g, b, "if") -> Reduce(AnIf(g, what, b), h, "block", "")
        [] OTHER                                     -> Steps(g, <<Body(what)>>, b)

IfStmt(g, what, s) ==
  IF TooDeep(g) THEN Fail(s)
  ELSE Reduce(Else(Enter(g), what, Steps(Enter(g), <<Do("any"), Do("expr"), Body(what)>>, s)),
              Height(s), IF what = "test" THEN "testif" ELSE "if", "")

\* The condition is on top, the keyword is next.
IfThamizh(g, what, s) ==
  IF TooDeep(g) THEN Fail(s)
  ELSE Reduce(Else(Enter(g), what, Steps(Enter(g), <<Do("any"), Body(what)>>, s)), Height(s) - 1, "if", "")

LoopStmt(g, what, s) ==
  IF TooDeep(g) THEN Fail(s)
  ELSE Produce(Enter(g), s, Peek(g, s).v, "",
               IF AtKw(g, s, "loop") THEN RepeatForm(what) ELSE ForeachForm(what))
AtLoop(g, s) == AtKw(g, s, "loop") \/ AtKw(g, s, "foreach")

\* In the Tamil order a statement of a block starts with an expression.
HeadedStmt(g, what, head) ==
  CASE ~head.ok              -> head
    [] AtKw(g, head, "if")   -> DoStep(g, Step("ifthamizh", what, <<>>), head)
    [] AtMark(g, head, "<-") /\ what = "seq" ->
         Reduce(Steps(g, <<Do("tolvalue"), Do("expr"), Do("end")>>, Bump(g, head)), Height(head) - 1, "assign", "")
    [] OTHER                 -> Fail(head)

SeqStmt(g, s) ==
  LET p == Peek(g, s)
  IN  CASE AtLoop(g, s)                             -> LoopStmt(g, "seq", s)
        [] p.k = "kw" /\ p.v \in DOMAIN SeqForms    -> Produce(g, s, p.v, "", SeqForms[p.v])
        [] ~g.th /\ p = Kw("if")                    -> AnIf(g, "seq", s)
        [] ~g.th /\ p.k = "id"                      -> Produce(g, s, "assign", "", AssignForm)
        [] OTHER -> IF g.th THEN HeadedStmt(g, "seq", Climb(g, 0, s)) ELSE Fail(s)

FnStmt(g, s) ==
  LET p == Peek(g, s)
  IN  CASE AtLoop(g, s)                            -> LoopStmt(g, "fn", s)
        [] p.k = "kw" /\ p.v \in DOMAIN FnForms    -> Produce(g, s, p.v, "", FnForms[p.v])
        [] ~g.th /\ p = Kw("if")                   -> AnIf(g, "fn", s)
        [] OTHER -> IF g.th THEN HeadedStmt(g, "fn", Climb(g, 0, s)) ELSE Fail(s)

\* The statements above h become the block that precedes the tail.
CloseStmts(s, h) ==
  IF s.ok THEN [s EXCEPT !.c = SubSeq(@, 1, h) \o <<N("block", "", SubSeq(@, h + 1, Len(@) - 1)), Top(s)>>]
  ELSE s
RECURSIVE FnBody(_, _, _)
FnBody(g, s, h) ==
  LET a == SkipNewlines(g, s)
      r == AStmt(g, "fn", a)
      head == Climb(g, 0, a)
      stmt == \/ AtLoop(g, a) \/ AtKw(g, a, "let") \/ AtKw(g, a, "return")
              \/ IF g.th THEN head.ok /\ AtKw(g, head, "if") ELSE AtKw(g, a, "if")
  IN  CASE stmt /\ r.ok -> FnBody(g, r, h)
        [] stmt         -> r
        [] OTHER        -> Steps(g, <<Do("nl"), M("}")>>, CloseStmts(Expr(g, a), h))

SpeedUnits == [hz |-> "1", khz |-> "1000", mhz |-> "1000000"]
\* `speed khz(n)` is the product n * 1000.
Unit(g, s) == OneOf(g, s, "int", DOMAIN SpeedUnits)
Desugar(c) == N("bin", "*", <<c[2], Leaf("int", SpeedUnits[c[1].v])>>)

RECURSIVE SimRest(_, _, _)
SimRest(g, s, speed) ==
  LET a == SkipNewlines(g, s)
      u == Steps(g, SpeedForm, a)
      b == Produce(g, a, "bind", "", BindForm)
      abandoned == [SyncToSimClose(g, Report(a)) EXCEPT !.ok = FALSE]
  IN  CASE AtMark(g, a, "}") -> Push(Bump(g, a), speed)
        [] AtEof(g, a)       -> Push(Report(a), speed)
        [] AtKw(g, a, "speed") ->
             IF u.ok THEN SimRest(g, Terminator(g, DropTo(u, Height(a))), Desugar(Above(u, Height(a))))
             ELSE [SyncToSimClose(g, u) EXCEPT !.ok = FALSE]
        [] AtKw(g, a, "bind") -> IF b.ok THEN SimRest(g, b, speed) ELSE [SyncToSimClose(g, b) EXCEPT !.ok = FALSE]
        [] OTHER             -> abandoned
SimBlock(g, s) ==
  LET a == Expect(g, Bump(g, s), Mark("{")) IN
  IF a.ok THEN Reduce(SimRest(g, a, None), Height(s), "sim", "") ELSE a

TestStmt(g, s) ==
  LET p == Peek(g, s) IN
  CASE p = Kw("if")                              -> AnIf(g, "test", s)
    [] p = Kw("sim")                             -> SimBlock(g, s)
    [] p.k = "kw" /\ p.v \in DOMAIN TestForms    -> Produce(g, s, p.v, "", TestForms[p.v])
    [] p.k = "id"                                -> Produce(g, s, "input", "", InputForm)
    [] OTHER                                     -> Fail(s)

FieldDecl(g, s) ==
  LET a == Produce(g, s, "fielddecl", "", Decl) IN
  IF ~a.ok THEN a ELSE IF AtMark(g, a, ",") THEN Bump(g, a) ELSE Terminator(g, a)

Stmt(g, what, s) ==
  CASE what = "item"  -> ModuleItem(g, s)
    [] what = "seq"   -> SeqStmt(g, s)
    [] what = "fn"    -> FnStmt(g, s)
    [] what = "test"  -> TestStmt(g, s)
    [] what = "field" -> FieldDecl(g, s)

\* A statement whose failure is the failure of the block around it.
Propagates(g, what, s) ==
  \/ what = "field"
  \/ what = "test" /\ (AtId(g, s) \/ AtKw(g, s, "tick") \/ AtKw(g, s, "expect"))

RECURSIVE Block(_, _, _, _)
Block(g, what, s, h) ==
  LET a == SkipNewlines(g, s)
      r == AStmt(g, what, a)
  IN  CASE AtMark(g, a, "}") -> Reduce(Bump(g, a), h, "block", "")
        [] AtEof(g, a)       -> Reduce(Report(a), h, "block", "")
        [] r.ok              -> Block(g, what, r, h)
        [] Propagates(g, what, a) -> r
        [] OTHER -> Block(g, what, Push(SyncToNewline(g, [DropTo(r, Height(a)) EXCEPT !.ok = TRUE]), Error), h)

RECURSIVE ExternItems(_, _)
ExternItems(g, s) ==
  LET a == SkipNewlines(g, s)
      p == Peek(g, a)
      r == Produce(g, a, p.v, "", ItemForms[p.v])
  IN  CASE p = Mark("}") -> Bump(g, a)
        [] p = Eof       -> Report(a)
        [] p \in {Kw("in"), Kw("out"), Kw("clock"), Kw("reset")} -> IF r.ok THEN ExternItems(g, r) ELSE r
        [] OTHER         -> Fail(a)

(****************************************************************************)
(* Files: parser/items/file.rs.                                              *)
(****************************************************************************)
FileItem(g, s) ==
  LET p == Peek(g, s) IN
  CASE p = Kw("extern") -> Produce(g, s, "extern", "", ExternForm)
    [] p.k = "kw" /\ p.v \in DOMAIN FileForms -> Produce(g, s, p.v, "", FileForms[p.v])
    [] p.k = "id" /\ g.th -> Produce(g, s, "test", "", TestThamizh)
    [] p = Mark("}")      -> Fail(Bump(g, s))
    [] OTHER              -> [SyncToNewline(g, Report(s)) EXCEPT !.ok = FALSE]

\* A broken item leaves a placeholder and the cursor where it failed; a broken
\* import leaves nothing.
RECURSIVE FileRest(_, _)
FileRest(g, s) ==
  LET a == SkipNewlines(g, s)
      m == AtKw(g, a, "import")
      r == IF m THEN Produce(g, a, "import", "", ImportForm) ELSE DoStep(g, Do("fileitem"), a)
      kept == [DropTo(r, Height(a)) EXCEPT !.ok = TRUE]
  IN  CASE AtEof(g, a)       -> a
        [] ~AtEof(g, a) /\ r.ok -> FileRest(g, r)
        [] OTHER             -> FileRest(g, IF m THEN kept ELSE Push(kept, Error))

DoStep(g, x, s) ==
  LET h == Height(s) IN
  CASE x.do = "mark"    -> Expect(g, s, Mark(x.of))
    [] x.do = "kw"      -> Expect(g, s, Kw(x.of))
    [] x.do = "any"     -> Bump(g, s)
    [] x.do = "id"      -> Ident(g, s)
    [] x.do = "nl"      -> SkipNewlines(g, s)
    [] x.do = "end"     -> Terminator(g, s)
    [] x.do = "expr"    -> AnyExpr(g, s)
    [] x.do = "binary"  -> Binary(g, x.of, s)
    [] x.do = "primary" -> Primary(g, s)
    [] x.do = "stmt"    -> Stmt(g, x.of, s)
    [] x.do = "if"      -> IfStmt(g, x.of, s)
    [] x.do = "ifthamizh" -> IfThamizh(g, x.of, s)
    [] x.do = "fileitem" -> FileItem(g, s)
    [] x.do = "file"    -> FileRest(g, s)
    [] x.do = "match"   -> MatchExpr(g, s)
    [] x.do = "elseexpr" -> ElseExpr(g, s)
    [] x.do = "patterns" -> Reduce(Patterns(g, s), h, "list", "")
    [] x.do = "ty"      -> Ty(g, s)
    [] x.do = "depth"   -> Depth(s)
    [] x.do = "paramty" -> OneOf(g, s, "paramty", {"int", "bool"})
    [] x.do = "unit"    -> Unit(g, s)
    [] x.do = "lvalue"  -> LValue(g, s)
    [] x.do = "tolvalue" -> ExprToLvalue(s)
    [] x.do = "path"    -> Path(g, s)
    [] x.do = "edge"    -> Edge(g, s)
    [] x.do = "source"  -> Source(g, s)
    [] x.do \in {"str", "name"} -> Text(g, s)
    [] x.do = "namefirst" -> NameFirst(s)
    [] x.do = "bindvalue" -> BindValue(g, s)
    [] x.do = "payload" -> IF AtMark(g, s, "(") /\ NextIs(g, s, Mark(")")) THEN Fail(Bump(g, s)) ELSE s
    [] x.do = "nonempty" -> IF Top(s).c = <<>> THEN Fail(s) ELSE s
    [] x.do = "conns"   -> Reduce(IF AtMark(g, s, "{") THEN Conns(g, Bump(g, s)) ELSE s, h, "list", "")
    [] x.do = "constelse" -> ConstElse(g, s)
    [] x.do = "fnparams" -> Reduce(IF AtMark(g, s, ")") THEN s ELSE FnParams(g, s), h, "list", "")
    [] x.do = "fnbody"  -> FnBody(g, s, h)
    [] x.do = "doc"     -> Doc(g, s)
    [] x.do = "externitems" -> Reduce(ExternItems(g, s), h, "block", "")
    [] x.do = "opt"     -> IF AtMark(g, s, x.of) THEN Reduce(Steps(g, x.w, Bump(g, s)), h, "some", "")
                           ELSE Push(s, None)
    [] x.do = "listed"  -> Reduce(IF AtMark(g, s, x.of) THEN List(g, Bump(g, s), x.w, Closing[x.of]) ELSE s,
                                  h, "list", "")
    [] x.do = "many"    -> Reduce(List(g, s, x.w, x.of), h, "list", "")
    [] x.do = "node"    -> Reduce(Steps(g, x.w, s), h, x.of, "")
    [] x.do = "body"    -> LET a == Expect(g, s, Mark("{")) IN IF a.ok THEN Block(g, x.of, a, h) ELSE a

Steps(g, w, s) == IF w = <<>> \/ ~s.ok THEN s ELSE Steps(g, Tail(w), DoStep(g, Head(w), s))

(****************************************************************************)
(* The whole file: parser/mod.rs.                                            *)
(****************************************************************************)
SyntaxDirective(g, s) ==
  LET a == SkipNewlines(g, s)
      b == Bump(g, a)
  IN  CASE ~AtKw(g, a, "syntax")  -> [s |-> a, th |-> FALSE]
        [] AtKw(g, b, "thamizh")  -> [s |-> Terminator(g, Bump(g, b)), th |-> TRUE]
        [] OTHER                  -> [s |-> SyncToNewline(g, Report(b)), th |-> FALSE]

\* Imports are kept apart from the items.
FileNode(c) ==
  LET import(n) == IsNode(n, "import")
      item(n)   == ~IsNode(n, "import")
  IN  N("file", "", <<N("list", "", SelectSeq(c, import)), N("list", "", SelectSeq(c, item))>>)

\* `parse_recover`: the best tree there is, and whether anything was reported.
Outcome(s) == [bad |-> s.bad, n |-> FileNode(s.c)]
ParseFrom(t, r) == Outcome(DoStep([t |-> t, th |-> r.th, d |-> 0], Do("file"), r.s))
ParseRecover(t) ==
  ParseFrom(t, SyntaxDirective([t |-> t, th |-> FALSE, d |-> 0], [i |-> 1, ok |-> TRUE, bad |-> FALSE, c |-> <<>>]))

\* `parse`: any diagnostic discards the tree.
Judged(f) == [ok |-> ~f.bad, n |-> f.n]
Parse(t)  == Judged(ParseRecover(t))
=============================================================================
