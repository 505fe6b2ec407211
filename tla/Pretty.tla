------------------------------- MODULE Pretty --------------------------------
(****************************************************************************)
(* The pretty-printer behind `mimz translate --order`: pretty/*.             *)
(*                                                                           *)
(* From a tree to pieces.  f holds the flavour (`ta`: Tamil script) and the  *)
(* word order (`th`).  Indentation is left out: it is blanks after a line    *)
(* end, where nothing can be glued.                                          *)
(****************************************************************************)
EXTENDS Parser

Sym(m)    == <<Piece("mark", m, FALSE)>>
Name(w)   == <<Piece("word", w, FALSE)>>
Key(f, k) == <<Piece("word", k, f.ta)>>
Quote(v)  == <<Piece("str", v, FALSE)>>
Number(n) == <<Piece(n.k, n.v, FALSE)>>
Spaced(m) == Blank \o Sym(m) \o Blank
Colon     == Sym(":") \o Blank
Comma     == Sym(",") \o Blank
Open      == Blank \o Sym("{") \o LineEnd
Close     == Sym("}") \o LineEnd

\* Texts with `sep` between them, by halves.
RECURSIVE Joined(_, _)
Joined(q, sep) ==
  LET mid == Len(q) \div 2 IN
  CASE q = <<>>   -> <<>>
    [] Len(q) = 1 -> q[1]
    [] OTHER      -> Joined(SubSeq(q, 1, mid), sep) \o sep \o Joined(SubSeq(q, mid + 1, Len(q)), sep)
Flat(q) == Joined(q, <<>>)

NameOf(n)   == Name(n.v)
Dotted(n)   == Joined([i \in 1..Len(n.c) |-> NameOf(n.c[i])], Sym("."))

RECURSIVE PrintExpr(_, _), PrintTy(_, _), Statement(_, _), PrintBody(_, _)

Exprs(f, c)  == Joined([i \in 1..Len(c) |-> PrintExpr(f, c[i])], Comma)
NamedArgs(f, c) ==
  Joined([i \in 1..Len(c) |-> NameOf(c[i].c[1]) \o Colon \o PrintExpr(f, c[i].c[2])], Comma)
Typed(f, n)  == NameOf(n.c[1]) \o Colon \o PrintTy(f, n.c[2])
Called(name, args) == name \o Sym("(") \o args \o Sym(")")
InBraces(t)  == Sym("{") \o Blank \o t \o Blank \o Sym("}")

PrintTy(f, t) ==
  CASE t.k = "bit"     -> Name("bit")
    [] t.k \in {"bits", "signed"} -> Name(t.k) \o Sym("[") \o PrintExpr(f, t.c[1]) \o Sym("]")
    [] t.k = "named"   -> Dotted(t.c[1])
    [] t.k = "bundle"  -> IF t.c[2].c = <<>> THEN Dotted(t.c[1])
                          ELSE Called(Dotted(t.c[1]), NamedArgs(f, t.c[2].c))
    [] t.k = "arrayty" -> PrintTy(f, t.c[1]) \o Sym("[") \o PrintExpr(f, t.c[2]) \o Sym("]")

\* An operand is parenthesized when it is a binary, `if` or `match` expression.
Operand(f, e) ==
  IF e.k \in {"bin", "ifexpr", "match"} THEN Sym("(") \o PrintExpr(f, e) \o Sym(")") ELSE PrintExpr(f, e)

\* A clause head before its condition, or after it in the Tamil order.
Headed(f, k, cond) == IF f.th THEN cond \o Blank \o Key(f, k) ELSE Key(f, k) \o Blank \o cond

PrintPattern(p) ==
  CASE p.k \in {"int", "mask"} -> Number(p)
    [] p.k = "bool"            -> Name(p.v)
    [] p.k = "wild"            -> Name("_")
    [] p.k = "pattern"         ->
         LET variant == NameOf(p.c[1]) \o Sym(".") \o NameOf(p.c[2])
         IN  IF p.c[3].c = <<>> THEN variant
             ELSE Called(variant, Joined([i \in 1..Len(p.c[3].c) |-> NameOf(p.c[3].c[i])], Comma))
PrintArm(f, a) ==
  Joined([i \in 1..Len(a.c[1].c) |-> PrintPattern(a.c[1].c[i])], Comma)
    \o Spaced("=>") \o PrintExpr(f, a.c[2]) \o LineEnd

\* An index or a slice of something already printed.
Index(f, base, c) ==
  base \o Sym("[") \o Joined([i \in 1..(Len(c) - 1) |-> PrintExpr(f, c[i + 1])], Sym(":")) \o Sym("]")

PrintExpr(f, e) ==
  CASE e.k = "int"    -> Number(e)
    [] e.k = "bool"   -> Key(f, e.v)
    [] e.k = "id"     -> NameOf(e)
    [] e.k = "field"  -> Operand(f, e.c[1]) \o Sym(".") \o Name(e.v)
    [] e.k = "unary"  -> Sym(e.v) \o Operand(f, e.c[1])
    [] e.k = "bin"    -> Operand(f, e.c[1]) \o Spaced(e.v) \o Operand(f, e.c[2])
    [] e.k = "ifexpr" ->
         Headed(f, "if", Operand(f, e.c[1])) \o Blank \o InBraces(PrintExpr(f, e.c[2]))
           \o Blank \o Key(f, "else") \o Blank \o InBraces(PrintExpr(f, e.c[3]))
    [] e.k = "match"  ->
         Headed(f, "match", Operand(f, e.c[1])) \o Open
           \o Flat([i \in 1..(Len(e.c) - 1) |-> PrintArm(f, e.c[i + 1])]) \o Sym("}")
    [] e.k = "concat" -> Sym("{") \o Exprs(f, e.c) \o Sym("}")
    [] e.k = "replicate" ->
         Sym("{") \o PrintExpr(f, e.c[1]) \o Sym("{") \o Exprs(f, Tail(e.c)) \o Sym("}") \o Sym("}")
    [] e.k \in {"index", "slice"} -> Index(f, Operand(f, e.c[1]), e.c)
    [] e.k \in {"call", "fncall"} -> Called(Name(e.v), Exprs(f, e.c))
    [] e.k = "synccall" -> Called(Name("sync") \o Sym(".") \o Name(e.v), Exprs(f, e.c))
    [] e.k = "lit"    -> InBraces(NamedArgs(f, e.c))
    [] e.k = "array"  -> Sym("[") \o Exprs(f, e.c) \o Sym("]")
    [] e.k = "construct" ->
         Called(Name(e.v) \o Sym(".") \o NameOf(e.c[1]), Exprs(f, e.c[2].c))

LValueText(f, t) == IF t.k = "id" THEN NameOf(t) ELSE Index(f, NameOf(t.c[1]), t.c)

(****************************************************************************)
(* Statements and items.                                                     *)
(****************************************************************************)
PrintBody(f, c) == Flat([i \in 1..Len(c) |-> Statement(f, c[i])])
Braces(f, body) == Open \o PrintBody(f, body.c) \o Close
ParamText(f, p) ==
  NameOf(p.c[1]) \o Colon \o NameOf(p.c[2])
    \o IF IsNode(p.c[3], "some") THEN Spaced("=") \o PrintExpr(f, p.c[3].c[1]) ELSE <<>>
ParamList(f, ps) ==
  IF ps.c = <<>> THEN <<>>
  ELSE Called(<<>>, Joined([i \in 1..Len(ps.c) |-> ParamText(f, ps.c[i])], Comma))
RangeText(f, lo, hi) == PrintExpr(f, lo) \o Sym("..") \o PrintExpr(f, hi)
ForeachSource(f, src) ==
  IF IsNode(src, "range") THEN RangeText(f, src.c[1], src.c[2]) ELSE NameOf(src)

\* `kw name` and what follows it.
Named(f, k, n)  == Key(f, k) \o Blank \o NameOf(n)
Defined(f, n)   == Key(f, n.k) \o Blank \o Typed(f, n) \o Spaced("=") \o PrintExpr(f, n.c[3])
Checked(f, n)   ==
  Called(Key(f, n.k), PrintExpr(f, n.c[1])
    \o IF IsNode(n.c[2], "some") THEN Comma \o Quote(n.c[2].c[1].v) ELSE <<>>)
ElseText(f, els) ==
  IF IsNode(els, "none") THEN Close
  ELSE Sym("}") \o Blank \o Key(f, "else") \o Open \o PrintBody(f, els.c) \o Close
IfText(f, head, then, els) == head \o Open \o PrintBody(f, then.c) \o ElseText(f, els)

EnumVariantText(f, v) ==
  IF v.c[2].c = <<>> THEN NameOf(v.c[1])
  ELSE Called(NameOf(v.c[1]), Joined([i \in 1..Len(v.c[2].c) |-> Typed(f, v.c[2].c[i])], Comma))
EnumText(f, n) ==
  Named(f, "enum", n.c[1]) \o Blank
    \o InBraces(Joined([i \in 1..Len(n.c[2].c) |-> EnumVariantText(f, n.c[2].c[i])], Comma))

OnText(f, n) ==
  LET edge == Called(Key(f, n.c[1].v), NameOf(n.c[2]))
  IN  Headed(f, "on", edge) \o Braces(f, n.c[3])

InstText(f, n) ==
  Named(f, "let", n.c[1])
    \o (IF IsNode(n.c[2], "some") THEN Sym("[") \o PrintExpr(f, n.c[2].c[1]) \o Sym("]") ELSE <<>>)
    \o Spaced("=") \o Called(Dotted(n.c[3]), NamedArgs(f, n.c[4].c)) \o Blank
    \o IF n.c[5].c = <<>> THEN Sym("{") \o Sym("}") ELSE InBraces(NamedArgs(f, n.c[5].c))

SyncText(f, n) ==
  Key(f, "sync") \o Blank \o Named(f, "loop", n.c[1]) \o Blank \o Key(f, "on") \o Blank
    \o Called(Key(f, n.c[2].v), NameOf(n.c[3])) \o Blank
    \o Called(<<>>, NameOf(n.c[4]) \o Colon \o RangeText(f, n.c[5], n.c[6])) \o Spaced("->")
    \o NameOf(n.c[7]) \o Colon \o PrintTy(f, n.c[8]) \o Spaced("=") \o PrintExpr(f, n.c[9])
    \o Braces(f, n.c[10])

ModuleItemText(f, n) ==
  CASE n.k \in {"in", "out"}    -> Key(f, n.k) \o Blank \o Typed(f, n) \o LineEnd
    [] n.k \in {"clock", "reset"} -> Named(f, n.k, n.c[1]) \o LineEnd
    [] n.k = "async"            -> Key(f, "async") \o Blank \o Named(f, "reset", n.c[1]) \o LineEnd
    [] n.k \in {"wire", "reg"}  -> Defined(f, n) \o LineEnd
    [] n.k = "mem"              ->
         Key(f, "mem") \o Blank \o Typed(f, n) \o Sym("[") \o PrintExpr(f, n.c[3]) \o Sym("]")
           \o Spaced("=") \o PrintExpr(f, n.c[4]) \o LineEnd
    [] n.k = "inst"             -> InstText(f, n) \o LineEnd
    [] n.k = "on"               -> OnText(f, n)
    [] n.k = "drive"            -> LValueText(f, n.c[1]) \o Spaced("=") \o PrintExpr(f, n.c[2]) \o LineEnd
    [] n.k = "repeat"           ->
         Named(f, "repeat", n.c[1]) \o Colon \o RangeText(f, n.c[2], n.c[3]) \o Braces(f, n.c[4])
    [] n.k = "sync"             -> SyncText(f, n)
    [] n.k = "constif"          ->
         IfText(f, Key(f, "const") \o Blank \o Key(f, "if") \o Blank \o Called(<<>>, PrintExpr(f, n.c[1])),
                n.c[2], n.c[3])
    [] n.k = "destructure"      ->
         Key(f, "let") \o Blank \o InBraces(Joined([i \in 1..Len(n.c[1].c) |-> NameOf(n.c[1].c[i])], Comma))
           \o Spaced("=") \o PrintExpr(f, n.c[2]) \o LineEnd

\* In test bodies `if` keeps the code order.
SeqText(f, n) ==
  CASE n.k = "assign"  -> LValueText(f, n.c[1]) \o Spaced("<-") \o PrintExpr(f, n.c[2]) \o LineEnd
    [] n.k = "if"      -> IfText(f, Headed(f, "if", Operand(f, n.c[1])), n.c[2], n.c[3])
    [] n.k = "default" -> Named(f, "default", n.c[1]) \o Spaced("<-") \o PrintExpr(f, n.c[2]) \o LineEnd
    [] n.k = "loop"    ->
         Named(f, "loop", n.c[1]) \o Colon \o RangeText(f, n.c[2], n.c[3]) \o Braces(f, n.c[4])
    [] n.k = "foreach" ->
         Named(f, "foreach", n.c[1]) \o Blank \o Key(f, "in") \o Blank \o ForeachSource(f, n.c[2])
           \o Braces(f, n.c[3])
FnText(f, n) ==
  CASE n.k = "let"    -> Named(f, "let", n.c[1]) \o Spaced("=") \o PrintExpr(f, n.c[2]) \o LineEnd
    [] n.k = "return" -> Key(f, "return") \o Blank \o PrintExpr(f, n.c[1]) \o LineEnd

Unit1(n) == CHOOSE u \in DOMAIN SpeedUnits : SpeedUnits[u] = n
SpeedText(f, e) == Called(Name(Unit1(e.c[2].v)), PrintExpr(f, e.c[1]))
BindText(f, b) ==
  Named(f, "bind", b.c[1]) \o Spaced("->")
    \o Called(NameOf(b.c[2]), Joined([i \in 1..Len(b.c[3].c) |->
         LET a == b.c[3].c[i] IN NameOf(a.c[1]) \o Colon
           \o (CASE a.c[2].k = "id"  -> NameOf(a.c[2])
                 [] a.c[2].k = "str" -> Quote(a.c[2].v)
                 [] OTHER            -> Number(a.c[2]))], Comma)) \o LineEnd
SimText(f, n) ==
  LET speed == n.c[Len(n.c)] IN
  Key(f, "sim") \o Open
    \o (IF IsNode(speed, "none") THEN <<>> ELSE Key(f, "speed") \o Blank \o SpeedText(f, speed) \o LineEnd)
    \o Flat([i \in 1..(Len(n.c) - 1) |-> BindText(f, n.c[i])]) \o Close
TestText(f, n) ==
  CASE n.k = "tick"   ->
         Called(Key(f, "tick"), NameOf(n.c[1])
           \o IF IsNode(n.c[2], "some") THEN Comma \o PrintExpr(f, n.c[2].c[1]) ELSE <<>>) \o LineEnd
    [] n.k = "expect" -> Key(f, "expect") \o Blank \o PrintExpr(f, n.c[1]) \o LineEnd
    [] n.k = "input"  -> NameOf(n.c[1]) \o Spaced("=") \o PrintExpr(f, n.c[2]) \o LineEnd
    [] n.k = "testif" -> IfText(f, Key(f, "if") \o Blank \o Operand(f, n.c[1]), n.c[2], n.c[3])
    [] n.k = "sim"    -> SimText(f, n)

FnDecl(f, n) ==
  Called(Named(f, "fn", n.c[1]), Joined([i \in 1..Len(n.c[2].c) |-> Typed(f, n.c[2].c[i])], Comma))
    \o Spaced("->") \o PrintTy(f, n.c[3]) \o Open \o PrintBody(f, n.c[4].c)
    \o PrintExpr(f, n.c[5]) \o LineEnd \o Close

TestDecl(f, n) ==
  LET args   == IF n.c[3].c = <<>> THEN <<>> ELSE Called(<<>>, NamedArgs(f, n.c[3].c))
      module == Dotted(n.c[2]) \o args
      for    == Blank \o Key(f, "for") \o Blank
  IN  (IF f.th THEN module \o for \o Quote(n.c[1].v) \o Blank \o Key(f, "test")
       ELSE Key(f, "test") \o Blank \o Quote(n.c[1].v) \o for \o module)
        \o Braces(f, n.c[4])

ExternText(f, n) ==
  Key(f, "extern") \o Blank \o Named(f, "module", n.c[1])
    \o (IF IsNode(n.c[2], "some") THEN Spaced("=") \o Quote(n.c[2].c[1].v) ELSE <<>>)
    \o ParamList(f, n.c[3]) \o Open
    \o (IF IsNode(n.c[4], "some") THEN Name("doc") \o Colon \o Quote(n.c[4].c[1].v) \o LineEnd ELSE <<>>)
    \o PrintBody(f, n.c[5].c) \o Close

TopItem(f, n) ==
  CASE n.k \in {"module", "bundle"} ->
         Named(f, n.k, n.c[1]) \o ParamList(f, n.c[2]) \o Braces(f, n.c[3])
    [] n.k = "fn"     -> FnDecl(f, n)
    [] n.k = "test"   -> TestDecl(f, n)
    [] n.k = "extern" -> ExternText(f, n)

\* Constants, enums, checks and fields look the same wherever they stand.
Statement(f, n) ==
  CASE n.k = "error" -> <<>>
    [] n.k = "const" ->
         Named(f, "const", n.c[1]) \o Colon \o NameOf(n.c[2]) \o Spaced("=") \o PrintExpr(f, n.c[3]) \o LineEnd
    [] n.k = "enum"                -> EnumText(f, n) \o LineEnd
    [] n.k \in {"assert", "cover"} -> Checked(f, n) \o LineEnd
    [] n.k = "fielddecl"           -> Typed(f, n) \o LineEnd
    [] n.k \in {"assign", "if", "default", "loop", "foreach"} -> SeqText(f, n)
    [] n.k \in {"let", "return"}   -> FnText(f, n)
    [] n.k \in {"tick", "expect", "input", "testif", "sim"} -> TestText(f, n)
    [] n.k \in {"module", "bundle", "fn", "test", "extern"} -> TopItem(f, n)
    [] OTHER                       -> ModuleItemText(f, n)

PrettyPrint(f, file) ==
  LET imports == file.c[1].c
      items   == file.c[2].c
  IN  (IF f.th THEN Key(f, "syntax") \o Blank \o Key(f, "thamizh") \o LineEnd ELSE <<>>)
        \o Flat([i \in 1..Len(imports) |-> Key(f, "import") \o Blank \o Dotted(imports[i].c[1]) \o LineEnd])
        \o Flat([i \in 1..Len(items) |-> LineEnd \o Statement(f, items[i])])
=============================================================================
