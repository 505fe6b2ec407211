--------------------------- MODULE MCTranslation ------------------------------
(****************************************************************************)
(* Instances of Translation: texts written as sequences of words.            *)
(****************************************************************************)
EXTENDS Translation

Tamil == {"Tmin", "Tif", "Tx", "Ty"}
MCRoman == [n \in Tamil |-> CASE n = "Tmin" -> "min" [] n = "Tif" -> "if" [] OTHER -> "x"]

Digits == {"0", "1", "2", "3", "8"}
PieceOf(w) ==
  CASE w = "NL"        -> Piece("nl", "", FALSE)
    [] w = "_"         -> Piece("blank", "", FALSE)
    [] w \in Digits    -> Piece("int", w, FALSE)
    [] w = "0b1?"      -> Piece("mask", w, FALSE)
    [] w = "'s'"       -> Piece("str", "s", FALSE)
    [] w \in Marks     -> Piece("mark", w, FALSE)
    [] w = "wildcard"  -> Piece("word", "_", FALSE)
    [] w = "Tmodule"   -> Piece("word", "module", TRUE)
    [] w = "Tand"      -> Piece("word", "and", TRUE)
    [] OTHER           -> Piece("word", w, w \in Tamil)

\* The words with blanks between them, and exactly as written.
Spelled(words) ==
  LET n == Len(words) IN
  [i \in 1..(2 * n) |-> IF i % 2 = 0 THEN Blank[1] ELSE PieceOf(words[(i + 1) \div 2])]
Exactly(words) == [i \in 1..Len(words) |-> PieceOf(words[i])]

(****************************************************************************)
(* Expressions, with parentheses round every operand that is not an atom.    *)
(****************************************************************************)
Shapes == {"+", "-", "==", "<", "&&", "&", "??", "*%"}
            \union {"neg", "and", "not", "if", "match", "concat", "repl", "bit", "bits", "dot",
                    "max", "fn", "array", "lit", "variant", "pulse"}
Build(c, x, y) ==
  CASE c \in Marks     -> <<"(">> \o x \o <<c>> \o y \o <<")">>
    [] c = "neg"       -> <<"(", "-">> \o x \o <<")">>
    [] c = "and"       -> <<"(", "&">> \o x \o <<")">>
    [] c = "not"       -> <<"(", "not">> \o x \o <<")">>
    [] c = "if"        -> <<"(", "if">> \o x \o <<"{">> \o y \o <<"}", "else", "{">> \o x \o <<"}", ")">>
    [] c = "match"     -> <<"(", "match">> \o x \o <<"{", "NL", "0b1?", "=>">> \o y
                            \o <<"NL", "1", ",", "2", "=>">> \o x \o <<"NL", "}", ")">>
    [] c = "concat"    -> <<"{">> \o x \o <<",">> \o y \o <<"}">>
    [] c = "repl"      -> <<"{">> \o x \o <<"{">> \o y \o <<"}", "}">>
    [] c = "bit"       -> x \o <<"[">> \o y \o <<"]">>
    [] c = "bits"      -> x \o <<"[">> \o y \o <<":", "0", "]">>
    [] c = "dot"       -> x \o <<".", "f">>
    [] c = "max"       -> <<"max", "(">> \o x \o <<",">> \o y \o <<")">>
    [] c = "fn"        -> <<"g", "(">> \o x \o <<")">>
    [] c = "array"     -> <<"[">> \o x \o <<",">> \o y \o <<"]">>
    [] c = "lit"       -> <<"{", "p", ":">> \o x \o <<"}">>
    [] c = "variant"   -> <<"E", ".", "V", "(">> \o x \o <<")">>
    [] c = "pulse"     -> <<"sync", ".", "pulse", "(">> \o x \o <<",", "c", ",", "d", ")">>
Flat1 == {Build(c, <<"a">>, <<"b">>) : c \in Shapes} \union {<<"1">>, <<"true">>, <<"a">>}
Flat2 == {Build(c, x, <<"b">>) : c \in Shapes, x \in Flat1} \union {Build(c, <<"a">>, x) : c \in Shapes, x \in Flat1}

\* Operators side by side without parentheses.
Beside == {<<"a", o, "b", q, "a">> : o, q \in {"+", "*", "<<", "&", "^", "|", "==", "<=", "<", ">", "&&", "||", "??", "and"}}
            \union {<<"-", "a", "[", "1", "]">>, <<"-", "-", "a">>, <<"a", "<", "b", "<=", "a", "<", "1">>,
                    <<"not", "a", "and", "b">>, <<"&", "a", "&", "&", "b">>}

InModule(items) == <<"module", "M", "{", "NL">> \o items \o <<"}", "NL">>
Wire(e)         == InModule(<<"wire", "w", ":", "bit", "=">> \o e \o <<"NL">>)
On(stmts)       == InModule(<<"on", "rise", "(", "c", ")", "{", "NL">> \o stmts \o <<"}", "NL">>)
Fn(body)        == <<"fn", "f", "(", "a", ":", "bit", ",", "b", ":", "bits", "[", "2", "]", ")", "->", "bit", "{", "NL">>
                     \o body \o <<"NL", "}", "NL">>
Test(stmts)     == <<"test", "'s'", "for", "M", "(", "W", ":", "3", ")", "{", "NL">> \o stmts \o <<"}", "NL">>

\* Every place an expression may stand.
Places(e) ==
  {InModule(items) : items \in {
     <<"reg", "r", ":", "bits", "[">> \o e \o <<"]", "=">> \o e \o <<"NL">>,
     <<"mem", "m", ":", "signed", "[", "8", "]", "[">> \o e \o <<"]", "=", "0", "NL">>,
     <<"w", "[">> \o e \o <<"]", "=">> \o e \o <<"NL", "v", "[", "1", ":", "0", "]", "=", "b", "NL">>,
     <<"const", "K", ":", "int", "=">> \o e \o <<"NL", "in", "x", ":", "B", "NL", "out", "y", ":", "E", "NL">>,
     <<"let", "u", "[">> \o e \o <<"]", "=", "A", ".", "B", "(", "W", ":">> \o e \o <<")", "{", "a", ":">> \o e \o <<"}", "NL">>,
     <<"let", "{", "p", ",", "q", "}", "=">> \o e \o <<"NL", "let", "u", "=", "A", "(", ")", "NL">>,
     <<"repeat", "i", ":", "0", "..">> \o e \o <<"{", "NL", "w", "[", "i", "]", "=", "1", "NL", "}", "NL">>,
     <<"const", "if", "(">> \o e \o <<")", "{", "NL", "w", "=", "1", "NL", "}", "else", "{", "NL", "}", "NL">>,
     <<"enum", "E", "{", "A", "(", "x", ":", "bits", "[">> \o e \o <<"]", ")", ",", "B", "}", "NL">>,
     <<"cover", "(">> \o e \o <<",", "'s'", ")", "NL", "clock", "c", "NL", "async", "reset", "r", "NL">>,
     <<"sync", "loop", "s", "on", "rise", "(", "c", ")", "(", "i", ":", "0", "..">> \o e
       \o <<")", "->", "d", ":", "bit", "=">> \o e \o <<"{", "NL", "d", "<-">> \o e \o <<"NL", "}", "NL">>}}
  \union {On(stmts) : stmts \in {
     <<"r", "[">> \o e \o <<"]", "<-">> \o e \o <<"NL">>,
     <<"if">> \o e \o <<"{", "NL", "r", "<-", "1", "NL", "}", "else", "if">> \o e
       \o <<"{", "NL", "assert", "(">> \o e \o <<")", "NL", "}", "NL">>,
     <<"loop", "i", ":", "0", "..">> \o e \o <<"{", "NL", "default", "r", "<-">> \o e \o <<"NL", "}", "NL">>,
     <<"foreach", "x", "in", "m", "{", "NL", "r", "<-">> \o e \o <<"NL", "}", "NL">>}}
  \union {Fn(<<"let", "c", "=">> \o e \o <<"NL">> \o e),
          Fn(<<"if">> \o e \o <<"{", "NL", "return">> \o e \o <<"NL", "}", "NL", "a">>),
          Fn(<<"loop", "i", ":", "0", "..">> \o e \o <<"{", "NL", "let", "d", "=", "i", "NL", "}", "NL">> \o e)}
  \union {Test(<<"a", "=">> \o e \o <<"NL", "tick", "(", "c", ",">> \o e \o <<")", "NL", "if">> \o e
               \o <<"{", "NL", "expect">> \o e \o <<"NL", "}", "NL">>),
          Test(<<"sim", "{", "NL", "speed", "khz", "(">> \o e \o <<")", "NL", "bind", "a", "->", "uart",
                 "(", "baud", ":", "8", ",", "to", ":", "'s'", ")", "NL", "}", "NL">>),
          <<"module", "M", "(", "W", ":", "int", "=">> \o e \o <<")", "{", "NL", "}", "NL">>,
          <<"import", "A", ".", "B", "NL", "bundle", "B", "(", "N", ":", "int", ")", "{", "NL", "x", ":", "bits", "[">> \o e
            \o <<"]", "?", ",", "y", ":", "C", "(", "N", ":">> \o e \o <<")", "[", "2", "]", "NL", "}", "NL">>,
          <<"extern", "module", "X", "=", "'s'", "(", "W", ":", "int", ")", "{", "NL", "doc", ":", "'s'", "NL",
            "in", "a", ":", "bits", "[">> \o e \o <<"]", "NL", "}", "NL">>}
Thamizh == <<"syntax", "thamizh", "NL", "M", "for", "'s'", "test", "{", "NL", "a", "=", "b", "if", "{", "1", "}", "else", "{", "a",
             "}", "NL", "}", "NL", "module", "M", "{", "NL", "rise", "(", "c", ")", "on", "{", "NL", "a", "==", "1", "if", "{", "NL",
             "r", "<-", "a", "match", "{", "NL", "1", "=>", "2", "NL", "}", "NL", "}", "else", "b", "if", "{", "NL", "}", "NL", "}", "NL", "}", "NL">>

OneCommand == {Wire(e) : e \in Flat1 \union Flat2 \union Beside}
                \union UNION {Places(e) : e \in Flat1 \union {<<"a", "+", "b", "*", "1">>}} \union {Thamizh}

Program(a, b, n) == [text |-> [f \in Inputs |-> IF f = "a" THEN a ELSE b], commands |-> n, edits |-> 0]

\* Names in Tamil script: one that reads as a keyword, two that romanize alike.
Names == Exactly(<<"Tmodule", "_", "M", "{", "NL", "wire", "_", "Tx", ":", "bit", "=", "Tif", "&", "Ty", "NL",
                   "reg", "_", "x_2", ":", "bit", "=", "1", "Tand", "_", "Tx", "NL", "}", "NL">>)
Calls == Spelled(Wire(<<"g", "(", "Tmin", ",", "Tx", ")">>))
Commanded ==
  {Program(Spelled(t), Empty, 1) : t \in OneCommand}
    \union {Program(Names, Spelled(Wire(<<"x", "+", "if_2">>)), 3), Program(Calls, Names, 2)}

\* Texts as the printer lays them out, for the edits.
Printed(words) == PrettyPrint(Code, Tree(Spelled(words)).n)
Edited ==
  {[Program(Printed(t), Empty, 0) EXCEPT !.edits = 1] :
     t \in {Thamizh} \union UNION {Places(e) : e \in {<<"a", "[", "1", "]">>, <<"g", "(", "a", ",", "b", ")">>}}}
MCPrograms == Commanded \union Edited
SignedBit == {Program(Spelled(Wire(<<"(", "-", "a", ")", "[", "1", "]">>)), Empty, 0)}
=============================================================================
