------------------------------- MODULE Lexer ---------------------------------
(****************************************************************************)
(* The lexer: lexer/mod.rs, lexer/token.rs and the keyword table.            *)
(*                                                                           *)
(* A source text is a sequence of pieces: a word, a number, a string, one    *)
(* mark of punctuation, a run of blanks or a line end.  Two pieces with no   *)
(* blank between them are neighbouring characters, which is all the lexer's  *)
(* longest-match rules look at.  `ta` says that a word is written in Tamil   *)
(* script; a word's flavour is otherwise abstracted, since every spelling of *)
(* a keyword gives the same token.                                           *)
(****************************************************************************)
EXTENDS Integers, Sequences, FiniteSets

CONSTANT Reserved    \* words set aside by the keyword table

Piece(k, v, ta) == [k |-> k, v |-> v, ta |-> ta]
Blank           == <<Piece("blank", "", FALSE)>>
LineEnd         == <<Piece("nl", "", FALSE)>>

Keywords == {"module", "in", "out", "wire", "reg", "mem", "clock", "reset", "async", "on",
  "rise", "fall", "if", "else", "match", "enum", "let", "const", "repeat", "import", "true",
  "false", "test", "for", "tick", "expect", "and", "or", "not", "syntax", "thamizh", "fn",
  "default", "bundle", "return", "loop", "sync", "sim", "bind", "speed", "foreach", "extern",
  "assert", "cover"}

TwoMarks == {"+%", "-%", "->", "*%", "<<", "<=", "<-", ">>", ">=", "==", "=>", "!=", "&&",
  "||", "??", ".."}
OneMark  == {"+", "-", "*", "<", ">", "=", "!", "&", "|", "^", "~", "?", ":", ",", ".",
  "(", ")", "[", "]", "{", "}"}
Marks    == OneMark \union TwoMarks

Token(k, v) == [k |-> k, v |-> v]
Mark(v)     == Token("mark", v)
Kw(v)       == Token("kw", v)
Newline     == Token("nl", "")
Eof         == Token("eof", "")

\* A newline after one of these, after another newline or at the start of the
\* file does not end a statement.
Continuing ==
  {Mark(m) : m \in Marks \ {"->", "?", "??", ")", "]", "}"}}
    \union {Kw("and"), Kw("or"), Kw("not"), Newline}

LexStart == [t |-> <<>>, near |-> FALSE, ok |-> TRUE]

Add(s, tok)   == [s EXCEPT !.t = Append(@, tok), !.near = TRUE]
LexError(s)   == [s EXCEPT !.ok = FALSE, !.near = TRUE]
LastTok(s)    == s.t[Len(s.t)]
Glued(s)      == s.near /\ s.t # <<>>
Extend(s, tok) == [s EXCEPT !.t = Append(SubSeq(@, 1, Len(@) - 1), tok), !.near = TRUE]

Word(s, w) ==
  CASE w \in Keywords -> Add(s, Kw(w))
    [] w \in Reserved -> LexError(s)
    [] OTHER          -> Add(s, Token("id", w))

LexWord(s, p) ==
  IF Glued(s) /\ LastTok(s).k \in {"int", "mask"} /\ ~p.ta THEN LexError(s)
  ELSE IF Glued(s) /\ LastTok(s).k \in {"id", "kw"}
       THEN Word([s EXCEPT !.t = SubSeq(@, 1, Len(@) - 1)], LastTok(s).v \o p.v)
       ELSE Word(s, p.v)

LexNumber(s, p) ==
  IF Glued(s) /\ LastTok(s).k \in {"id", "kw"} THEN Extend(s, Token("id", LastTok(s).v \o p.v))
  ELSE Add(s, Token(p.k, p.v))

Punct(s, p) ==
  IF Glued(s) /\ LastTok(s).k = "mark" /\ (LastTok(s).v \o p.v) \in TwoMarks
  THEN Extend(s, Mark(LastTok(s).v \o p.v))
  ELSE IF p.v \in Marks THEN Add(s, Mark(p.v)) ELSE LexError(s)

LexNewline(s) ==
  [s EXCEPT !.t = IF @ = <<>> \/ LastTok(s) \in Continuing THEN @ ELSE Append(@, Newline),
            !.near = FALSE]

LexPiece(s, p) ==
  CASE p.k = "blank"           -> [s EXCEPT !.near = FALSE]
    [] p.k = "nl"              -> LexNewline(s)
    [] p.k = "word"            -> LexWord(s, p)
    [] p.k \in {"int", "mask"} -> LexNumber(s, p)
    [] p.k = "mark"            -> Punct(s, p)
    [] p.k = "str"             -> Add(s, Token("str", p.v))

\* The pieces from lo to hi, by halves; after an error nothing is kept.
RECURSIVE LexPieces(_, _, _, _)
LexPieces(s, text, lo, hi) ==
  LET mid == (lo + hi) \div 2 IN
  CASE ~s.ok \/ lo > hi -> s
    [] lo = hi -> LexPiece(s, text[lo])
    [] OTHER   -> LexPieces(LexPieces(s, text, lo, mid), text, mid + 1, hi)

Lex(text) ==
  LET end == LexPieces(LexStart, text, 1, Len(text))
  IN  [ok |-> end.ok, t |-> Append(end.t, Eof)]
=============================================================================
