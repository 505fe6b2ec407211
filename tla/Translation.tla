----------------------------- MODULE Translation ------------------------------
(****************************************************************************)
(* `mimz translate`: translate.rs, commands/translate.rs and, through        *)
(* Pretty, pretty/*.                                                         *)
(*                                                                           *)
(* Commands read a file, write a file with `-o`, and with --romanize-names   *)
(* leave a name map beside the output; a later command on that output finds  *)
(* the map again.  `meant`, `alias` and `claimed` are history: the tree of   *)
(* the program a file was translated from, what became of its names, and     *)
(* whether no step on the way was one of the translations known to go wrong. *)
(*                                                                           *)
(* `damage` is the language server's side of the parser: an edit loses one   *)
(* piece of a file, and `parse_recover` still has to answer for the rest.    *)
(****************************************************************************)
EXTENDS Pretty

CONSTANTS Inputs, Outputs,  \* the files of the program, and those written
          Programs,         \* the texts of Inputs, and bounds on commands and edits
          Roman             \* the romanization of each Tamil name

Files == Inputs \union Outputs
ASSUME FilesAssumption == Inputs \intersect Outputs = {}

VARIABLES text, side, left, damage, meant, alias, claimed
vars == <<text, side, left, damage, meant, alias, claimed>>

Code == [ta |-> FALSE, th |-> FALSE]
Tree(t) == Parse(Lex(t).t)
Empty == <<>>

(****************************************************************************)
(* The keyword reskin.                                                       *)
(****************************************************************************)
\* A word byte is what the lexer would take into a number or an ASCII word.
WordEdge(p) ==
  \/ p.k \in {"int", "mask"}
  \/ p.k = "word" /\ ~p.ta
  \/ p.k = "mark" /\ p.v \in {"?", "??"}
\* Fault: nothing is kept apart.
NoGuard(near, p) == <<>>
Guard(near, p) == IF WordEdge(near) /\ WordEdge(p) THEN Blank ELSE <<>>

\* Keywords take the target's script, a name in `sub` is replaced, and each
\* such word is kept apart from what was written before it and what comes next.
Reskinned(t, ta, sub) ==
  LET Swap(p)    == CASE p.k # "word"       -> p
                      [] p.v \in Keywords   -> [p EXCEPT !.ta = ta]
                      [] p.v \in DOMAIN sub -> sub[p.v]
                      [] OTHER              -> p
      Emitted(i) == i \in 1..Len(t) /\ t[i].k = "word" /\ t[i].v \in Keywords \union DOMAIN sub
      After(i)   == IF Emitted(i) /\ i < Len(t) THEN Guard(t[i + 1], Swap(t[i])) ELSE <<>>
      Before(i)  == IF Emitted(i) /\ i > 1 /\ After(i - 1) = <<>>
                    THEN Guard(Swap(t[i - 1]), Swap(t[i])) ELSE <<>>
  IN  Flat([i \in 1..Len(t) |-> Before(i) \o <<Swap(t[i])>> \o After(i)])

\* Tamil names in the order they are first seen, each with the first of
\* base, base_2, base_3, ... that nothing else in the file is called.
WordsOf(t, ta) == {t[i].v : i \in {j \in 1..Len(t) : t[j].k = "word" /\ t[j].ta = ta}}
Taken(used, w) == w \in used \union Keywords \union Reserved
Candidate(used, base) ==
  LET Nth(k) == IF k = 1 THEN base ELSE base \o "_" \o ToString(k)
      free == {k \in 1..(Cardinality(used) + 2) : ~Taken(used, Nth(k))}
  IN  Nth(CHOOSE k \in free : \A j \in free : k <= j)
RenameMap(t) ==
  LET names    == WordsOf(t, TRUE) \ Keywords
      First(n) == CHOOSE i \in 1..Len(t) : t[i].v = n /\ \A j \in 1..(i - 1) : t[j].v # n
      rest(m)  == names \ DOMAIN m
      upto[k \in 0..Cardinality(names)] ==
        IF k = 0 THEN Empty
        ELSE LET m == upto[k - 1]
                 n == CHOOSE x \in rest(m) : \A y \in rest(m) : First(x) <= First(y)
             IN  m @@ (n :> Candidate(WordsOf(t, FALSE) \union {m[x] : x \in DOMAIN m}, Roman[n]))
  IN  upto[Cardinality(names)]

NamePieces(m, ta) == [n \in DOMAIN m |-> Piece("word", m[n], ta)]
Swapped(m) == [w \in {m[n] : n \in DOMAIN m} |-> CHOOSE n \in DOMAIN m : m[n] = w]

(****************************************************************************)
(* What a translation is known not to keep.                                  *)
(****************************************************************************)
RECURSIVE Nesting(_), PrintsItself(_), Rename(_, _)
Nesting(n) ==
  LET below == {Nesting(n.c[i]) : i \in 1..Len(n.c)} \union {0}
  IN  1 + CHOOSE d \in below : \A e \in below : e <= d

\* The printer sets no parentheses round a unary operand, an `if` that ends a
\* function reads as a statement, and a bundle without arguments loses its `()`.
PrintsItself(n) ==
  /\ (n.k \in {"index", "slice", "field"} => ~IsNode(n.c[1], "unary"))
  /\ (n.k = "unary" /\ n.v \in {"&", "|"} => n.c[1].k # "unary" \/ n.c[1].v # n.v)
  /\ (n.k = "fn" => ~IsNode(n.c[5], "ifexpr"))
  /\ (n.k = "bundle" /\ Len(n.c) = 2 => n.c[2].c # <<>>)
  /\ \A i \in 1..Len(n.c) : PrintsItself(n.c[i])

\* Parentheses the printer adds count towards the parser's nesting.
Shallow(n) == 2 * Nesting(n) <= MaxDepth

\* Identifiers that mean something to the parser.
Special == DOMAIN Builtins \union SyncCalls \union DOMAIN SpeedUnits \union {"bit", "bits", "signed", "int", "bool", "doc"}

Rename(n, m) ==
  N(n.k, IF n.v \in DOMAIN m THEN m[n.v] ELSE n.v, [i \in 1..Len(n.c) |-> Rename(n.c[i], m)])

(****************************************************************************)
(* The commands.                                                             *)
(****************************************************************************)
Init ==
  /\ \E p \in Programs :
       /\ text = [f \in Files |-> IF f \in Inputs THEN p.text[f] ELSE Empty]
       /\ left = [commands |-> p.commands, edits |-> p.edits]
  /\ side = [f \in Files |-> Empty]
  /\ damage = Empty
  /\ LET trees == [f \in Files |-> Tree(text[f])]
     IN  /\ meant = [f \in Files |-> trees[f].n]
         /\ claimed = [f \in Files |-> trees[f].ok]
  /\ alias = [f \in Files |-> Empty]

Ready(from) == left.commands > 0 /\ text[from] # Empty /\ Lex(text[from]).ok

Written(to, t, tree, names, good) ==
  /\ left' = [left EXCEPT !.commands = @ - 1]
  /\ text' = [text EXCEPT ![to] = t]
  /\ meant' = [meant EXCEPT ![to] = tree]
  /\ alias' = [alias EXCEPT ![to] = names]
  /\ claimed' = [claimed EXCEPT ![to] = good]
  /\ UNCHANGED damage

\* `--order`: through the tree p.
Order(from, to, f, p) ==
  /\ Ready(from) /\ p.ok
  /\ Written(to, PrettyPrint(f, p.n), meant[from], alias[from],
             claimed[from] /\ PrintsItself(p.n) /\ Shallow(p.n))
  /\ UNCHANGED side

\* Keywords only, no name map beside the input or --no-names-map.
Reskin(from, to, ta) ==
  /\ Ready(from)
  /\ Written(to, Reskinned(text[from], ta, Empty), meant[from], alias[from], claimed[from])
  /\ UNCHANGED side

\* Names come back through the map found beside `with`: the input itself, or
\* another file named with --names-map.  A map of another text restores names
\* that were never romanized.
Restore(from, to, ta, with) ==
  /\ Ready(from) /\ side[with] # Empty
  /\ Written(to, Reskinned(text[from], ta, NamePieces(side[with], TRUE)), meant[from], Empty,
             claimed[from] /\ side[with] = Swapped(alias[from]))
  /\ UNCHANGED side

\* --romanize-names: a map without names is not written, and an older one stays.
Romanize(from, to, ta) ==
  LET m == RenameMap(text[from]) IN
  /\ Ready(from)
  /\ Written(to, Reskinned(text[from], ta, NamePieces(m, FALSE)), meant[from], alias[from] @@ m,
             claimed[from] /\ {m[n] : n \in DOMAIN m} \intersect Special = {})
  /\ side' = IF m = Empty THEN side ELSE [side EXCEPT ![to] = Swapped(m)]

\* The user's edit: the file, its text as it was and the place of the piece lost.
Edit(f, i) ==
  /\ left.edits > 0 /\ text[f][i].k \notin {"blank", "nl"}
  /\ damage' = <<f, text[f], i>>
  /\ text' = [text EXCEPT ![f] = SubSeq(@, 1, i - 1) \o SubSeq(@, i + 1, Len(@))]
  /\ claimed' = [claimed EXCEPT ![f] = FALSE]
  /\ left' = [left EXCEPT !.edits = @ - 1]
  /\ UNCHANGED <<side, meant, alias>>

Next ==
  \/ \E from \in Files : LET p == Tree(text[from]) IN
       \E to \in Outputs, ta, th \in BOOLEAN : Order(from, to, [ta |-> ta, th |-> th], p)
  \/ \E from \in Files, to \in Outputs, ta \in BOOLEAN :
       Reskin(from, to, ta) \/ Romanize(from, to, ta) \/ \E with \in Files : Restore(from, to, ta, with)
  \/ \E f \in Inputs : \E i \in 1..Len(text[f]) : Edit(f, i)

Spec == Init /\ [][Next]_vars

(****************************************************************************)
(* Properties.                                                               *)
(****************************************************************************)
\* However a file was reached by translations, none of them one of the known
\* exceptions, it parses, and to the tree of the program it started as, names
\* aside: no parenthesis, separator or name was lost or invented on the way.
KeepsMeaning ==
  \A f \in Files : claimed[f] => Tree(text[f]) = [ok |-> TRUE, n |-> Rename(meant[f], alias[f])]

\* Every printed text parses to the tree it was printed from.
Reparses ==
  \A f \in Files : LET p == Tree(text[f]) IN
    p.ok => \A ta, th \in BOOLEAN : Tree(PrettyPrint([ta |-> ta, th |-> th], p.n)) = p

\* The lines of a text, empty ones left out.
Lines(t) ==
  LET ends == {i \in 1..Len(t) : t[i].k = "nl"} \union {0, Len(t) + 1}
      starts == {i \in ends : i <= Len(t) /\ i + 1 \notin ends}
      From(i) == SubSeq(t, i + 1, (CHOOSE j \in ends : j > i /\ \A k \in ends : k > i => j <= k) - 1)
      pick[n \in 0..Cardinality(starts)] ==
        IF n = 0 THEN <<>>
        ELSE Append(pick[n - 1], From(CHOOSE i \in starts : Cardinality({j \in starts : j < i}) = n - 1))
  IN  pick[Cardinality(starts)]

Has(l, words) == \E i \in 1..Len(l) : l[i].k \in {"mark", "word"} /\ l[i].v \in words

\* A line that is still one statement's: it opens no bracket it does not close
\* and nothing at its end carries it on.
Closed(l) ==
  LET Count(m) == Cardinality({i \in 1..Len(l) : l[i].k = "mark" /\ l[i].v = m})
      t == Lex(l).t
  IN  /\ Count("(") = Count(")") /\ Count("[") = Count("]")
      /\ Len(t) > 1 /\ t[Len(t) - 1] \notin Continuing

\* The item of a printed file its n-th line belongs to; `heights` holds how
\* many lines each item has.
Owner(file, n, heights) ==
  LET items == file.c[2].c
      upto[i \in 0..Len(items)] == IF i = 0 THEN Len(file.c[1].c) ELSE upto[i - 1] + heights[i]
  IN  IF n <= upto[0] THEN None ELSE items[CHOOSE i \in 1..Len(items) : upto[i - 1] < n /\ n <= upto[i]]
OwnerIn(file, n) ==
  Owner(file, n, [i \in 1..Len(file.c[2].c) |-> Len(Lines(Statement(Code, file.c[2].c[i])))])

\* Line n of the lines `was` of a printed tree is now one that is still a
\* statement's alone, and belongs to a module or stands on its own.
OneLineDamaged(tree, was, now, n) ==
  /\ Lines(PrettyPrint(Code, tree)) = was
  /\ OwnerIn(tree, n).k \in {"module", "const"}
  /\ Len(now) = Len(was)
  /\ ~Has(was[n], {"{", "}"}) /\ Closed(now[n])

\* All lines of `was` but its n-th are among those kept.
AllKeptBut(n, was, kept) ==
  LET rest == Len(was) - n
  IN  /\ Len(kept) \in {Len(was) - 1, Len(was)}
      /\ SubSeq(kept, 1, n - 1) = SubSeq(was, 1, n - 1)
      /\ SubSeq(kept, Len(kept) - rest + 1, Len(kept)) = SubSeq(was, n + 1, Len(was))

\* When a line without braces, of a module or on its own in the file, loses a
\* piece, what is left of the tree holds every other line's statement or item,
\* in order, whatever becomes of that line's own: a module's errors are
\* confined to their line.  (Tests, functions, bundles and extern modules give
\* up as a whole.)
Recovers ==
  damage # Empty =>
    LET was == Lines(damage[2])
        l   == Lex(text[damage[1]])
        n   == Len(Lines(SubSeq(damage[2], 1, damage[3])))
    IN  l.ok /\ OneLineDamaged(Tree(damage[2]).n, was, Lines(text[damage[1]]), n)
          => AllKeptBut(n, was, Lines(PrettyPrint(Code, ParseRecover(l.t).n)))
=============================================================================
