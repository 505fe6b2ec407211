---------------------------- MODULE MCCheckWatch ----------------------------
(****************************************************************************)
(* A project of an entry and two more files in another directory, with      *)
(* imports that cross and cycle, the embedded library in both of its        *)
(* variants, or a local one, errors of every class, and a few changes.      *)
(****************************************************************************)
EXTENDS CheckWatch

CONSTANTS main, part, leaf, toml, absent

MCPath == {main, part, leaf, toml}
MCDir == {".", "lib"}
MCDirOf(p) == IF p \in {part, leaf} THEN "lib" ELSE "."
MCStdPath(m, v) == IF v = "canonical" THEN leaf ELSE part

Holds(imports) == [ok |-> TRUE, imports |-> imports, lib |-> FALSE]
Broken == [ok |-> FALSE, imports |-> <<>>, lib |-> FALSE]
Config(local) == [ok |-> TRUE, imports |-> <<>>, lib |-> local]

Mains == {Holds(<<FileImport(part), FileImport(leaf)>>),
          Holds(<<StdImport("fifo", "canonical"), FileImport(part), StdImport("fifo", "twin")>>)}
Parts == {Holds(<<FileImport(leaf), FileImport(main), StdImport("fifo", "twin")>>),
          Holds(<<FileImport(part), BadStd>>)}

MCContent(p) ==
  CASE p = main -> Mains \union {Broken}
    [] p = part -> Parts \union {Broken}
    [] p = leaf -> {Holds(<<>>), absent}
    [] p = toml -> {Config(FALSE), Config(TRUE), Broken}

MCInitialDisk ==
  {[p \in MCPath |-> CASE p = main -> m [] p = part -> n [] p = leaf -> Holds(<<>>)
                       [] p = toml -> c] :
     m \in Mains, n \in Parts \union {Broken}, c \in {Config(FALSE), Config(TRUE)}}
=============================================================================
