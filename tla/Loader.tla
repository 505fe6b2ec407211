-------------------------------- MODULE Loader --------------------------------
(****************************************************************************)
(* load_project_with_lib of src/project.rs: the work list over imports.     *)
(* The disk belongs to the user, who may change it between any two steps.   *)
(*                                                                          *)
(* The content of a file is a record [ok, imports]: whether it lexes and    *)
(* parses, and its import declarations.  A relative import names a path, a  *)
(* standard one a pair of module and variant, or nothing known (BadStd).    *)
(****************************************************************************)
EXTENDS Integers, Sequences, FiniteSets

CONSTANTS
  Path,          \* the files that may exist on the disk; paths are canonical
  Entry,         \* the file the command was given
  StdModule,     \* the catalogue of the embedded library
  StdVariant,    \* the two sources of each of its modules
  StdPath(_, _), \* where a local library keeps a variant of a module
  Absent         \* the content of a path where there is no file

VARIABLES
  disk,      \* what each path holds
  lib,       \* a local library is configured: lib_std is Some
  load,      \* "idle", "walk", "ok", "io", "source"
  queue,     \* paths still to visit, a stack
  visited,   \* paths and embedded modules met
  files,     \* the loaded files
  stdFiles,  \* the embedded modules, appended in the end
  pending,   \* imports seen: <<slot of the importer, index, target>>
  current,   \* the file whose imports are being walked, or <<>>
  links      \* what the imports resolved to: [<<slot, index>> -> index in files]

loaderVars == <<lib, load, queue, visited, files, stdFiles, pending, current, links>>

FileImport(p) == [kind |-> "file", path |-> p]
StdImport(m, v) == [kind |-> "std", mod |-> m, variant |-> v]
BadStd == [kind |-> "bad"]

\* What a file may hold.  Only mimz.toml is asked for lib.
ImportDecl ==
  [kind : {"file"}, path : Path]
  \union [kind : {"std"}, mod : StdModule, variant : StdVariant] \union {BadStd}

File == [ok : BOOLEAN, imports : Seq(ImportDecl), lib : BOOLEAN]

\* The name under which an embedded module is remembered: its stem, whatever the variant.
Virtual(m) == <<"std", m>>

\* The path by which an import is remembered.
Target(imp) ==
  IF imp.kind = "file" THEN imp.path
  ELSE IF lib THEN StdPath(imp.mod, imp.variant) ELSE Virtual(imp.mod)

\* Fault: the embedded source does not depend on the alias.
EmbeddedFixed(imp) ==
  [path |-> Virtual(imp.mod), variant |-> CHOOSE v \in StdVariant : TRUE]

\* The embedded module an import selects, parsed from the source of its variant.
Embedded(imp) == [path |-> Virtual(imp.mod), variant |-> imp.variant]

ASSUME LoaderAssumption ==
  /\ Entry \in Path
  /\ \A m \in StdModule : Virtual(m) \notin Path
  /\ \A m \in StdModule, v \in StdVariant : StdPath(m, v) \in Path

LoaderInit ==
  /\ lib = FALSE
  /\ load = "idle" /\ queue = <<>> /\ visited = {} /\ files = <<>> /\ stdFiles = <<>>
  /\ pending = {} /\ current = <<>> /\ links = <<>>

Begin(local) ==
  /\ lib' = local
  /\ load' = "walk" /\ queue' = <<Entry>> /\ visited' = {} /\ files' = <<>> /\ stdFiles' = <<>>
  /\ pending' = {} /\ current' = <<>> /\ links' = <<>>

\* Any error leaves the function at once; what it had gathered is dropped.
Fail(class) ==
  /\ load' = class /\ current' = <<>> /\ queue' = <<>>
  /\ UNCHANGED <<lib, visited, files, stdFiles, pending, links>>

Walking == load = "walk"
Between == Walking /\ current = <<>>
Top == queue[Len(queue)]
Rest == SubSeq(queue, 1, Len(queue) - 1)

SkipVisited ==
  /\ Between /\ queue # <<>> /\ Top \in visited
  /\ queue' = Rest
  /\ UNCHANGED <<lib, load, visited, files, stdFiles, pending, current, links>>

\* The file at path p is read, lexed and parsed.
ParseFile(p) ==
  /\ Between /\ queue # <<>> /\ Top = p /\ p \notin visited
  /\ IF disk[p] = Absent THEN Fail("io")
     ELSE IF ~disk[p].ok THEN Fail("source")
     ELSE /\ visited' = visited \union {p} /\ queue' = Rest
          /\ current' = [path |-> p, content |-> disk[p], next |-> 1]
          /\ UNCHANGED <<lib, load, files, stdFiles, pending, links>>

Import == current.content.imports[current.next]
MoreImports == Walking /\ current # <<>> /\ current.next <= Len(current.content.imports)

\* The importer is pushed after its imports were walked; this is its place then.
Slot == Len(files) + 1

Note(target) ==
  /\ pending' = pending \union {<<Slot, current.next, target>>}
  /\ current' = [current EXCEPT !.next = @ + 1]

QueueDisk(p) ==
  IF disk[p] = Absent THEN Fail("source")
  ELSE /\ queue' = Append(queue, p) /\ Note(p)
       /\ UNCHANGED <<lib, load, visited, files, stdFiles, links>>

ImportFile == MoreImports /\ Import.kind = "file" /\ QueueDisk(Import.path)

\* resolve_std_import: a local library is queued like any file; an embedded module
\* is parsed on the spot, unless it was met before.
ImportStd ==
  /\ MoreImports /\ Import.kind # "file"
  /\ IF Import.kind = "bad" THEN Fail("source")
     ELSE IF lib THEN QueueDisk(StdPath(Import.mod, Import.variant))
     ELSE LET name == Virtual(Import.mod) IN
          /\ visited' = visited \union {name}
          /\ stdFiles' = IF name \in visited THEN stdFiles ELSE Append(stdFiles, Embedded(Import))
          /\ Note(name)
          /\ UNCHANGED <<lib, load, queue, files, links>>

PushFile ==
  /\ Walking /\ current # <<>> /\ current.next > Len(current.content.imports)
  /\ files' = Append(files, [path |-> current.path, content |-> current.content])
  /\ current' = <<>>
  /\ UNCHANGED <<lib, load, queue, visited, stdFiles, pending, links>>

\* Fault: the embedded modules come first.
AllFilesStdFirst == stdFiles \o files

AllFiles == files \o stdFiles

\* Every pending target is looked up among the files; the last of equal paths wins.
Resolve ==
  /\ Between /\ queue = <<>>
  /\ load' = "ok" /\ files' = AllFiles
  /\ links' = [k \in {<<e[1], e[2]>> : e \in pending} |->
                 LET target == (CHOOSE e \in pending : <<e[1], e[2]>> = k)[3]
                     places == {i \in DOMAIN AllFiles : AllFiles[i].path = target}
                 IN  IF places = {} THEN 0 ELSE CHOOSE i \in places : \A j \in places : j <= i]
  /\ UNCHANGED <<lib, queue, visited, stdFiles, pending, current>>

LoaderStep ==
  SkipVisited \/ (\E p \in Path : ParseFile(p)) \/ ImportFile \/ ImportStd \/ PushFile \/ Resolve
-----------------------------------------------------------------------------
\* The loaded file f is what an import names: the file at its path or, in the
\* embedded library, the source that the written alias selects.
Names(imp, f) ==
  \/ imp.kind = "file" /\ f.path = imp.path
  \/ imp.kind = "std" /\ lib /\ f.path = StdPath(imp.mod, imp.variant)
  \/ imp.kind = "std" /\ ~lib /\ f.path = Virtual(imp.mod) /\ f.variant = imp.variant

\* The import stands in a file of the project.
Declared(imp) ==
  \E i \in DOMAIN files :
    /\ files[i].path \in Path
    /\ \E k \in DOMAIN files[i].content.imports : files[i].content.imports[k] = imp

\* Exception: the project imports the other variant of the module too, and f is the
\* source of that one, which was met first.
OtherVariant(imp, f) ==
  \E v \in StdVariant :
    /\ imp.kind = "std" /\ v # imp.variant
    /\ Declared(StdImport(imp.mod, v)) /\ Names(StdImport(imp.mod, v), f) /\ ~lib

\* A loaded project is closed and linked: the entry comes first (tests and
\* simulations rely on it), no file is loaded twice however the imports cross,
\* and each import is linked to the file, or to the embedded source, that it
\* names.  Imports that cycle load like any others (project.rs:99).
Linked ==
  load = "ok" =>
    /\ files[1].path = Entry
    /\ \A i, j \in DOMAIN files : files[i].path = files[j].path => i = j
    /\ \A i \in DOMAIN files : files[i].path \in Path =>
         \A k \in DOMAIN files[i].content.imports :
            LET imp == files[i].content.imports[k]
                at == links[<<i, k>>]
            IN  /\ <<i, k>> \in DOMAIN links /\ at \in DOMAIN files
                /\ Names(imp, files[at]) \/ OtherVariant(imp, files[at])
=============================================================================
