--------------------------- MODULE CheckWatchProofs ---------------------------
(****************************************************************************)
(* For any project, any number of changes at any moment and any imports: a  *)
(* project that loads is closed and linked (Linked), and a command at rest  *)
(* has checked what is on the disk (Fresh).                                 *)
(*                                                                          *)
(* The first part is about the loader's work list: each path it has met is  *)
(* loaded once, and each import it has walked is remembered under the slot  *)
(* its file is going to get.  The second is about the events: what a pass   *)
(* has looked at and has changed since is announced, by an event in the     *)
(* channel or by the hit of the burst being drained.                        *)
(****************************************************************************)
EXTENDS CheckWatch, SequenceTheorems, TLAPS

VirtualPath == {Virtual(m) : m \in StdModule}

Loaded == [path : Path, content : File]
EmbeddedFile == [path : VirtualPath, variant : StdVariant]
Cursor == [path : Path, content : File, next : Nat \ {0}]

DiskTyped == disk \in [Path -> File \union {Absent}]

WalkTyped ==
  /\ queue \in Seq(Path) /\ files \in Seq(Loaded) /\ stdFiles \in Seq(EmbeddedFile)
  /\ visited \subseteq Path \union VirtualPath
  /\ current # <<>> => /\ current \in Cursor
                       /\ current.next <= Len(current.content.imports) + 1

\* What has been loaded is marked as visited, and is there only once.
Unrepeated ==
  /\ \A i, j \in DOMAIN files : files[i].path = files[j].path => i = j
  /\ \A i, j \in DOMAIN stdFiles : stdFiles[i].path = stdFiles[j].path => i = j
  /\ \A i \in DOMAIN files : files[i].path \in visited
  /\ \A i \in DOMAIN stdFiles : stdFiles[i].path \in visited
  /\ current # <<>> => /\ current.path \in visited
                       /\ \A i \in DOMAIN files : files[i].path # current.path

IsLoaded(x) ==
  \/ \E i \in DOMAIN files : files[i].path = x
  \/ \E i \in DOMAIN stdFiles : stdFiles[i].path = x

\* What is marked as visited has been loaded, or is being walked.
VisitedLoaded == \A x \in visited : IsLoaded(x) \/ (current # <<>> /\ current.path = x)

\* The entry is the first file to be visited, hence the first to be pushed.
EntryFirst ==
  IF files # <<>> THEN files[1].path = Entry
  ELSE IF current # <<>> THEN current.path = Entry
  ELSE queue = <<Entry>> /\ visited = {}

\* What is remembered of an import, and of those of the file being walked.
Noted(slot, imports, k) == <<slot, k, Target(imports[k])>>
Walked == 1..(current.next - 1)

ImportsNoted ==
  /\ \A i \in DOMAIN files : \A k \in DOMAIN files[i].content.imports :
       Noted(i, files[i].content.imports, k) \in pending
  /\ current # <<>> => \A k \in Walked : Noted(Slot, current.content.imports, k) \in pending

OnlyImports == \A e \in pending :
  \/ \E i \in DOMAIN files : \E k \in DOMAIN files[i].content.imports :
       e = Noted(i, files[i].content.imports, k)
  \/ current # <<>> /\ \E k \in Walked : e = Noted(Slot, current.content.imports, k)

TargetsMet ==
  \A e \in pending : e[3] \in visited \/ \E i \in DOMAIN queue : queue[i] = e[3]

\* The import stands before the cursor, or in a file that was pushed.
WalkedImport(imp) ==
  \/ \E i \in DOMAIN files : \E k \in DOMAIN files[i].content.imports :
       files[i].content.imports[k] = imp
  \/ current # <<>> /\ \E k \in Walked : current.content.imports[k] = imp

\* What an import may say without stopping the load.
Known == [kind : {"file"}, path : Path] \union [kind : {"std"}, mod : StdModule, variant : StdVariant]
NoneBad == \A imp : WalkedImport(imp) => imp \in Known

\* The source of each embedded module is the one that some import selects.
SourcesSelected ==
  \A s \in DOMAIN stdFiles :
    ~lib /\ \E m \in StdModule : /\ stdFiles[s].path = Virtual(m)
                                 /\ WalkedImport(StdImport(m, stdFiles[s].variant))

WalkInv ==
  /\ SourcesSelected /\ NoneBad
  /\ WalkTyped /\ Unrepeated /\ VisitedLoaded /\ EntryFirst
  /\ ImportsNoted /\ OnlyImports /\ TargetsMet

LoaderInv == DiskTyped /\ Linked /\ (Walking => WalkInv)
-----------------------------------------------------------------------------
\* An event for a .mimz file is in the channel, or was drained from it by the
\* burst that the command is waiting to end.
Announced == (\E i \in DOMAIN channel : channel[i]) \/ (pc = "debounce" /\ hit)

WatchTyped ==
  /\ pc \in {"load", "reconcile", "recv", "debounce"}
  /\ pc \in {"recv", "debounce"} => load = "idle"
  /\ pc = "reconcile" =>
       /\ pass.loaded <=> load = "ok"
       /\ pass.dirs = IF load = "ok" THEN {DirOf(files[i].path) : i \in DOMAIN files}
                      ELSE {DirOf(Entry)}
  /\ channel \in Seq(BOOLEAN) /\ hit \in BOOLEAN
  /\ version \in [Path -> Nat] /\ seen \in [Path -> Nat] /\ looked \subseteq Path

\* The directories a fix can come from are being watched.
ProjectWatched == project \subseteq watched

\* Until the next pass begins.
Heard ==
  ~(pc = "load" /\ load = "idle") =>
    \A p \in looked : IsMimz(p) => seen[p] = version[p] \/ p \in excused \/ Announced

WatchInv == WatchTyped /\ ProjectWatched /\ Heard
-----------------------------------------------------------------------------
\* A cursor is a record, so an absent one (<<>>) is not a cursor.
LEMMA CursorNotEmpty == ASSUME NEW c \in Cursor PROVE c # <<>>
<1>1. c = [path |-> c.path, content |-> c.content, next |-> c.next] BY DEF Cursor
<1>2. "path" \in DOMAIN c BY <1>1
<1>3. DOMAIN <<>> = {} OBVIOUS
<1> QED BY <1>2, <1>3

\* Popping the work list; what was in it is on top or still in it.
LEMMA QueuePopped ==
  ASSUME queue \in Seq(Path), queue # <<>>
  PROVE  /\ Top \in Path /\ Rest \in Seq(Path)
         /\ \A i \in DOMAIN queue : queue[i] = Top \/ \E j \in DOMAIN Rest : Rest[j] = queue[i]
<1>1. Len(queue) \in Nat \ {0} /\ DOMAIN queue = 1..Len(queue) BY EmptySeq, LenProperties
<1>2. \A i \in 1..Len(queue) : queue[i] \in Path BY <1>1, ElementOfSeq
<1>3. /\ Rest \in Seq(Path) /\ Len(Rest) = Len(queue) - 1
      /\ \A i \in 1..(Len(queue) - 1) : Rest[i] = queue[i]
  <2> HIDE DEF Rest
  <2>1. \A i \in 1..(Len(queue) - 1) : queue[i] \in Path BY <1>1, <1>2
  <2>2. /\ SubSeq(queue, 1, Len(queue) - 1) \in Seq(Path)
        /\ Len(SubSeq(queue, 1, Len(queue) - 1)) =
             IF 1 <= Len(queue) - 1 THEN (Len(queue) - 1) - 1 + 1 ELSE 0
        /\ \A i \in 1..((Len(queue) - 1) - 1 + 1) :
             SubSeq(queue, 1, Len(queue) - 1)[i] = queue[1 + i - 1]
    BY <1>1, <2>1, SubSeqProperties
  <2>3. Rest = SubSeq(queue, 1, Len(queue) - 1) BY DEF Rest
  <2> QED BY <1>1, <2>2, <2>3
<1>4. DOMAIN Rest = 1..(Len(queue) - 1) BY <1>3, LenProperties
<1>5. Top \in Path BY <1>1, <1>2 DEF Top
<1>6. ASSUME NEW i \in DOMAIN queue
      PROVE  queue[i] = Top \/ \E j \in DOMAIN Rest : Rest[j] = queue[i]
  <2>1. i = Len(queue) \/ i \in 1..(Len(queue) - 1) BY <1>1
  <2> QED BY <2>1, <1>3, <1>4 DEF Top
<1> QED BY <1>3, <1>5, <1>6

\* Appending to a sequence.
LEMMA Appended ==
  ASSUME NEW S, NEW s \in Seq(S), NEW e \in S
  PROVE  /\ Append(s, e) \in Seq(S) /\ Append(s, e) # <<>>
         /\ Len(s) \in Nat /\ DOMAIN s = 1..Len(s) /\ DOMAIN Append(s, e) = 1..(Len(s) + 1)
         /\ \A i \in 1..Len(s) : Append(s, e)[i] = s[i]
         /\ Append(s, e)[Len(s) + 1] = e
<1>1. Len(s) \in Nat /\ DOMAIN s = 1..Len(s) BY LenProperties
<1>2. /\ Append(s, e) \in Seq(S) /\ Len(Append(s, e)) = Len(s) + 1
      /\ \A i \in 1..Len(s) : Append(s, e)[i] = s[i]
      /\ Append(s, e)[Len(s) + 1] = e
  BY <1>1, AppendProperties
<1> QED BY <1>1, <1>2, LenProperties, EmptySeq

\* An error drops the project: nothing is claimed of it any more.
LEMMA FailInv ==
  ASSUME LoaderInv, NEW class \in {"io", "source"}, Fail(class), disk' = disk
  PROVE  LoaderInv'
BY DEF LoaderInv, DiskTyped, Linked, Walking, Fail

\* The function starts over with the entry and nothing else.
LEMMA BeginInv ==
  ASSUME LoaderInv, NEW local, Begin(local), disk' = disk
  PROVE  LoaderInv'
<1>1. /\ load' = "walk" /\ queue' = <<Entry>> /\ visited' = {} /\ files' = <<>>
      /\ stdFiles' = <<>> /\ pending' = {} /\ current' = <<>>
  BY DEF Begin
<1>2. WalkInv'
  <2>1. <<Entry>> \in Seq(Path) BY LoaderAssumption
  <2> QED
    BY <1>1, <2>1 DEF WalkInv, WalkTyped, Unrepeated, VisitedLoaded, EntryFirst, ImportsNoted,
         OnlyImports, TargetsMet, SourcesSelected, NoneBad,
         WalkedImport
<1> QED BY <1>1, <1>2 DEF LoaderInv, DiskTyped, Linked, Walking

\* Dropping a queued file that was visited before keeps the walk's invariant.
LEMMA SkipVisitedInv == ASSUME LoaderInv, SkipVisited, disk' = disk PROVE LoaderInv'
<1>1. /\ WalkInv /\ current = <<>> /\ queue # <<>> /\ Top \in visited /\ queue' = Rest
      /\ load = "walk"
      /\ UNCHANGED <<lib, load, visited, files, stdFiles, pending, current, links>>
  BY DEF LoaderInv, SkipVisited, Between, Walking
<1>2. /\ Rest \in Seq(Path)
      /\ \A i \in DOMAIN queue : queue[i] = Top \/ \E j \in DOMAIN Rest : Rest[j] = queue[i]
  BY <1>1, QueuePopped DEF WalkInv, WalkTyped
<1>3. WalkTyped' /\ Unrepeated' /\ VisitedLoaded'
  BY <1>1, <1>2 DEF WalkInv, WalkTyped, Unrepeated, VisitedLoaded, IsLoaded
<1>4. EntryFirst' BY <1>1 DEF WalkInv, EntryFirst
<1>5. ImportsNoted' /\ OnlyImports'
  BY <1>1 DEF WalkInv, ImportsNoted, OnlyImports, Noted, Target, Walked, Slot
<1>6. TargetsMet' BY <1>1, <1>2 DEF WalkInv, TargetsMet
<1>7. SourcesSelected' /\ NoneBad'
  BY <1>1 DEF WalkInv, SourcesSelected, NoneBad, WalkedImport, Walked
<1> QED BY <1>1, <1>3, <1>4, <1>5, <1>6, <1>7 DEF LoaderInv, DiskTyped, Linked, WalkInv, Walking

\* Reading and parsing the file on top of the queue, or failing to, keeps the
\* walk's invariant: the file becomes the current one, with no import resolved.
LEMMA ParseFileInv ==
  ASSUME LoaderInv, NEW p \in Path, ParseFile(p), disk' = disk
  PROVE  LoaderInv'
<1>1. /\ WalkInv /\ load = "walk" /\ current = <<>> /\ queue # <<>> /\ Top = p /\ p \notin visited
  BY DEF LoaderInv, ParseFile, Between, Walking
<1>2. CASE disk[p] = Absent \/ ~disk[p].ok
  BY <1>2, FailInv DEF ParseFile
<1>3. CASE ~(disk[p] = Absent \/ ~disk[p].ok)
  <2>1. /\ visited' = visited \union {p} /\ queue' = Rest
        /\ current' = [path |-> p, content |-> disk[p], next |-> 1]
        /\ UNCHANGED <<lib, load, files, stdFiles, pending, links>>
    BY <1>3 DEF ParseFile
  <2>2. disk[p] \in File /\ Len(disk[p].imports) \in Nat
    <3>1. disk[p] \in File BY <1>3 DEF LoaderInv, DiskTyped
    <3> QED BY <3>1, LenProperties DEF File
  <2>3. current' \in Cursor BY <2>1, <2>2 DEF Cursor
  <2>4. /\ current' # <<>> /\ current'.path = p /\ current'.content = disk[p]
        /\ current'.next = 1
    BY <2>1, <2>3, CursorNotEmpty
  <2>5. /\ Rest \in Seq(Path)
        /\ \A i \in DOMAIN queue : queue[i] = p \/ \E j \in DOMAIN Rest : Rest[j] = queue[i]
    BY <1>1, QueuePopped DEF WalkInv, WalkTyped
  <2>6. WalkTyped' BY <1>1, <2>1, <2>2, <2>3, <2>4, <2>5 DEF WalkInv, WalkTyped
  <2>7. Unrepeated' /\ VisitedLoaded'
    BY <1>1, <2>1, <2>4 DEF WalkInv, Unrepeated, VisitedLoaded, IsLoaded
  <2>8. EntryFirst'
    <3>1. <<Entry>>[Len(<<Entry>>)] = Entry OBVIOUS
    <3>2. files = <<>> => Top = Entry BY <3>1, <1>1 DEF WalkInv, EntryFirst, Top
    <3> QED BY <3>2, <1>1, <2>1, <2>4 DEF WalkInv, EntryFirst
  <2>9. ImportsNoted' /\ OnlyImports'
    BY <1>1, <2>1, <2>4 DEF WalkInv, ImportsNoted, OnlyImports, Noted, Target, Walked
  <2>10. TargetsMet' BY <1>1, <2>1, <2>5 DEF WalkInv, TargetsMet
  <2>11. \A imp : WalkedImport(imp)' <=> WalkedImport(imp)
    BY <1>1, <2>1, <2>4 DEF WalkedImport, Walked
  <2>12. SourcesSelected' /\ NoneBad' BY <1>1, <2>1, <2>11 DEF WalkInv, SourcesSelected, NoneBad
  <2> QED
    BY <1>1, <2>1, <2>6, <2>7, <2>8, <2>9, <2>10, <2>12
    DEF LoaderInv, DiskTyped, Linked, WalkInv, Walking
<1> QED BY <1>2, <1>3

\* The import declaration that comes next is one the language has.
LEMMA ImportTyped ==
  ASSUME WalkInv, MoreImports
  PROVE  /\ current # <<>> /\ current \in Cursor /\ current.next \in DOMAIN current.content.imports
         /\ Import \in ImportDecl
<1>1. current # <<>> /\ current.next <= Len(current.content.imports) BY DEF MoreImports
<1>2. current \in Cursor BY <1>1 DEF WalkInv, WalkTyped
<1>3. current.content.imports \in Seq(ImportDecl) /\ current.next \in Nat \ {0}
  BY <1>2 DEF Cursor, File
<1>4. /\ DOMAIN current.content.imports = 1..Len(current.content.imports)
      /\ Len(current.content.imports) \in Nat
  BY <1>3, LenProperties
<1>5. current.next \in 1..Len(current.content.imports) BY <1>1, <1>3, <1>4
<1>6. Import \in ImportDecl BY <1>3, <1>5, ElementOfSeq DEF Import
<1> QED BY <1>1, <1>2, <1>4, <1>5, <1>6

\* One more import of the file being walked is remembered under its slot.
LEMMA NoteKeeps ==
  ASSUME WalkInv, MoreImports, Note(Target(Import)), lib' = lib, files' = files
  PROVE  /\ current' # <<>> /\ current' \in Cursor
         /\ current'.path = current.path /\ current'.content = current.content
         /\ current'.next <= Len(current.content.imports) + 1
         /\ ImportsNoted' /\ OnlyImports'
         /\ \A imp : WalkedImport(imp) => WalkedImport(imp)'
         /\ \A imp : WalkedImport(imp)' => WalkedImport(imp) \/ imp = Import
         /\ \A imp : imp = Import => WalkedImport(imp)'
<1> DEFINE e == Noted(Slot, current.content.imports, current.next)
<1>1. /\ current # <<>> /\ current \in Cursor
      /\ current.next \in DOMAIN current.content.imports
  BY ImportTyped
<1>2. current.next \in Nat \ {0} /\ current.content \in File BY <1>1 DEF Cursor
<1>3. current.next \in 1..Len(current.content.imports) /\ Len(current.content.imports) \in Nat
  BY <1>1, <1>2, LenProperties DEF File
<1>4. current' = [current EXCEPT !.next = @ + 1] /\ pending' = pending \union {e}
  BY DEF Note, Noted, Import
<1>5. /\ current' \in Cursor /\ current'.path = current.path
      /\ current'.content = current.content /\ current'.next = current.next + 1
  BY <1>1, <1>2, <1>4 DEF Cursor
<1>6. current' # <<>> BY <1>5, CursorNotEmpty
<1>7. Walked' = Walked \union {current.next} BY <1>2, <1>5 DEF Walked
<1>8. Slot' = Slot BY DEF Slot
<1>9. \A slot, imports, k : Noted(slot, imports, k)' = Noted(slot, imports, k)
  BY DEF Noted, Target
<1>10. ImportsNoted'
  <2>1. ASSUME NEW k \in Walked' PROVE Noted(Slot, current.content.imports, k) \in pending'
    <3>1. CASE k \in Walked BY <3>1, <1>1, <1>4 DEF WalkInv, ImportsNoted
    <3>2. CASE k = current.next BY <3>2, <1>4
    <3> QED BY <3>1, <3>2, <2>1, <1>7
  <2>2. \A i \in DOMAIN files : \A k \in DOMAIN files[i].content.imports :
          Noted(i, files[i].content.imports, k) \in pending'
    BY <1>4 DEF WalkInv, ImportsNoted
  <2> QED BY <2>1, <2>2, <1>5, <1>8, <1>9 DEF ImportsNoted, Noted, Target
<1>11. OnlyImports'
  <2> SUFFICES ASSUME NEW f \in pending'
               PROVE  \/ \E i \in DOMAIN files : \E k \in DOMAIN files[i].content.imports :
                           f = Noted(i, files[i].content.imports, k)
                      \/ \E k \in Walked' : f = Noted(Slot, current.content.imports, k)
    BY <1>5, <1>6, <1>8 DEF OnlyImports, Noted, Target
  <2>1. CASE f \in pending BY <2>1, <1>1, <1>7 DEF WalkInv, OnlyImports
  <2>2. CASE f = e BY <2>2, <1>7
  <2> QED BY <2>1, <2>2, <1>4
<1>12. \A imp : WalkedImport(imp) => WalkedImport(imp)'
  BY <1>1, <1>5, <1>6, <1>7 DEF WalkedImport
<1>13. \A imp : WalkedImport(imp)' => WalkedImport(imp) \/ imp = Import
  BY <1>1, <1>5, <1>7 DEF WalkedImport, Import
<1>14. ASSUME NEW imp, imp = Import PROVE WalkedImport(imp)'
  <2>1. \E k \in Walked' : current'.content.imports[k] = imp BY <1>5, <1>7, <1>14 DEF Import
  <2> QED BY <2>1, <1>6 DEF WalkedImport
<1> QED BY <1>3, <1>5, <1>6, <1>10, <1>11, <1>12, <1>13, <1>14

\* An import that names a file on the disk is queued.
LEMMA QueueDiskInv ==
  ASSUME LoaderInv, MoreImports, NEW p \in Path, p = Target(Import), QueueDisk(p), disk' = disk,
         Import \in Known
  PROVE  LoaderInv'
<1>1. WalkInv /\ load = "walk" BY DEF LoaderInv, MoreImports, Walking
<1>2. CASE disk[p] = Absent BY <1>2, FailInv DEF QueueDisk
<1>3. CASE disk[p] # Absent
  <2>1. /\ queue' = Append(queue, p) /\ Note(p)
        /\ UNCHANGED <<lib, load, visited, files, stdFiles, links>>
    BY <1>3 DEF QueueDisk
  <2>2. /\ current' # <<>> /\ current' \in Cursor /\ current # <<>>
        /\ current'.path = current.path /\ current'.content = current.content
        /\ current'.next <= Len(current.content.imports) + 1
        /\ ImportsNoted' /\ OnlyImports'
        /\ \A imp : WalkedImport(imp) => WalkedImport(imp)'
        /\ \A imp : WalkedImport(imp)' => WalkedImport(imp) \/ imp = Import
    BY <1>1, <2>1, NoteKeeps, ImportTyped
  <2>3. /\ queue' \in Seq(Path) /\ DOMAIN queue' = 1..(Len(queue) + 1) /\ Len(queue) \in Nat
        /\ DOMAIN queue = 1..Len(queue)
        /\ \A i \in DOMAIN queue : queue'[i] = queue[i]
        /\ queue'[Len(queue) + 1] = p
    BY <1>1, <2>1, Appended DEF WalkInv, WalkTyped
  <2>4. WalkTyped' BY <1>1, <2>1, <2>2, <2>3 DEF WalkInv, WalkTyped
  <2>5. Unrepeated' /\ VisitedLoaded' /\ EntryFirst'
    BY <1>1, <2>1, <2>2 DEF WalkInv, Unrepeated, VisitedLoaded, IsLoaded, EntryFirst
  <2>6. TargetsMet'
    <3>1. pending' = pending \union {<<Slot, current.next, p>>} BY <2>1 DEF Note
    <3>2. \A i \in DOMAIN queue : i \in DOMAIN queue' BY <2>3
    <3>3. Len(queue) + 1 \in DOMAIN queue' BY <2>3
    <3> QED BY <1>1, <2>1, <2>3, <3>1, <3>2, <3>3 DEF WalkInv, TargetsMet
  <2>7. SourcesSelected' /\ NoneBad'
    BY <1>1, <2>1, <2>2 DEF WalkInv, SourcesSelected, NoneBad
  <2> QED
    BY <1>1, <2>1, <2>2, <2>4, <2>5, <2>6, <2>7 DEF LoaderInv, DiskTyped, Linked, WalkInv, Walking
<1> QED BY <1>2, <1>3

\* Noting an import of a file, and queueing it if it is new, keeps the walk's
\* invariant.
LEMMA ImportFileInv == ASSUME LoaderInv, ImportFile, disk' = disk PROVE LoaderInv'
<1>1. MoreImports /\ Import.kind = "file" /\ QueueDisk(Import.path) /\ WalkInv
  BY DEF ImportFile, LoaderInv, MoreImports, Walking
<1>2. Import \in ImportDecl BY <1>1, ImportTyped
<1>3. Import \in Known /\ Import.path \in Path BY <1>1, <1>2 DEF ImportDecl, BadStd, Known
<1>4. Import.path = Target(Import) BY <1>1 DEF Target
<1> QED BY <1>1, <1>3, <1>4, QueueDiskInv

\* Resolving an import of the standard library, to a file on disk or to an
\* embedded module, keeps the walk's invariant.
LEMMA ImportStdInv == ASSUME LoaderInv, ImportStd, disk' = disk PROVE LoaderInv'
<1>1. MoreImports /\ Import.kind # "file" /\ WalkInv /\ load = "walk"
  BY DEF ImportStd, LoaderInv, MoreImports, Walking
<1>2. Import \in ImportDecl /\ current # <<>> BY <1>1, ImportTyped
<1>3. CASE Import.kind = "bad" BY <1>3, FailInv DEF ImportStd
<1>4. CASE Import.kind # "bad"
  <2>1. Import \in Known /\ Import.mod \in StdModule /\ Import.variant \in StdVariant
    BY <1>1, <1>2, <1>4 DEF ImportDecl, BadStd, Known
  <2>2. CASE lib
    <3>1. QueueDisk(StdPath(Import.mod, Import.variant)) BY <1>4, <2>2 DEF ImportStd
    <3>2. StdPath(Import.mod, Import.variant) \in Path BY <2>1, LoaderAssumption
    <3>3. StdPath(Import.mod, Import.variant) = Target(Import) BY <1>1, <2>2 DEF Target
    <3> QED BY <1>1, <2>1, <3>1, <3>2, <3>3, QueueDiskInv
  <2>3. CASE ~lib
    <3> DEFINE name == Virtual(Import.mod)
               entry == Embedded(Import)
    <3>1. /\ visited' = visited \union {name} /\ Note(name)
          /\ stdFiles' = IF name \in visited THEN stdFiles ELSE Append(stdFiles, entry)
          /\ UNCHANGED <<lib, load, queue, files, links>>
      BY <1>4, <2>3 DEF ImportStd
    <3>2. name = Target(Import) BY <1>1, <2>3 DEF Target
    <3>3. name \in VirtualPath /\ name \notin Path BY <2>1, LoaderAssumption DEF VirtualPath
    <3>4. /\ current' # <<>> /\ current' \in Cursor
          /\ current'.path = current.path /\ current'.content = current.content
          /\ current'.next <= Len(current.content.imports) + 1
          /\ ImportsNoted' /\ OnlyImports'
          /\ \A imp : WalkedImport(imp) => WalkedImport(imp)'
          /\ \A imp : WalkedImport(imp)' => WalkedImport(imp) \/ imp = Import
          /\ \A imp : imp = Import => WalkedImport(imp)'
      BY <1>1, <3>1, <3>2, NoteKeeps
    <3>5. entry \in EmbeddedFile /\ entry.path = name /\ entry.variant = Import.variant
      BY <2>1, <3>3 DEF EmbeddedFile, Embedded
    <3>14. Import = StdImport(Import.mod, entry.variant) /\ name = Virtual(Import.mod)
      BY <1>1, <1>2, <1>4, <3>5 DEF ImportDecl, StdImport, BadStd
    <3> HIDE DEF entry, name
    <3>6. /\ Append(stdFiles, entry) \in Seq(EmbeddedFile)
          /\ Len(stdFiles) \in Nat /\ DOMAIN stdFiles = 1..Len(stdFiles)
          /\ DOMAIN Append(stdFiles, entry) = 1..(Len(stdFiles) + 1)
          /\ \A i \in 1..Len(stdFiles) : Append(stdFiles, entry)[i] = stdFiles[i]
          /\ Append(stdFiles, entry)[Len(stdFiles) + 1] = entry
      BY <1>1, <3>5, Appended DEF WalkInv, WalkTyped
    <3>7. WalkTyped' BY <1>1, <3>1, <3>3, <3>4, <3>6 DEF WalkInv, WalkTyped
    <3>8. /\ \A i, j \in DOMAIN stdFiles' : stdFiles'[i].path = stdFiles'[j].path => i = j
          /\ \A i \in DOMAIN stdFiles' : stdFiles'[i].path \in visited'
      <4>1. CASE name \in visited BY <4>1, <1>1, <3>1 DEF WalkInv, Unrepeated
      <4>2. CASE name \notin visited
        <5>1. \A i \in DOMAIN stdFiles : stdFiles[i].path # name
          BY <4>2, <1>1 DEF WalkInv, Unrepeated
        <5>2. DOMAIN stdFiles' = DOMAIN stdFiles \union {Len(stdFiles) + 1}
          BY <4>2, <3>1, <3>6
        <5>3. stdFiles'[Len(stdFiles) + 1].path = name BY <4>2, <3>1, <3>5, <3>6
        <5>4. \A i \in DOMAIN stdFiles : stdFiles'[i] = stdFiles[i] BY <4>2, <3>1, <3>6
        <5> QED BY <1>1, <3>1, <5>1, <5>2, <5>3, <5>4 DEF WalkInv, Unrepeated
      <4> QED BY <4>1, <4>2
    <3>9. Unrepeated' BY <1>1, <1>2, <3>1, <3>4, <3>8 DEF WalkInv, Unrepeated
    <3>10. VisitedLoaded'
      <4>1. \A x : (\E i \in DOMAIN stdFiles : stdFiles[i].path = x)
                     => \E i \in DOMAIN stdFiles' : stdFiles'[i].path = x
        BY <3>1, <3>6
      <4>2. name \in visited \/ \E i \in DOMAIN stdFiles' : stdFiles'[i].path = name
        BY <3>1, <3>5, <3>6
      <4> QED BY <1>1, <1>2, <3>1, <3>4, <4>1, <4>2 DEF WalkInv, VisitedLoaded, IsLoaded
    <3>11. EntryFirst' BY <1>1, <1>2, <3>1, <3>4 DEF WalkInv, EntryFirst
    <3>12. TargetsMet'
      <4>1. pending' = pending \union {<<Slot, current.next, name>>} BY <3>1 DEF Note
      <4> QED BY <1>1, <3>1, <4>1 DEF WalkInv, TargetsMet
    <3>13. SourcesSelected'
      <4>1. ASSUME NEW s \in DOMAIN stdFiles'
            PROVE  \E m \in StdModule : /\ stdFiles'[s].path = Virtual(m)
                                        /\ WalkedImport(StdImport(m, stdFiles[s].variant))'
        <5>1. CASE s \in DOMAIN stdFiles
          <6>1. stdFiles'[s] = stdFiles[s] BY <5>1, <3>1, <3>6
          <6> QED BY <5>1, <6>1, <1>1, <3>4 DEF WalkInv, SourcesSelected
        <5>2. CASE s \notin DOMAIN stdFiles
          <6>1. stdFiles'[s] = entry BY <4>1, <5>2, <3>1, <3>6
          <6>2. PICK m, v : m = Import.mod /\ v = entry.variant OBVIOUS
          <6>3. WalkedImport(StdImport(m, v))' BY <6>2, <3>4, <3>14 DEF StdImport
          <6> QED BY <6>1, <6>2, <6>3, <2>1, <3>5, <3>14 DEF StdImport
        <5> QED BY <5>1, <5>2
      <4> QED BY <4>1, <2>3, <3>1 DEF SourcesSelected
    <3>15. NoneBad' BY <1>1, <2>1, <3>4 DEF WalkInv, NoneBad
    <3> QED
      BY <1>1, <3>1, <3>4, <3>7, <3>9, <3>10, <3>11, <3>12, <3>13, <3>15
      DEF LoaderInv, DiskTyped, Linked, WalkInv, Walking
  <2> QED BY <2>2, <2>3
<1> QED BY <1>3, <1>4

\* All imports of the file walked, it takes its slot.
LEMMA PushFileInv == ASSUME LoaderInv, PushFile, disk' = disk PROVE LoaderInv'
<1> DEFINE f == [path |-> current.path, content |-> current.content]
<1>1. /\ WalkInv /\ load = "walk" /\ current # <<>>
      /\ current.next > Len(current.content.imports)
      /\ files' = Append(files, f) /\ current' = <<>>
      /\ UNCHANGED <<lib, load, queue, visited, stdFiles, pending, links>>
  BY DEF LoaderInv, PushFile, Walking
<1>2. /\ current \in Cursor /\ current.next <= Len(current.content.imports) + 1
  BY <1>1 DEF WalkInv, WalkTyped
<1>3. f \in Loaded /\ f.path = current.path /\ f.content = current.content
  BY <1>2 DEF Cursor, Loaded
<1> HIDE DEF f
<1>4. /\ files' \in Seq(Loaded) /\ files' # <<>> /\ Len(files) \in Nat
      /\ DOMAIN files = 1..Len(files) /\ DOMAIN files' = DOMAIN files \union {Slot}
      /\ \A i \in DOMAIN files : files'[i] = files[i] /\ i # Slot
      /\ files'[Slot] = f
  BY <1>1, <1>3, Appended DEF WalkInv, WalkTyped, Slot
<1>5. Walked = DOMAIN current.content.imports
  <2>1. /\ current.next \in Nat \ {0} /\ Len(current.content.imports) \in Nat
        /\ DOMAIN current.content.imports = 1..Len(current.content.imports)
    BY <1>2, LenProperties DEF Cursor, File
  <2> QED BY <1>1, <1>2, <2>1 DEF Walked
<1>6. WalkTyped' BY <1>1, <1>4 DEF WalkInv, WalkTyped
<1>7. Unrepeated' BY <1>1, <1>3, <1>4 DEF WalkInv, Unrepeated
<1>8. VisitedLoaded'
  <2>1. \A x : (\E i \in DOMAIN files : files[i].path = x)
                 => \E i \in DOMAIN files' : files'[i].path = x
    BY <1>4
  <2>2. \E i \in DOMAIN files' : files'[i].path = current.path BY <1>3, <1>4
  <2> QED BY <1>1, <2>1, <2>2 DEF WalkInv, VisitedLoaded, IsLoaded
<1>9. EntryFirst'
  <2>1. CASE files = <<>>
    <3>1. Slot = 1 BY <2>1 DEF Slot
    <3> QED BY <2>1, <3>1, <1>1, <1>3, <1>4 DEF WalkInv, EntryFirst
  <2>2. CASE files # <<>>
    <3>1. 1 \in DOMAIN files BY <2>2, <1>1, <1>4, EmptySeq DEF WalkInv, WalkTyped
    <3> QED BY <2>2, <3>1, <1>1, <1>4 DEF WalkInv, EntryFirst
  <2> QED BY <2>1, <2>2
<1>10. \A slot, imports, k : Noted(slot, imports, k)' = Noted(slot, imports, k)
  BY <1>1 DEF Noted, Target
<1>11. ImportsNoted'
  <2> SUFFICES ASSUME NEW i \in DOMAIN files', NEW k \in DOMAIN files'[i].content.imports
               PROVE  Noted(i, files'[i].content.imports, k) \in pending
    BY <1>1 DEF ImportsNoted, Noted, Target
  <2>1. CASE i \in DOMAIN files BY <2>1, <1>1, <1>4 DEF WalkInv, ImportsNoted
  <2>2. CASE i = Slot BY <2>2, <1>1, <1>3, <1>4, <1>5 DEF WalkInv, ImportsNoted
  <2> QED BY <2>1, <2>2, <1>4
<1>12. OnlyImports'
  <2> SUFFICES ASSUME NEW e \in pending
               PROVE  \E i \in DOMAIN files' : \E k \in DOMAIN files'[i].content.imports :
                        e = Noted(i, files'[i].content.imports, k)
    BY <1>1 DEF OnlyImports, Noted, Target
  <2>1. CASE \E i \in DOMAIN files : \E k \in DOMAIN files[i].content.imports :
               e = Noted(i, files[i].content.imports, k)
    BY <2>1, <1>4
  <2>2. CASE \E k \in Walked : e = Noted(Slot, current.content.imports, k)
    BY <2>2, <1>3, <1>4, <1>5
  <2> QED BY <2>1, <2>2, <1>1 DEF WalkInv, OnlyImports
<1>13. TargetsMet' BY <1>1 DEF WalkInv, TargetsMet
<1>14. SourcesSelected' /\ NoneBad'
  <2>1. \A imp : WalkedImport(imp) <=> WalkedImport(imp)'
    BY <1>1, <1>3, <1>4, <1>5 DEF WalkedImport
  <2> QED BY <2>1, <1>1 DEF WalkInv, SourcesSelected, NoneBad
<1> QED
  BY <1>1, <1>6, <1>7, <1>8, <1>9, <1>11, <1>12, <1>13, <1>14
  DEF LoaderInv, DiskTyped, Linked, WalkInv, Walking

\* The files and then the embedded modules: no path is there twice, and every
\* path that was met is there.
LEMMA AllFilesOnce ==
  ASSUME WalkInv, current = <<>>
  PROVE  /\ DOMAIN files \subseteq DOMAIN AllFiles /\ \A i \in DOMAIN files : AllFiles[i] = files[i]
         /\ \A i \in DOMAIN AllFiles : AllFiles[i].path \in Path => i \in DOMAIN files
         /\ \A i, j \in DOMAIN AllFiles : AllFiles[i].path = AllFiles[j].path => i = j
         /\ \A x \in visited : \E i \in DOMAIN AllFiles : AllFiles[i].path = x
         /\ DOMAIN AllFiles \subseteq Nat
         /\ \A i \in DOMAIN AllFiles : AllFiles[i].path \notin Path =>
              \E s \in DOMAIN stdFiles : AllFiles[i] = stdFiles[s]
<1> DEFINE m == Len(files)  n == Len(stdFiles)
<1>1. /\ m \in Nat /\ n \in Nat /\ DOMAIN files = 1..m /\ DOMAIN stdFiles = 1..n
      /\ files \in Seq(Loaded \union EmbeddedFile) /\ stdFiles \in Seq(Loaded \union EmbeddedFile)
  BY LenProperties, SeqMonotonic DEF WalkInv, WalkTyped
<1>2. /\ DOMAIN AllFiles = 1..(m + n)
      /\ \A i \in 1..(m + n) : AllFiles[i] = IF i <= m THEN files[i] ELSE stdFiles[i - m]
  BY <1>1, ConcatProperties, LenProperties DEF AllFiles
<1> HIDE DEF m, n
<1>3. /\ \A i \in 1..m : i \in 1..(m + n) /\ AllFiles[i] = files[i]
      /\ \A i \in 1..n : m + i \in 1..(m + n) /\ AllFiles[m + i] = stdFiles[i]
      /\ \A i \in 1..(m + n) : i \in 1..m \/ (i - m \in 1..n /\ i = m + (i - m))
  BY <1>1, <1>2
<1>4. /\ \A i \in 1..m : files[i].path \in Path
      /\ \A i \in 1..n : stdFiles[i].path \in VirtualPath
  <2>1. /\ \A i \in 1..m : files[i] \in Loaded
        /\ \A i \in 1..n : stdFiles[i] \in EmbeddedFile
    BY <1>1, ElementOfSeq DEF WalkInv, WalkTyped
  <2> QED BY <2>1 DEF Loaded, EmbeddedFile
<1>5. \A x \in VirtualPath : x \notin Path BY LoaderAssumption DEF VirtualPath
<1>6. \A i \in 1..(m + n) : AllFiles[i].path \in Path => i \in 1..m
  BY <1>3, <1>4, <1>5
<1>7. ASSUME NEW i \in 1..(m + n), NEW j \in 1..(m + n), AllFiles[i].path = AllFiles[j].path
      PROVE  i = j
  <2>1. CASE i \in 1..m
    <3>1. j \in 1..m BY <2>1, <1>3, <1>4, <1>6, <1>7
    <3> QED BY <2>1, <3>1, <1>1, <1>3, <1>7 DEF WalkInv, Unrepeated
  <2>2. CASE i \notin 1..m
    <3>1. i - m \in 1..n /\ i = m + (i - m) BY <2>2, <1>3
    <3>2. j \notin 1..m BY <3>1, <1>3, <1>4, <1>5, <1>7
    <3>3. j - m \in 1..n /\ j = m + (j - m) BY <3>2, <1>3
    <3>4. stdFiles[i - m].path = stdFiles[j - m].path
      <4>1. AllFiles[i] = stdFiles[i - m] BY <3>1, <1>3
      <4>2. AllFiles[j] = stdFiles[j - m] BY <3>3, <1>3
      <4> QED BY <4>1, <4>2, <1>7
    <3>5. i - m = j - m BY <3>1, <3>3, <3>4, <1>1 DEF WalkInv, Unrepeated
    <3> QED BY <3>1, <3>3, <3>5
  <2> QED BY <2>1, <2>2
<1>8. ASSUME NEW x \in visited PROVE \E i \in 1..(m + n) : AllFiles[i].path = x
  <2>1. (\E i \in 1..m : files[i].path = x) \/ (\E i \in 1..n : stdFiles[i].path = x)
    BY <1>1 DEF WalkInv, VisitedLoaded, IsLoaded
  <2>2. CASE \E i \in 1..m : files[i].path = x BY <2>2, <1>3
  <2>3. CASE \E i \in 1..n : stdFiles[i].path = x
    <3>1. PICK i \in 1..n : stdFiles[i].path = x BY <2>3
    <3>2. m + i \in 1..(m + n) /\ AllFiles[m + i] = stdFiles[i] BY <1>3
    <3> QED BY <3>1, <3>2
  <2> QED BY <2>1, <2>2, <2>3
<1>9. ASSUME NEW i \in 1..(m + n), AllFiles[i].path \notin Path
      PROVE  \E s \in 1..n : AllFiles[i] = stdFiles[s]
  <2>1. i \notin 1..m BY <1>3, <1>4, <1>9
  <2>2. i - m \in 1..n /\ i = m + (i - m) BY <2>1, <1>3
  <2>3. AllFiles[i] = stdFiles[i - m] BY <2>2, <1>3
  <2> QED BY <2>2, <2>3
<1>10. \A i \in DOMAIN AllFiles : AllFiles[i].path \notin Path =>
          \E s \in DOMAIN stdFiles : AllFiles[i] = stdFiles[s]
  BY <1>1, <1>2, <1>9
<1>11. DOMAIN files = 1..m /\ DOMAIN AllFiles = 1..(m + n) BY <1>1, <1>2
<1> QED BY <1>3, <1>6, <1>7, <1>8, <1>10, <1>11

\* The file found under the target of an import is the one it names, or the source
\* that another import of the project selected first.
LEMMA TargetNamed ==
  ASSUME WalkInv, current = <<>>, files' = AllFiles, lib' = lib,
         NEW imp, WalkedImport(imp), NEW at \in DOMAIN AllFiles, NEW f,
         f = AllFiles[at], f.path = Target(imp)
  PROVE  Names(imp, f)' \/ OtherVariant(imp, f)'
<1>1. imp \in Known BY DEF WalkInv, NoneBad
<1>2. CASE imp.kind = "file" BY <1>2 DEF Names, Target
<1>3. CASE imp.kind = "std" /\ lib BY <1>3 DEF Names, Target
<1>4. CASE imp.kind = "std" /\ ~lib
  <2>1. imp.mod \in StdModule /\ f.path = Virtual(imp.mod) /\ f.path \notin Path
    BY <1>1, <1>4, LoaderAssumption DEF Known, Target
  <2>2. PICK s \in DOMAIN stdFiles : f = stdFiles[s] BY <2>1, AllFilesOnce
  <2>3. PICK m \in StdModule : f.path = Virtual(m) /\ WalkedImport(StdImport(m, f.variant))
    BY <2>2 DEF WalkInv, SourcesSelected
  <2>4. m = imp.mod BY <2>1, <2>3 DEF Virtual
  <2>5. CASE f.variant = imp.variant BY <1>4, <2>1, <2>5 DEF Names
  <2>6. CASE f.variant # imp.variant
    <3>1. PICK v : v = f.variant OBVIOUS
    <3>2. WalkedImport(StdImport(imp.mod, v)) BY <2>3, <2>4, <3>1
    <3>3. v \in StdVariant
      <4>1. StdImport(imp.mod, v) \in Known BY <3>2 DEF WalkInv, NoneBad
      <4> QED BY <4>1 DEF Known, StdImport
    <3>4. PICK i \in DOMAIN files :
            \E k \in DOMAIN files[i].content.imports :
               files[i].content.imports[k] = StdImport(imp.mod, v)
      BY <3>2 DEF WalkedImport
    <3>5. files[i].path \in Path
      <4>1. files[i] \in Loaded BY LenProperties, ElementOfSeq DEF WalkInv, WalkTyped
      <4> QED BY <4>1 DEF Loaded
    <3>6. i \in DOMAIN AllFiles /\ AllFiles[i] = files[i] BY AllFilesOnce
    <3>7. Declared(StdImport(imp.mod, v))' BY <3>4, <3>5, <3>6 DEF Declared, StdImport
    <3>8. Names(StdImport(imp.mod, v), f)' BY <1>4, <2>1, <3>1 DEF Names, StdImport
    <3> QED BY <1>4, <2>6, <3>1, <3>3, <3>7, <3>8 DEF OtherVariant
  <2> QED BY <2>5, <2>6
<1> QED BY <1>1, <1>2, <1>3, <1>4 DEF Known

\* Each import that was remembered is linked to the one place of its target.
LEMMA ResolveInv == ASSUME LoaderInv, Resolve, disk' = disk PROVE LoaderInv'
<1> DEFINE target(k) == (CHOOSE e \in pending : <<e[1], e[2]>> = k)[3]
           places(k) == {i \in DOMAIN AllFiles : AllFiles[i].path = target(k)}
           place(k) == IF places(k) = {} THEN 0
                       ELSE CHOOSE i \in places(k) : \A j \in places(k) : j <= i
<1>1. /\ WalkInv /\ current = <<>> /\ queue = <<>> /\ load' = "ok" /\ files' = AllFiles
      /\ lib' = lib
      /\ links' = [k \in {<<e[1], e[2]>> : e \in pending} |-> place(k)]
  BY DEF Resolve, Between, Walking, LoaderInv
<1>2. files # <<>> /\ files[1].path = Entry
  <2>1. queue # <<Entry>> BY <1>1
  <2> QED BY <2>1, <1>1 DEF WalkInv, EntryFirst
<1>3. 1 \in DOMAIN files BY <1>1, <1>2, EmptySeq, LenProperties DEF WalkInv, WalkTyped
<1>4. \A e \in pending : \E i \in DOMAIN AllFiles : AllFiles[i].path = e[3]
  <2>1. \A e \in pending : e[3] \in visited
    <3>1. DOMAIN queue = {} BY <1>1
    <3> QED BY <3>1, <1>1 DEF WalkInv, TargetsMet
  <2> QED BY <2>1, <1>1, AllFilesOnce
<1>5. ASSUME NEW i \in DOMAIN AllFiles, AllFiles[i].path \in Path,
             NEW k \in DOMAIN AllFiles[i].content.imports
      PROVE  /\ <<i, k>> \in DOMAIN links' /\ links'[<<i, k>>] \in DOMAIN AllFiles
             /\ AllFiles[links'[<<i, k>>]].path = Target(AllFiles[i].content.imports[k])
  <2> DEFINE e == Noted(i, AllFiles[i].content.imports, k)
  <2>1. i \in DOMAIN files /\ AllFiles[i] = files[i] BY <1>1, <1>5, AllFilesOnce
  <2>2. e \in pending BY <2>1, <1>1, <1>5 DEF WalkInv, ImportsNoted
  <2>3. e[1] = i /\ e[2] = k /\ e[3] = Target(AllFiles[i].content.imports[k]) BY DEF Noted
  <2>4. ASSUME NEW f \in pending, <<f[1], f[2]>> = <<i, k>> PROVE f = e
    <3>1. PICK a \in DOMAIN files : \E b \in DOMAIN files[a].content.imports :
                 f = Noted(a, files[a].content.imports, b)
      BY <1>1 DEF WalkInv, OnlyImports
    <3>2. PICK b \in DOMAIN files[a].content.imports : f = Noted(a, files[a].content.imports, b)
      BY <3>1
    <3>3. f[1] = a /\ f[2] = b BY <3>2 DEF Noted
    <3>4. a = i /\ b = k BY <2>4, <3>3
    <3> QED BY <3>2, <3>4, <2>1
  <2> HIDE DEF e
  <2>5. target(<<i, k>>) = e[3]
    <3>1. \E f \in pending : <<f[1], f[2]>> = <<i, k>> BY <2>2, <2>3
    <3>2. (CHOOSE f \in pending : <<f[1], f[2]>> = <<i, k>>) = e BY <3>1, <2>4
    <3> QED BY <3>2
  <2>6. PICK l \in DOMAIN AllFiles : AllFiles[l].path = e[3] BY <2>2, <1>4
  <2>7. places(<<i, k>>) = {l}
    <3> HIDE DEF target
    <3>1. \A j \in DOMAIN AllFiles : AllFiles[j].path = e[3] => j = l
      BY <2>6, <1>1, AllFilesOnce
    <3> QED BY <2>5, <2>6, <3>1
  <2>8. l \in Nat BY <1>1, AllFilesOnce
  <2>9. place(<<i, k>>) = l BY <2>7, <2>8
  <2>10. <<i, k>> \in {<<f[1], f[2]>> : f \in pending} BY <2>2, <2>3
  <2> HIDE DEF place
  <2>11. <<i, k>> \in DOMAIN links' /\ links'[<<i, k>>] = l BY <1>1, <2>9, <2>10
  <2> QED BY <2>3, <2>6, <2>11
<1>6. AllFiles[1].path = Entry BY <1>1, <1>2, <1>3, AllFilesOnce
<1>7. \A i, j \in DOMAIN AllFiles : AllFiles[i].path = AllFiles[j].path => i = j
  BY <1>1, AllFilesOnce
<1> HIDE DEF place
<1>8. load' = "ok" /\ files' = AllFiles /\ lib' = lib BY <1>1
<1>10. Linked'
  <2> SUFFICES ASSUME NEW i \in DOMAIN files', files'[i].path \in Path,
                      NEW k \in DOMAIN files'[i].content.imports
               PROVE  /\ <<i, k>> \in DOMAIN links' /\ links'[<<i, k>>] \in DOMAIN files'
                      /\ \/ Names(files[i].content.imports[k], files[links[<<i, k>>]])'
                         \/ OtherVariant(files[i].content.imports[k], files[links[<<i, k>>]])'
    BY <1>6, <1>7, <1>8 DEF Linked
  <2>1. /\ <<i, k>> \in DOMAIN links' /\ links'[<<i, k>>] \in DOMAIN AllFiles
        /\ AllFiles[links'[<<i, k>>]].path = Target(AllFiles[i].content.imports[k])
    BY <1>5, <1>8
  <2>2. i \in DOMAIN files /\ AllFiles[i] = files[i] BY <1>1, <1>8, AllFilesOnce
  <2>3. PICK imp, at, f : /\ imp = AllFiles[i].content.imports[k] /\ at = links'[<<i, k>>]
                          /\ f = AllFiles[at]
    OBVIOUS
  <2>4. WalkedImport(imp) BY <1>8, <2>2, <2>3 DEF WalkedImport
  <2>5. Names(imp, f)' \/ OtherVariant(imp, f)'
    BY <1>1, <1>8, <2>1, <2>3, <2>4, TargetNamed
  <2>6. imp = files'[i].content.imports[k] /\ f = files'[links'[<<i, k>>]] BY <1>8, <2>3
  <2>7. Names(imp, f)' => Names(files[i].content.imports[k], files[links[<<i, k>>]])'
    BY <2>6 DEF Names
  <2>8. OtherVariant(imp, f)' => OtherVariant(files[i].content.imports[k], files[links[<<i, k>>]])'
    BY <2>6 DEF OtherVariant, Names
  <2> QED BY <1>8, <2>1, <2>5, <2>7, <2>8
<1> QED BY <1>8, <1>10 DEF LoaderInv, DiskTyped, Walking

\* Every step of the loader keeps the invariant.
LEMMA LoaderStepInv == ASSUME LoaderInv, LoaderStep, disk' = disk PROVE LoaderInv'
BY SkipVisitedInv, ParseFileInv, ImportFileInv, ImportStdInv, PushFileInv, ResolveInv
DEF LoaderStep

\* The disk may change at any moment; what was loaded is what was read.
LEMMA OnlyDisk ==
  ASSUME LoaderInv, UNCHANGED loaderVars, disk' \in [Path -> File \union {Absent}]
  PROVE  LoaderInv'
<1>1. WalkInv => WalkInv'
  BY DEF WalkInv, WalkTyped, Unrepeated, VisitedLoaded, IsLoaded, EntryFirst, ImportsNoted,
         OnlyImports, TargetsMet, SourcesSelected, NoneBad, WalkedImport, Noted, Target, Walked,
         Slot, loaderVars
<1>2. ASSUME Linked PROVE Linked'
  <2>1. ASSUME load = "ok", NEW i \in DOMAIN files, files[i].path \in Path,
               NEW k \in DOMAIN files[i].content.imports
        PROVE  /\ <<i, k>> \in DOMAIN links' /\ links'[<<i, k>>] \in DOMAIN files'
               /\ \/ Names(files[i].content.imports[k], files[links[<<i, k>>]])'
                  \/ OtherVariant(files[i].content.imports[k], files[links[<<i, k>>]])'
    <3>1. PICK imp, at : imp = files[i].content.imports[k] /\ at = links[<<i, k>>] OBVIOUS
    <3>2. /\ <<i, k>> \in DOMAIN links /\ at \in DOMAIN files
          /\ Names(imp, files[at]) \/ OtherVariant(imp, files[at])
      BY <1>2, <2>1, <3>1 DEF Linked
    <3>3. PICK f : f = files[at] OBVIOUS
    <3>4. Names(imp, f) => Names(imp, f)' BY DEF Names, loaderVars
    <3>5. OtherVariant(imp, f) => OtherVariant(imp, f)'
      BY DEF OtherVariant, Names, Declared, loaderVars
    <3>6. UNCHANGED <<files, links>> BY DEF loaderVars
    <3>7. imp = files'[i].content.imports[k] /\ f = files'[links'[<<i, k>>]] BY <3>1, <3>3, <3>6
    <3>8. Names(imp, f)' => Names(files[i].content.imports[k], files[links[<<i, k>>]])'
      BY <3>7 DEF Names
    <3>9. OtherVariant(imp, f)'
            => OtherVariant(files[i].content.imports[k], files[links[<<i, k>>]])'
      BY <3>7 DEF OtherVariant, Names
    <3> QED BY <3>1, <3>2, <3>3, <3>4, <3>5, <3>6, <3>8, <3>9
  <2> QED BY <1>2, <2>1 DEF Linked, loaderVars
<1> QED BY <1>1, <1>2 DEF LoaderInv, DiskTyped, Walking, loaderVars

\* After a pass the command forgets how it went.
LEMMA ReconcileLoader == ASSUME LoaderInv, Reconcile PROVE LoaderInv'
BY DEF Reconcile, LoaderInv, DiskTyped, Linked, Walking

\* A save of any file, at any moment, keeps the loader's invariant.
LEMMA SaveLoader == ASSUME LoaderInv, NEW p \in Path, Save(p) PROVE LoaderInv'
<1>1. PICK c \in Content(p) : disk' = [disk EXCEPT ![p] = c] BY DEF Save
<1>2. c \in File \union {Absent} BY <1>1, CheckWatchAssumption
<1>3. disk' \in [Path -> File \union {Absent}] BY <1>1, <1>2 DEF LoaderInv, DiskTyped
<1>4. UNCHANGED loaderVars BY DEF Save
<1> QED BY <1>3, <1>4, OnlyDisk

\* A pass begins with the loader's invariant established afresh.
LEMMA StartPassLoader == ASSUME LoaderInv, StartPass PROVE LoaderInv'
<1>1. disk' = disk BY DEF StartPass
<1>2. CASE ~disk[Toml].ok BY <1>1, <1>2, FailInv DEF StartPass
<1>3. CASE ~~disk[Toml].ok BY <1>1, <1>3, BeginInv DEF StartPass
<1> QED BY <1>2, <1>3

\* The loader's invariant holds through every step of the command and the user.
LEMMA LoaderAlways == Spec => []LoaderInv
<1>1. Init => LoaderInv
  BY CheckWatchAssumption DEF Init, LoaderInit, LoaderInv, DiskTyped, Linked, Walking
<1>2. LoaderInv /\ [Next]_vars => LoaderInv'
  <2> SUFFICES ASSUME LoaderInv, [Next]_vars PROVE LoaderInv' OBVIOUS
  <2>1. CASE StartPass BY <2>1, StartPassLoader
  <2>2. CASE PassStep BY <2>2, LoaderStepInv DEF PassStep
  <2>3. CASE Reconcile BY <2>3, ReconcileLoader
  <2>4. CASE EndPass \/ Recv \/ Drain \/ Quiet \/ UNCHANGED vars
    <3>1. UNCHANGED <<loaderVars, disk>> BY <2>4 DEF EndPass, Recv, Drain, Quiet, vars
    <3> QED BY <3>1, OnlyDisk DEF LoaderInv, DiskTyped
  <2>5. CASE \E p \in Path : Save(p) BY <2>5, SaveLoader
  <2> QED BY <2>1, <2>2, <2>3, <2>4, <2>5 DEF Next, Program
<1> QED BY <1>1, <1>2, PTL DEF Spec

\* A project that loads is closed and linked, whatever the imports and whatever
\* the user does to the disk meanwhile: the entry first, no file twice, and each
\* import linked to the file or to the embedded source it names, except where the
\* project imports the other variant of that module too.
THEOREM ProjectLinked == Spec => []Linked
<1>1. LoaderInv => Linked BY DEF LoaderInv
<1> QED BY <1>1, LoaderAlways, PTL
-----------------------------------------------------------------------------
\* A step of the loader looks at paths of the disk only.
LEMMA LooksTyped == ASSUME LoaderInv, Walking PROVE Looks \subseteq Path
<1>1. WalkInv BY DEF LoaderInv
<1>2. CASE current = <<>> /\ queue # <<>>
  <2>1. Top \in Path BY <1>1, <1>2, QueuePopped DEF WalkInv, WalkTyped
  <2> QED BY <1>2, <2>1 DEF Looks
<1>3. CASE ~(current = <<>> /\ queue # <<>>) BY <1>3 DEF Looks
<1> QED BY <1>2, <1>3

\* Taking an event from the channel moves what it announces into the hit.
LEMMA EventTaken ==
  ASSUME channel \in Seq(BOOLEAN), channel # <<>>
  PROVE  /\ Head(channel) \in BOOLEAN /\ Tail(channel) \in Seq(BOOLEAN)
         /\ (\E i \in DOMAIN channel : channel[i])
              => Head(channel) \/ \E i \in DOMAIN Tail(channel) : Tail(channel)[i]
<1>1. /\ Head(channel) \in BOOLEAN /\ Tail(channel) \in Seq(BOOLEAN)
      /\ Len(Tail(channel)) = Len(channel) - 1
      /\ \A i \in 1..Len(Tail(channel)) : Tail(channel)[i] = channel[i + 1]
  BY HeadTailProperties
<1>2. /\ Len(channel) \in Nat \ {0} /\ DOMAIN channel = 1..Len(channel)
      /\ DOMAIN Tail(channel) = 1..(Len(channel) - 1) /\ Head(channel) = channel[1]
  BY <1>1, EmptySeq, LenProperties
<1>3. ASSUME NEW i \in DOMAIN channel, channel[i]
      PROVE  Head(channel) \/ \E j \in DOMAIN Tail(channel) : Tail(channel)[j]
  <2>1. CASE i = 1 BY <2>1, <1>2, <1>3
  <2>2. CASE i # 1
    <3>1. i - 1 \in 1..Len(Tail(channel)) /\ (i - 1) + 1 = i BY <2>2, <1>1, <1>2
    <3>2. Tail(channel)[i - 1] = channel[i] BY <3>1, <1>1
    <3> QED BY <3>1, <3>2, <1>1, <1>2, <1>3
  <2> QED BY <2>1, <2>2
<1> QED BY <1>1, <1>3

\* The events one save produces, one or two, are a sequence of flags.
LEMMA BurstTyped ==
  ASSUME NEW b \in BOOLEAN
  PROVE  <<b>> \in Seq(BOOLEAN) /\ <<FALSE, b>> \in Seq(BOOLEAN) /\ <<b, FALSE>> \in Seq(BOOLEAN)
OBVIOUS

\* What is announced stays so when more events follow; a burst that says true
\* announces by itself.
LEMMA EventsFollow ==
  ASSUME channel \in Seq(BOOLEAN), NEW burst \in Seq(BOOLEAN)
  PROVE  /\ channel \o burst \in Seq(BOOLEAN)
         /\ (\E i \in DOMAIN channel : channel[i])
              => \E i \in DOMAIN (channel \o burst) : (channel \o burst)[i]
         /\ (\E i \in DOMAIN burst : burst[i])
              => \E i \in DOMAIN (channel \o burst) : (channel \o burst)[i]
<1> DEFINE both == channel \o burst
<1>1. /\ Len(channel) \in Nat /\ DOMAIN channel = 1..Len(channel)
      /\ Len(burst) \in Nat /\ DOMAIN burst = 1..Len(burst)
  BY LenProperties
<1>2. /\ both \in Seq(BOOLEAN)
      /\ DOMAIN both = 1..(Len(channel) + Len(burst))
      /\ \A i \in 1..(Len(channel) + Len(burst)) :
           both[i] = IF i <= Len(channel) THEN channel[i] ELSE burst[i - Len(channel)]
  BY <1>1, ConcatProperties, LenProperties
<1> HIDE DEF both
<1>3. ASSUME NEW i \in DOMAIN channel, channel[i] PROVE \E j \in DOMAIN both : both[j]
  <2>1. i \in DOMAIN both /\ both[i] = channel[i] BY <1>1, <1>2
  <2> QED BY <2>1, <1>3
<1>4. ASSUME NEW i \in DOMAIN burst, burst[i] PROVE \E j \in DOMAIN both : both[j]
  <2>1. Len(channel) + i \in DOMAIN both /\ both[Len(channel) + i] = burst[i] BY <1>1, <1>2
  <2> QED BY <2>1, <1>4
<1> QED BY <1>2, <1>3, <1>4 DEF both

\* A new pass has looked at nothing but mimz.toml.
LEMMA StartPassWatch == ASSUME WatchInv, StartPass PROVE WatchInv'
<1>1. /\ pc = "load" /\ looked' = {Toml} /\ seen' = [seen EXCEPT ![Toml] = version[Toml]]
      /\ UNCHANGED <<watchVars, version, excused, project>>
  BY DEF StartPass
<1>2. Toml \in Path BY CheckWatchAssumption
<1>3. WatchTyped' /\ ProjectWatched'
  BY <1>1, <1>2 DEF WatchInv, WatchTyped, ProjectWatched, watchVars
<1>4. Heard' BY <1>1 DEF Heard, IsMimz
<1> QED BY <1>3, <1>4 DEF WatchInv

\* What a step of a pass looks at is as it was seen.
LEMMA PassStepWatch == ASSUME LoaderInv, WatchInv, PassStep PROVE WatchInv'
<1>1. /\ pc = "load" /\ Walking
      /\ looked' = looked \union Looks
      /\ seen' = [p \in Path |-> IF p \in Looks THEN version[p] ELSE seen[p]]
      /\ excused' = excused \ Looks
      /\ UNCHANGED <<watchVars, version, project>>
  BY DEF PassStep, LoaderStep, SkipVisited, ParseFile, ImportFile, ImportStd, PushFile, Resolve,
         Between, MoreImports
<1>2. Looks \subseteq Path BY <1>1, LooksTyped
<1>3. WatchTyped' /\ ProjectWatched'
  BY <1>1, <1>2 DEF WatchInv, WatchTyped, ProjectWatched, watchVars
<1>4. Heard'
  <2>1. \A p \in looked : IsMimz(p) => seen[p] = version[p] \/ p \in excused \/ Announced
    BY <1>1 DEF WatchInv, Heard, Walking
  <2>2. Announced' = Announced BY <1>1 DEF Announced, watchVars
  <2> SUFFICES ASSUME NEW p \in looked', IsMimz(p)
               PROVE  seen'[p] = version'[p] \/ p \in excused' \/ Announced'
    BY DEF Heard, IsMimz
  <2>3. p \in Path BY <1>1, <1>2 DEF WatchInv, WatchTyped
  <2>4. CASE p \in Looks BY <2>3, <2>4, <1>1
  <2>5. CASE p \notin Looks
    <3>1. seen'[p] = seen[p] /\ p \in looked BY <2>3, <2>5, <1>1
    <3> QED BY <3>1, <2>1, <2>2, <2>5, <1>1
  <2> QED BY <2>4, <2>5
<1> QED BY <1>3, <1>4 DEF WatchInv

\* Ending a pass, which records the directories to watch, keeps the watch's
\* invariant.
LEMMA EndPassWatch == ASSUME WatchInv, EndPass PROVE WatchInv'
<1>1. /\ pc = "load" /\ load \in {"ok", "io", "source"} /\ load' = load /\ files' = files
      /\ pass' = [dirs |-> IF load = "ok" THEN {DirOf(files[i].path) : i \in DOMAIN files}
                           ELSE {DirOf(Entry)},
                  loaded |-> load = "ok"]
      /\ pc' = "reconcile"
      /\ UNCHANGED <<watched, channel, hit, version, seen, looked, project, excused>>
  BY DEF EndPass, loaderVars, history
<1>2. /\ pass'.loaded = (load = "ok")
      /\ pass'.dirs = IF load = "ok" THEN {DirOf(files[i].path) : i \in DOMAIN files}
                      ELSE {DirOf(Entry)}
  BY <1>1
<1>3. WatchTyped' /\ ProjectWatched'
  <2>1. pass'.loaded <=> load' = "ok" BY <1>1, <1>2, Zenon
  <2>2. pass'.dirs = IF load' = "ok" THEN {DirOf(files'[i].path) : i \in DOMAIN files'}
                     ELSE {DirOf(Entry)}
    BY <1>1, <1>2
  <2> QED BY <1>1, <2>1, <2>2 DEF WatchInv, WatchTyped, ProjectWatched
<1>4. Heard' BY <1>1 DEF WatchInv, Heard, Announced, IsMimz
<1> QED BY <1>3, <1>4 DEF WatchInv

\* The directories watched from now on are those of the project, or hold them.
LEMMA ReconcileWatch == ASSUME WatchInv, Reconcile PROVE WatchInv'
<1>1. /\ pc = "reconcile" /\ watched' = (IF pass.loaded THEN pass.dirs ELSE watched \union pass.dirs)
      /\ pc' = "recv" /\ load' = "idle"
      /\ project' = IF load = "ok" THEN {DirOf(files[i].path) : i \in DOMAIN files}
                    ELSE project \union {DirOf(Entry)}
      /\ UNCHANGED <<channel, hit, version, seen, looked, excused>>
  BY DEF Reconcile, Pruned
<1>2. WatchTyped' BY <1>1 DEF WatchInv, WatchTyped
<1>3. ProjectWatched' BY <1>1 DEF WatchInv, WatchTyped, ProjectWatched
<1>4. Heard' BY <1>1 DEF WatchInv, Heard, Announced, IsMimz
<1> QED BY <1>2, <1>3, <1>4 DEF WatchInv

\* Taking an event, awaited or drained, keeps the watch's invariant.
LEMMA TakeEventWatch == ASSUME WatchInv, Recv \/ Drain PROVE WatchInv'
<1>1. /\ pc \in {"recv", "debounce"} /\ channel # <<>> /\ channel' = Tail(channel)
      /\ pc' = "debounce" /\ load = "idle" /\ load' = load /\ files' = files
      /\ UNCHANGED <<watched, pass, version, seen, looked, project, excused>>
  BY DEF WatchInv, WatchTyped, Recv, Drain, loaderVars, history
<1>2. channel \in Seq(BOOLEAN) BY DEF WatchInv, WatchTyped
<1>3. /\ Head(channel) \in BOOLEAN /\ channel' \in Seq(BOOLEAN)
      /\ (\E i \in DOMAIN channel : channel[i])
           => Head(channel) \/ \E i \in DOMAIN channel' : channel'[i]
  BY <1>1, <1>2, EventTaken
<1>4. /\ Recv => hit' = Head(channel) /\ pc = "recv"
      /\ Drain => hit' = (hit \/ Head(channel))
  BY DEF Recv, Drain, Drained
<1>5. hit \in BOOLEAN BY DEF WatchInv, WatchTyped
<1>6. hit' \in BOOLEAN BY <1>3, <1>4, <1>5
<1>7. WatchTyped' /\ ProjectWatched' BY <1>1, <1>3, <1>6 DEF WatchInv, WatchTyped, ProjectWatched
<1>8. Announced => Announced' BY <1>1, <1>3, <1>4 DEF Announced
<1>9. Heard' BY <1>1, <1>8 DEF WatchInv, Heard, IsMimz
<1> QED BY <1>7, <1>9 DEF WatchInv

\* The burst is over: if it announced anything, the next pass is about to begin.
LEMMA QuietWatch == ASSUME WatchInv, Quiet PROVE WatchInv'
<1>1. /\ pc = "debounce" /\ channel = <<>> /\ pc' = (IF hit THEN "load" ELSE "recv")
      /\ load = "idle" /\ load' = load /\ files' = files
      /\ UNCHANGED <<watched, channel, hit, pass, version, seen, looked, project, excused>>
  BY DEF WatchInv, WatchTyped, Quiet, AfterBurst, loaderVars, history
<1>2. WatchTyped' /\ ProjectWatched' BY <1>1 DEF WatchInv, WatchTyped, ProjectWatched
<1>3. DOMAIN channel = {} BY <1>1
<1>4. CASE hit
  <2>1. pc' = "load" /\ load' = "idle" BY <1>1, <1>4, Zenon
  <2> QED BY <2>1, <1>2 DEF Heard, WatchInv
<1>5. CASE ~hit
  <2>1. ~Announced BY <1>3, <1>5 DEF Announced
  <2>2. \A p \in looked : IsMimz(p) => seen[p] = version[p] \/ p \in excused
    BY <2>1, <1>1 DEF WatchInv, Heard
  <2>3. Heard' BY <2>2, <1>1 DEF Heard, IsMimz
  <2> QED BY <2>3, <1>2 DEF WatchInv
<1> QED BY <1>4, <1>5

\* A change in a directory of the project makes an event, and one elsewhere is
\* excused until a pass looks at the path.
LEMMA SaveWatch == ASSUME WatchInv, NEW p \in Path, Save(p) PROVE WatchInv'
<1>1. /\ version' = [version EXCEPT ![p] = @ + 1]
      /\ excused' = IF DirOf(p) \in project THEN excused \ {p} ELSE excused \union {p}
      /\ UNCHANGED <<loaderVars, pc, watched, hit, pass, seen, looked, project>>
  BY DEF Save
<1>2. /\ channel' \in Seq(BOOLEAN)
      /\ (\E i \in DOMAIN channel : channel[i]) => \E i \in DOMAIN channel' : channel'[i]
      /\ DirOf(p) \in watched /\ IsMimz(p) => \E i \in DOMAIN channel' : channel'[i]
  <2>1. channel \in Seq(BOOLEAN) BY DEF WatchInv, WatchTyped
  <2>2. CASE DirOf(p) \notin watched BY <2>1, <2>2 DEF Save
  <2>3. CASE DirOf(p) \in watched
    <3>1. PICK burst \in {<<IsMimz(p)>>, <<FALSE, IsMimz(p)>>, <<IsMimz(p), FALSE>>} :
            channel' = channel \o burst
      BY <2>3 DEF Save
    <3>2. IsMimz(p) \in BOOLEAN BY DEF IsMimz
    <3>3. burst \in Seq(BOOLEAN) BY <3>1, <3>2, BurstTyped
    <3>4. IsMimz(p) => \E i \in DOMAIN burst : burst[i]
      <4>1. CASE burst = <<IsMimz(p)>>
        <5>1. 1 \in DOMAIN burst /\ burst[1] = IsMimz(p) BY <4>1
        <5> QED BY <5>1
      <4>2. CASE burst = <<FALSE, IsMimz(p)>>
        <5>1. 2 \in DOMAIN burst /\ burst[2] = IsMimz(p) BY <4>2
        <5> QED BY <5>1
      <4>3. CASE burst = <<IsMimz(p), FALSE>>
        <5>1. 1 \in DOMAIN burst /\ burst[1] = IsMimz(p) BY <4>3
        <5> QED BY <5>1
      <4> QED BY <3>1, <4>1, <4>2, <4>3
    <3> QED BY <2>1, <3>1, <3>3, <3>4, EventsFollow
  <2> QED BY <2>2, <2>3
<1>3. UNCHANGED <<load, files>> BY <1>1 DEF loaderVars
<1>4. WatchTyped' /\ ProjectWatched'
  BY <1>1, <1>2, <1>3 DEF WatchInv, WatchTyped, ProjectWatched
<1>5. Announced => Announced' BY <1>1, <1>2 DEF Announced
<1>6. DirOf(p) \in project /\ IsMimz(p) => Announced'
  BY <1>1, <1>2 DEF Announced, WatchInv, ProjectWatched
<1>7. Heard'
  <2> SUFFICES ASSUME ~(pc = "load" /\ load = "idle"), NEW q \in looked, IsMimz(q)
               PROVE  seen[q] = version'[q] \/ q \in excused' \/ Announced'
    BY <1>1, <1>3 DEF Heard, IsMimz
  <2>1. q \in Path /\ (seen[q] = version[q] \/ q \in excused \/ Announced)
    BY DEF WatchInv, WatchTyped, Heard
  <2>2. CASE q = p BY <2>2, <1>1, <1>6
  <2>3. CASE q # p
    <3>1. version'[q] = version[q] BY <2>1, <2>3, <1>1 DEF WatchInv, WatchTyped
    <3>2. q \in excused => q \in excused' BY <2>3, <1>1
    <3> QED BY <2>1, <3>1, <3>2, <1>5
  <2> QED BY <2>2, <2>3
<1> QED BY <1>4, <1>7 DEF WatchInv

\* The invariant of the events holds through every step of the command and the user.
LEMMA WatchAlways == Spec => []WatchInv
<1>1. Init => WatchInv
  <2> SUFFICES ASSUME Init PROVE WatchInv OBVIOUS
  <2>1. /\ pc = "load" /\ load = "idle" /\ channel = <<>> /\ hit = FALSE
        /\ version = [p \in Path |-> 0] /\ seen = version /\ looked = {} /\ project = {}
    BY DEF Init, LoaderInit
  <2>2. channel \in Seq(BOOLEAN) BY <2>1
  <2> QED BY <2>1, <2>2 DEF WatchInv, WatchTyped, ProjectWatched, Heard
<1>2. LoaderInv /\ WatchInv /\ [Next]_vars => WatchInv'
  <2> SUFFICES ASSUME LoaderInv, WatchInv, [Next]_vars PROVE WatchInv' OBVIOUS
  <2>1. CASE StartPass BY <2>1, StartPassWatch
  <2>2. CASE PassStep BY <2>2, PassStepWatch
  <2>3. CASE EndPass BY <2>3, EndPassWatch
  <2>4. CASE Reconcile BY <2>4, ReconcileWatch
  <2>5. CASE Recv \/ Drain BY <2>5, TakeEventWatch
  <2>6. CASE Quiet BY <2>6, QuietWatch
  <2>7. CASE \E p \in Path : Save(p) BY <2>7, SaveWatch
  <2>8. CASE UNCHANGED vars
    BY <2>8 DEF WatchInv, WatchTyped, ProjectWatched, Heard, Announced, IsMimz, vars, loaderVars,
         watchVars, history
  <2> QED BY <2>1, <2>2, <2>3, <2>4, <2>5, <2>6, <2>7, <2>8 DEF Next, Program
<1> QED BY <1>1, <1>2, LoaderAlways, PTL DEF Spec

\* Whatever the user saves and whenever, before, during or between the passes: a
\* command that waits has seen every .mimz file its last pass looked at as it is,
\* unless the file was changed outside of the directories of the project.
THEOREM RestIsFresh == Spec => []Fresh
<1>1. WatchInv => Fresh
  <2> SUFFICES ASSUME WatchInv, AtRest, NEW p \in looked, IsMimz(p)
               PROVE  seen[p] = version[p] \/ p \in excused
    BY DEF Fresh
  <2>1. pc = "recv" /\ channel = <<>> /\ DOMAIN channel = {} BY DEF AtRest
  <2>2. ~Announced BY <2>1 DEF Announced
  <2> QED BY <2>1, <2>2 DEF WatchInv, Heard
<1> QED BY <1>1, WatchAlways, PTL
=============================================================================
