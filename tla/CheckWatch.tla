------------------------------ MODULE CheckWatch ------------------------------
(****************************************************************************)
(* mimz check --watch (src/commands/check.rs): one pass over the project,   *)
(* the watched directories brought in line with it, then again for every    *)
(* burst of events that touches a .mimz file.                               *)
(*                                                                          *)
(* The operating system's watcher (the notify crate) is external: it sends  *)
(* one event or more for each change in a watched directory, in order, into *)
(* an unbounded channel.                                                    *)
(****************************************************************************)
EXTENDS Loader

CONSTANTS
  Dir,            \* the directories
  DirOf(_),       \* the directory of a path
  Toml,           \* the path of mimz.toml, no .mimz file
  Content(_),     \* what the user may save at a path, Absent among it
  InitialDisk,    \* the disks to begin with
  MaxSaves        \* bound on the user's changes

ASSUME CheckWatchAssumption ==
  /\ \A p \in Path : DirOf(p) \in Dir /\ Content(p) \subseteq File \union {Absent}
  /\ InitialDisk \subseteq [Path -> File \union {Absent}]
  /\ Toml \in Path \ {Entry}
  /\ MaxSaves \in Nat

VARIABLES
  pc,        \* "load", "reconcile", "recv", "debounce"
  watched,   \* the directories being watched
  channel,   \* events not yet received: whether each touches a .mimz file
  hit,       \* an event of this burst did
  pass,      \* what the pass returned: [dirs, loaded]
  saves,     \* changes so far
  version,   \* history: how often each path was changed
  seen,      \* history: the version of each path when this pass last looked at it
  looked,    \* history: the paths this pass read or asked for
  project,   \* history: the directories of the last project that loaded, and the entry's
  excused    \* history: paths changed outside of these, and not looked at since

watchVars == <<pc, watched, channel, hit, pass>>
history == <<version, seen, looked, project, excused>>
vars == <<disk, loaderVars, watchVars, saves, history>>

IsMimz(p) == p # Toml

Init ==
  /\ disk \in InitialDisk
  /\ LoaderInit
  /\ pc = "load" /\ watched = {} /\ channel = <<>> /\ hit = FALSE
  /\ pass = [dirs |-> {}, loaded |-> FALSE]
  /\ saves = 0 /\ version = [p \in Path |-> 0] /\ seen = version
  /\ looked = {} /\ project = {} /\ excused = {}

\* A pass begins; nothing is carried over from the last one.
StartPass ==
  /\ pc = "load" /\ load = "idle"
  /\ looked' = {Toml}
  /\ seen' = [seen EXCEPT ![Toml] = version[Toml]]
  /\ IF ~disk[Toml].ok
       THEN Fail("io")                \* resolve_lang or lib_std_dir returns an error
       ELSE Begin(disk[Toml].lib)
  /\ UNCHANGED <<disk, watchVars, saves, version, excused, project>>

\* The paths whose state a step of the loader observes: the file it reads, an import
\* that is missing, and one that is there and will be read.
Looks ==
  IF current = <<>> THEN (IF queue = <<>> THEN {} ELSE {Top}) \ visited
  ELSE IF ~MoreImports \/ Import.kind = "bad" THEN {}
  ELSE {p \in {Target(Import)} \intersect Path : p \notin visited \/ disk[p] = Absent}

PassStep ==
  /\ pc = "load" /\ LoaderStep
  /\ looked' = looked \union Looks
  /\ seen' = [p \in Path |-> IF p \in Looks THEN version[p] ELSE seen[p]]
  /\ excused' = excused \ Looks
  /\ UNCHANGED <<disk, watchVars, saves, version, project>>

\* The directories of the loaded files; before the project loads, the entry's own.
\* An embedded module has a path without a directory: dir_of gives ".".
EndPass ==
  /\ pc = "load" /\ load \in {"ok", "io", "source"}
  /\ pass' = [dirs |-> IF load = "ok" THEN {DirOf(files[i].path) : i \in DOMAIN files}
                       ELSE {DirOf(Entry)},
              loaded |-> load = "ok"]
  /\ pc' = "reconcile"
  /\ UNCHANGED <<disk, loaderVars, watched, channel, hit, saves, history>>

\* Fault: directories are dropped after a failed load too.
PrunedAlways == pass.dirs

Pruned == IF pass.loaded THEN pass.dirs ELSE watched \union pass.dirs

Reconcile ==
  /\ pc = "reconcile"
  /\ watched' = Pruned
  /\ pc' = "recv" /\ load' = "idle"
  /\ project' = IF load = "ok" THEN {DirOf(files[i].path) : i \in DOMAIN files}
                ELSE project \union {DirOf(Entry)}
  /\ UNCHANGED <<disk, queue, visited, files, stdFiles, pending, current, links, channel, hit,
                 lib, pass, saves, version, seen, looked, excused>>

Recv ==
  /\ pc = "recv" /\ channel # <<>>
  /\ hit' = Head(channel) /\ channel' = Tail(channel)
  /\ pc' = "debounce"
  /\ UNCHANGED <<disk, loaderVars, watched, pass, saves, history>>

Drained == hit \/ Head(channel)

Drain ==
  /\ pc = "debounce" /\ channel # <<>>
  /\ hit' = Drained /\ channel' = Tail(channel)
  /\ UNCHANGED <<disk, loaderVars, pc, watched, pass, saves, history>>

\* Fault: a burst about other files is waited for again.
AfterBurstStuck == IF hit THEN "load" ELSE "debounce"

AfterBurst == IF hit THEN "load" ELSE "recv"

\* 100 ms pass without an event: check again if the burst was about a .mimz file.
Quiet ==
  /\ pc = "debounce" /\ channel = <<>>
  /\ pc' = AfterBurst
  /\ UNCHANGED <<disk, loaderVars, watched, channel, hit, pass, saves, history>>

\* The user changes, creates or deletes a file.  An editor may write a temporary
\* file and rename it, which makes an event that is not about a .mimz file as well.
Save(p) ==
  /\ saves < MaxSaves
  /\ \E c \in Content(p) :
       /\ c # disk[p]
       /\ disk' = [disk EXCEPT ![p] = c]
  /\ saves' = saves + 1
  /\ version' = [version EXCEPT ![p] = @ + 1]
  /\ IF DirOf(p) \in watched
       THEN /\ \E burst \in {<<IsMimz(p)>>, <<FALSE, IsMimz(p)>>, <<IsMimz(p), FALSE>>} :
                 channel' = channel \o burst
       ELSE UNCHANGED channel
  /\ excused' = IF DirOf(p) \in project THEN excused \ {p} ELSE excused \union {p}
  /\ UNCHANGED <<loaderVars, pc, watched, hit, pass, seen, looked, project>>

Program == StartPass \/ PassStep \/ EndPass \/ Reconcile \/ Recv \/ Drain \/ Quiet

Next == Program \/ \E p \in Path : Save(p)

Spec == Init /\ [][Next]_vars

\* The process runs; the user owes it nothing.
FairSpec == Spec /\ WF_vars(Program)
-----------------------------------------------------------------------------
\* The command waits for the user.
AtRest == pc = "recv" /\ channel = <<>>

\* A command at rest has said the truth about the disk: each .mimz file its last
\* pass looked at is still what it was then, unless it was changed while it lay
\* outside of the directories of the last project that loaded.  For that the events
\* of a burst must be drained before a pass and never during one, every directory of
\* a loaded file must be watched, and none dropped that may hold the fix.
Fresh ==
  AtRest => \A p \in looked : IsMimz(p) => seen[p] = version[p] \/ p \in excused

\* A pass ends, whatever the imports; a save that is heard leads to another pass,
\* and the command always comes back to waiting.
Rests == []<>AtRest
=============================================================================
