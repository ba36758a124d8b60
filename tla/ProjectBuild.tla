----------------------------- MODULE ProjectBuild -----------------------------
(***************************************************************************)
(* wio project build (cli/project_commands.wio): whether an output is up   *)
(* to date, and the back end of the compiler (compiler.cpp) that makes it, *)
(* staged for a shared library and by ar for a static one, which a host    *)
(* program is then linked with. Several builds may run at once, on the     *)
(* same paths, while files are edited, added, moved in and removed; any    *)
(* build may fail or be killed between two file operations.                *)
(***************************************************************************)
EXTENDS Naturals, SequencesExt

CONSTANTS Tree,     \* Wio sources: their roots are looked at as directories
          Native,   \* native sources in the order of their listing, looked at one by one
          Builder,  \* runs of wio project build
          MaxEdits, MaxTime

ASSUME BuildAssumption ==
  /\ IsFiniteSet(Tree) /\ Native \in Seq(Range(Native)) /\ IsInjective(Native)
  /\ Tree \cap Range(Native) = {}
  /\ MaxEdits \in Nat \ {0} /\ MaxTime \in Nat \ {0}

Part == Tree \cup Range(Native)

VARIABLES
  target,       \* "shared", or "static" with a host program
  source,         \* per source: its version (0: not there) and its time
  rootTime,     \* time of the source roots' directories
  changedAt,    \* (history) when each source last changed, whatever its time says
  edits, ticks, \* number of changes, and the time
  cpp,          \* the generated C++ file: the set of it, or empty; see OpenCpp
  crossed,      \* (history) has a build opened it before another's compiler was done with it?
  objects,      \* the object files of a static library
  output, host, \* the library and the host program: the set of it, or empty
  build         \* per run: where it stands, what it has listed and what it has in hand

buildVars == <<target, source, rootTime, changedAt, edits, ticks, cpp, crossed, objects,
               output, host, build>>
cppVars == <<cpp, crossed>>
treeVars == <<target, source, rootTime, changedAt, edits, ticks>>

\* A run that has nothing in hand. What it holds later is what its next step writes: the
\* objects made so far, a library, or what the linker has read of one.
Waiting(place) == [at |-> place, natives |-> {}, listed |-> 0, held |-> <<>>]

BuildInit ==
  /\ target \in {"shared", "static"}
  /\ source = [p \in Part |-> [version |-> 1, time |-> 0]]
  /\ rootTime = 0
  /\ changedAt = [p \in Part |-> 0]
  /\ edits = 1 /\ ticks = 1
  /\ cpp = {} /\ crossed = FALSE /\ objects = <<>> /\ output = {} /\ host = {}
  /\ build = [b \in Builder |-> Waiting("idle")]

There(p) == source[p].version # 0
Listing == {n \in Range(Native) : There(n)}

\* An object is named <<p, n>> after the n-th source p of the command line; the generated
\* file is the 0-th. It remembers the version of p and when it was read, and whether all of
\* the generated file was there.
Number(p, natives) ==
  Cardinality({n \in natives :
    \E i, j \in DOMAIN Native : j <= i /\ Native[i] = p /\ Native[j] = n})
Compiled(p) == [version |-> source[p].version, since |-> ticks, whole |-> TRUE]
Torn == [version |-> 0, since |-> ticks, whole |-> FALSE]

\* What is written again replaces what was there.
Onto(new, old) ==
  [k \in DOMAIN new \cup DOMAIN old |-> IF k \in DOMAIN new THEN new[k] ELSE old[k]]

-----------------------------------------------------------------------------
(* OutputUpToDate. The time of a directory is the latest of everything     *)
(* below it, its own included.                                             *)

FilesOnly == 0   \* a variant: the directories' own times are not looked at
Directories == rootTime

OutputUpToDate(natives) ==
  \E o \in output :
    /\ Directories <= o.time
    /\ \A p \in Tree : There(p) => source[p].time <= o.time
    /\ \A n \in natives : There(n) /\ source[n].time <= o.time

HostUpToDate == \E o \in output, h \in host : o.time <= h.time

-----------------------------------------------------------------------------
(* A run of wio project build.                                             *)

Stands(b, place) == build[b].at = place
MoveOn(b, place) == build' = [build EXCEPT ![b].at = place]
Take(b, place, h) == build' = [build EXCEPT ![b].at = place, ![b].held = h]
Forget(b, place) == build' = [build EXCEPT ![b] = Waiting(place)]

\* ResolveInfo lists the native sources.
ResolveInfo(b) ==
  /\ Stands(b, "idle")
  /\ build' = [build EXCEPT ![b].at = "checking", ![b].natives = Listing, ![b].listed = ticks]
  /\ UNCHANGED <<treeVars, cppVars, objects, output, host>>

\* --rebuild compiles without a look.
CheckOutput(b) ==
  /\ Stands(b, "checking")
  /\ \/ MoveOn(b, "parsing")
     \/ OutputUpToDate(build[b].natives) /\ Forget(b, "built")
  /\ UNCHANGED <<treeVars, cppVars, objects, output, host>>

\* The front end reads the Wio sources ...
ReadSources(b) ==
  /\ Stands(b, "parsing")
  /\ Take(b, "generating", [k \in Tree \X {0} |-> Compiled(k[1])])
  /\ UNCHANGED <<treeVars, cppVars, objects, output, host>>

\* ... and the generated file goes where every build of the project writes it. It is opened,
\* which truncates it if it is there, ...
AtFile(d) == Stands(d, "overwriting")
OpenCpp(b) ==
  /\ Stands(b, "generating")
  /\ cpp' = {[unit |-> <<>>, text |-> "partial",
              hands |-> {b} \cup {d \in UNION {c.hands : c \in cpp} : AtFile(d)}]}
  /\ crossed' = (crossed \/ \E d \in Builder : AtFile(d) \/ Stands(d, "compiling"))
  /\ MoveOn(b, "overwriting")
  /\ UNCHANGED <<treeVars, objects, output, host>>

\* ... and then written. What several builds write at a time, each from its own beginning,
\* may be the text of the last one or a mixture; and what goes to a file that has been
\* removed meanwhile is lost with it.
TextOf(c, b) == IF c.hands = {b} THEN "whole" ELSE "mixed"
WriteCpp(b) ==
  /\ AtFile(b)
  /\ cpp' = {IF b \in c.hands THEN [c EXCEPT !.unit = build[b].held, !.text = TextOf(c, b)] ELSE c :
               c \in cpp}
  /\ MoveOn(b, "compiling")
  /\ UNCHANGED <<treeVars, crossed, objects, output, host>>

\* The back end reads it, and the native sources; for a static library it makes objects
\* whose names are those of every build. A part of the generated file may compile.
CompileSources(b) ==
  /\ Stands(b, "compiling")
  /\ \A n \in build[b].natives : There(n)
  /\ \E c \in cpp, whole \in BOOLEAN :
       /\ c.text = (IF whole THEN "whole" ELSE "partial") \/ c.text = "mixed"
       /\ LET natives == build[b].natives
              mine == [k \in {<<n, Number(n, natives)>> : n \in natives} |-> Compiled(k[1])]
              unit == Onto(mine, IF whole THEN c.unit ELSE [k \in Tree \X {0} |-> Torn])
          IN /\ Take(b, "writing", unit)
             /\ objects' = IF target = "static" THEN Onto(unit, objects) ELSE objects
  /\ UNCHANGED <<treeVars, cppVars, output, host>>

\* A shared library is linked to a staging file ...
LinkStaging(b) ==
  /\ Stands(b, "writing") /\ target = "shared"
  /\ LET unit == build[b].held
     IN Take(b, "replacing", [names |-> SetToSeq(DOMAIN unit), objs |-> unit,
                              time |-> ticks, listed |-> build[b].listed])
  /\ UNCHANGED <<treeVars, cppVars, objects, output, host>>

\* ... which keeps its time when it is renamed.
ReplaceOutput(b) ==
  /\ Stands(b, "replacing")
  /\ output' = {build[b].held}
  /\ Forget(b, "cleaning")
  /\ UNCHANGED <<treeVars, cppVars, objects, host>>

\* ar rcs replaces the members whose names it is given, appends others, and keeps the rest.
ArchiveObjects(b) ==
  /\ Stands(b, "writing") /\ target = "static"
  /\ LET given == [k \in DOMAIN build[b].held |-> objects[k]]
         Kept == UNION {Range(o.names) : o \in output}
         Before == IF output = {} THEN <<>> ELSE (CHOOSE o \in output : TRUE).names
         Objs == IF output = {} THEN <<>> ELSE (CHOOSE o \in output : TRUE).objs
     IN output' = {[names |-> Before \o SetToSeq(DOMAIN given \ Kept), objs |-> Onto(given, Objs),
                    time |-> ticks, listed |-> build[b].listed]}
  /\ Forget(b, "cleaning")
  /\ UNCHANGED <<treeVars, cppVars, objects, host>>

\* The generated file is removed, whoever wrote it, also after a failure.
RemoveCpp(b, place, next) ==
  /\ Stands(b, place)
  /\ cpp' = {}
  /\ Forget(b, next)
  /\ UNCHANGED <<treeVars, crossed, objects, output, host>>

CompileFails(b) ==
  \/ /\ Stands(b, "parsing") /\ Forget(b, "over")
     /\ UNCHANGED <<treeVars, cppVars, objects, output, host>>
  \/ \E place \in {"compiling", "writing", "replacing"} : RemoveCpp(b, place, "over")

\* The host program is linked when the library is newer, straight to its place.
CheckHost(b) ==
  /\ Stands(b, "built")
  /\ \/ target = "static" /\ MoveOn(b, "linking")
     \/ (target = "shared" \/ HostUpToDate) /\ Forget(b, "over")
  /\ UNCHANGED <<treeVars, cppVars, objects, output, host>>

\* The first member that has a symbol is taken.
FirstOf(o, p) == LET places == {i \in DOMAIN o.names : o.names[i][1] = p} IN
  IF places = {} THEN [version |-> 0, since |-> o.listed, whole |-> TRUE]
  ELSE o.objs[o.names[Min(places)]]

LinkHost(b) ==
  /\ Stands(b, "linking")
  /\ \E o \in output :
       Take(b, "linkwriting", [from |-> [p \in Part |-> FirstOf(o, p).version], since |-> ticks])
  /\ UNCHANGED <<treeVars, cppVars, objects, output, host>>

HostFile(b, whole) ==
  [from |-> build[b].held.from, since |-> build[b].held.since, time |-> ticks, whole |-> whole]

WriteHost(b) ==
  /\ Stands(b, "linkwriting")
  /\ \/ host' = {HostFile(b, TRUE)} /\ Forget(b, "over")
     \/ host' = {} /\ Forget(b, "over")   \* a linker that fails removes its output
  /\ UNCHANGED <<treeVars, cppVars, objects, output>>

\* No signal handler or journal: what is on the disk stays there, a program that was
\* being linked in part.
KillBuild(b) ==
  /\ ~Stands(b, "idle") /\ ~Stands(b, "over")
  /\ Forget(b, "over")
  /\ host' \in {host} \cup (IF Stands(b, "linkwriting") THEN {{HostFile(b, FALSE)}} ELSE {})
  /\ UNCHANGED <<treeVars, cppVars, objects, output>>

BuilderStep(b) ==
  \/ ResolveInfo(b) \/ CheckOutput(b) \/ ReadSources(b) \/ OpenCpp(b) \/ WriteCpp(b)
  \/ CompileSources(b) \/ LinkStaging(b) \/ ReplaceOutput(b) \/ ArchiveObjects(b)
  \/ RemoveCpp(b, "cleaning", "built") \/ CompileFails(b)
  \/ CheckHost(b) \/ LinkHost(b) \/ WriteHost(b) \/ KillBuild(b)

-----------------------------------------------------------------------------
(* The files. Time moves on with a change, since what lies between two     *)
(* changes is told apart from nothing but them.                            *)

\* Source p gets a version and one of the times, and its directory a time if an entry changed.
Change(p, version, times, entry) ==
  /\ edits < MaxEdits
  /\ edits' = edits + 1
  /\ ticks' \in {t \in {ticks, ticks + 1} : t <= MaxTime}
  /\ \E time \in times : source' = [source EXCEPT ![p] = [version |-> version, time |-> time]]
  /\ changedAt' = [changedAt EXCEPT ![p] = ticks']
  /\ rootTime' = IF p \in Tree /\ entry THEN ticks' ELSE rootTime
  /\ UNCHANGED <<target, cppVars, objects, output, host, build>>

EditFile(p) == Change(p, edits + 1, {ticks'}, ~There(p))
RemoveFile(p) == There(p) /\ Change(p, 0, {0}, TRUE)
\* A file that is moved in, or unpacked, brings its time along.
MoveInFile(p) == Change(p, edits + 1, 0 .. ticks', TRUE)
\* So does one that is copied over another with its time kept, and no entry changes.
OverwriteFile(p) == There(p) /\ Change(p, edits + 1, 0 .. ticks', FALSE)

BuildNext ==
  \/ \E b \in Builder : BuilderStep(b)
  \/ \E p \in Part : EditFile(p) \/ RemoveFile(p) \/ MoveInFile(p) \/ OverwriteFile(p)

BuildSpec == BuildInit /\ [][BuildNext]_buildVars

-----------------------------------------------------------------------------
(* Properties.                                                             *)

\* The type invariant.
BuildTypeOK ==
  /\ target \in {"shared", "static"} /\ edits \in 1 .. MaxEdits /\ ticks \in 1 .. MaxTime
  /\ source \in [Part -> [version : 0 .. edits, time : 0 .. ticks]]
  /\ rootTime \in 0 .. ticks /\ changedAt \in [Part -> 0 .. ticks]
  /\ crossed \in BOOLEAN
  /\ Cardinality(cpp) <= 1 /\ Cardinality(output) <= 1 /\ Cardinality(host) <= 1
  /\ DOMAIN objects \subseteq Part \X (0 .. Len(Native))
  /\ \A b \in Builder : build[b].natives \subseteq Range(Native)

\* The archive holds source p under two numbers.
Twice(o, p) == \E i, j \in DOMAIN o.names : i # j /\ o.names[i][1] = p /\ o.names[j][1] = p

\* A change of a source can be seen: by its own time, or in the tree by a directory's.
Shows(p) == \/ There(p) /\ source[p].time = changedAt[p]
            \/ p \in Tree /\ changedAt[p] <= rootTime

\* A library that wio project build holds to be up to date was made of every source as it
\* is now, whatever builds ran, failed or were killed, except
OutputVouchesForSources ==
  OutputUpToDate(Listing) =>
    \A o \in output, p \in Part :
      \/ FirstOf(o, p).version = source[p].version
      \* a change between the look at the source and the time of the library,
      \/ changedAt[p] \in FirstOf(o, p).since .. o.time
      \* a change that nothing shows: a native source that was removed, or moved in with an
      \* old time, or a source that was overwritten with its time kept,
      \/ ~Shows(p)
      \* a native source that has been renumbered, so that the archive holds its old object,
      \/ p \in Range(Native) /\ Twice(o, p)
      \* and a generated file that another build opened before the compiler had read it.
      \/ p \in Tree /\ crossed /\ ~FirstOf(o, p).whole

\* So is a host program of its library, unless the library was replaced during the link,
\* or the link was killed.
HostVouchesForLibrary ==
  HostUpToDate =>
    \A o \in output, h \in host :
      \/ \A p \in Part : h.from[p] = FirstOf(o, p).version
      \/ o.time \in h.since .. h.time
      \/ ~h.whole

\* BuildResolved skips a compiler only when what it would make is there.
UpToDateIsCurrent == OutputVouchesForSources /\ HostVouchesForLibrary
===============================================================================
