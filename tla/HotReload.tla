------------------------------- MODULE HotReload -------------------------------
(***************************************************************************)
(* Module and HotReloadModule of the SDK (sdk/include/wio_sdk.h): loading, *)
(* starting, unloading and reloading a library, and the generations that   *)
(* keep wrappers of an old library from calling into it.                   *)
(*                                                                         *)
(* The host is one thread; the build system writes and removes the source  *)
(* file between any two file operations of a reload.                       *)
(***************************************************************************)
EXTENDS Naturals

CONSTANTS Path,      \* source files; a version of one is the time of its writing
          MaxWrites, \* bound on writes
          MaxLoads   \* bound on staged generations

ASSUME HotAssumption == MaxWrites \in Nat /\ MaxLoads \in Nat

Lib == 1 .. MaxLoads   \* a library is named by the generation_ it was staged under
Nobody == 0

VARIABLES
  hot,                 \* does the host hold a HotReloadModule, or a Module of its own?
  file, writes,        \* per path: is it there, and when was it written?
  sourcePath,          \* sourcePath_
  lastLoaded,          \* lastLoadedWriteTime_
  generation,          \* generation_
  lib,                 \* per library: its code, whether it is mapped, started_, and how
                       \* often its load and unload hooks have been called with success
  binding,             \* per library: BindingState
  current, next,       \* module_ and nextModule
  progress,            \* of loadFresh: idle, staging, copied, opened, ready, over
  snapshot,            \* was the state of the old module saved?
  wrappers,            \* (history) the wrappers the host holds
  missed               \* (history) versions written between a copy and the read of its time

hotVars == <<hot, file, writes, sourcePath, lastLoaded, generation, lib, binding, current, next,
             progress, snapshot, wrappers, missed>>
diskVars == <<hot, file, writes, sourcePath>>
stageVars == <<lastLoaded, generation, missed>>

Blank == [code |-> <<>>, mapped |-> FALSE, started |-> FALSE, loads |-> 0, unloads |-> 0]

HotInit ==
  /\ hot \in BOOLEAN
  /\ file = [p \in Path |-> [there |-> TRUE, time |-> 0]] /\ writes = 0
  /\ sourcePath \in Path
  /\ lastLoaded = 0 /\ generation = 0
  /\ lib = [n \in Lib |-> Blank]
  /\ binding = [n \in Lib |-> [generation |-> 0, active |-> FALSE]]
  /\ current = Nobody /\ next = Nobody
  /\ progress = "idle" /\ snapshot = FALSE
  /\ wrappers = {} /\ missed = {}

Version == <<sourcePath, file[sourcePath].time>>

\* publishBindingState and retireBindingState; the API of a library never changes.
Publish(n, b) == [b EXCEPT ![n] = [generation |-> IF @.generation = 0 \/ ~@.active
                                                   THEN @.generation + 1 ELSE @.generation,
                                   active |-> TRUE]]
KeepBinding(n, b) == b   \* a variant: close forgets the wrappers
Retire(n, b) == [b EXCEPT ![n] = [generation |-> IF @.active THEN @.generation + 1
                                                  ELSE @.generation,
                                  active |-> FALSE]]

\* Module::unload, and close, which unmaps the library too.
HookKeepsStarted(r) == IF r.started THEN [r EXCEPT !.unloads = @ + 1] ELSE r   \* a variant
UnloadHook(r) == IF r.started THEN [r EXCEPT !.started = FALSE, !.unloads = @ + 1] ELSE r
Unload(n) ==
  /\ lib' = [lib EXCEPT ![n] = UnloadHook(@)]
  /\ binding' = IF lib[n].started THEN Retire(n, binding) ELSE binding
Close(n) ==
  IF n = Nobody THEN UNCHANGED <<lib, binding>>
  ELSE /\ lib' = [lib EXCEPT ![n] = [UnloadHook(@) EXCEPT !.mapped = FALSE]]
       /\ binding' = Retire(n, binding)

-----------------------------------------------------------------------------
(* loadFresh, between two operations on the file; Module::open and load    *)
(* are the same steps for a host that has closed its old module.           *)

\* start() and reload(): the old module is saved, unloaded and closed first.
BeginReload ==
  /\ progress = "idle" /\ generation < MaxLoads
  /\ hot \/ current = Nobody
  /\ progress' = "staging"
  /\ snapshot' \in (IF current = Nobody THEN {FALSE} ELSE BOOLEAN)
  /\ Close(current)
  /\ current' = Nobody
  /\ UNCHANGED <<diskVars, stageVars, next, wrappers>>

\* A failure throws; the destructor of nextModule closes what was opened.
Abandon ==
  /\ progress \in {"staging", "copied", "opened"}
  /\ progress' = "idle" /\ next' = Nobody
  /\ Close(next)
  /\ generation' \in {generation, IF progress = "staging" THEN generation + 1 ELSE generation}
  /\ UNCHANGED <<diskVars, lastLoaded, current, snapshot, wrappers, missed>>

StageCopy ==
  /\ progress = "staging" /\ file[sourcePath].there
  /\ generation' = generation + 1
  /\ lib' = [lib EXCEPT ![generation'].code = Version]
  /\ progress' = "copied"
  /\ UNCHANGED <<diskVars, lastLoaded, binding, current, next, snapshot, wrappers, missed>>

OpenNext ==
  /\ progress = "copied"
  /\ next' = generation
  /\ lib' = [lib EXCEPT ![next'].mapped = TRUE]
  /\ binding' = Publish(next', binding)
  /\ progress' = "opened"
  /\ UNCHANGED <<diskVars, stageVars, current, snapshot, wrappers>>

\* Either the saved state is restored, if the new module can, or start() calls its load
\* hook; both may fail (Abandon). Module::open does neither.
Started(n) == [lib EXCEPT ![n].started = TRUE, ![n].loads = @ + 1]
BeginNext ==
  /\ progress = "opened"
  /\ \/ (snapshot \/ ~hot) /\ UNCHANGED <<lib, binding>>
     \/ lib' = Started(next) /\ binding' = Publish(next, binding)
  /\ progress' = "ready"
  /\ UNCHANGED <<diskVars, stageVars, current, next, snapshot, wrappers>>

\* module_ is replaced before the time of the source is read, which throws if the
\* source has gone meanwhile.
Adopt ==
  /\ progress = "ready"
  /\ current' = next /\ next' = Nobody
  /\ IF hot /\ file[sourcePath].there
       THEN /\ lastLoaded' = file[sourcePath].time
            /\ missed' = missed \cup ({Version} \ {lib[next].code})
       ELSE UNCHANGED <<lastLoaded, missed>>
  /\ progress' = "idle"
  /\ UNCHANGED <<diskVars, generation, lib, binding, snapshot, wrappers>>

-----------------------------------------------------------------------------
(* The host and the disk.                                                  *)

\* load_export, load_object, ...: the wrapper remembers the generation.
Acquire ==
  /\ progress = "idle" /\ current # Nobody /\ binding[current].active
  /\ wrappers' = wrappers \cup {[lib |-> current, generation |-> binding[current].generation]}
  /\ UNCHANGED <<diskVars, stageVars, lib, binding, current, next, progress, snapshot>>

\* Module::start, also after unload(), if the load hook succeeds.
StartModule ==
  /\ progress = "idle" /\ ~hot /\ current # Nobody /\ ~lib[current].started
  /\ lib[current].loads < 2   \* bound
  /\ lib' = Started(current) /\ binding' = Publish(current, binding)
  /\ UNCHANGED <<diskVars, stageVars, current, next, progress, snapshot, wrappers>>

UnloadModule ==
  /\ progress = "idle" /\ ~hot /\ current # Nobody
  /\ Unload(current)
  /\ UNCHANGED <<diskVars, stageVars, current, next, progress, snapshot, wrappers>>

\* Module::close; a HotReloadModule closes its module when it ends.
CloseModule ==
  /\ progress = "idle"
  /\ Close(current)
  /\ current' = Nobody
  /\ progress' = IF hot THEN "over" ELSE "idle"
  /\ UNCHANGED <<diskVars, stageVars, next, snapshot, wrappers>>

SetSourcePath ==
  /\ progress = "idle"
  /\ sourcePath' \in Path
  /\ UNCHANGED <<hot, file, writes, stageVars, lib, binding, current, next, progress, snapshot, wrappers>>

WriteSource(p) ==
  /\ writes < MaxWrites
  /\ writes' = writes + 1
  /\ file' = [file EXCEPT ![p] = [there |-> TRUE, time |-> writes']]
  /\ UNCHANGED <<hot, sourcePath, stageVars, lib, binding, current, next, progress, snapshot,
                 wrappers>>

RemoveSource(p) ==
  /\ file' = [file EXCEPT ![p].there = FALSE]
  /\ UNCHANGED <<hot, writes, sourcePath, stageVars, lib, binding, current, next, progress, snapshot,
                 wrappers>>

HotNext ==
  \/ BeginReload \/ Abandon \/ StageCopy \/ OpenNext \/ BeginNext \/ Adopt
  \/ Acquire \/ StartModule \/ UnloadModule \/ CloseModule \/ SetSourcePath
  \/ \E p \in Path : WriteSource(p) \/ RemoveSource(p)

HotSpec == HotInit /\ [][HotNext]_hotVars

-----------------------------------------------------------------------------
(* Properties.                                                             *)

Wrapper == [lib : Lib, generation : Nat]

HotTypeOK ==
  /\ file \in [Path -> [there : BOOLEAN, time : Nat]] /\ writes \in Nat
  /\ sourcePath \in Path
  /\ lastLoaded \in Nat /\ generation \in 0 .. MaxLoads
  /\ \A n \in Lib : lib[n].mapped \in BOOLEAN /\ lib[n].started \in BOOLEAN
                    /\ lib[n].loads \in Nat /\ lib[n].unloads \in Nat
  /\ binding \in [Lib -> [generation : Nat, active : BOOLEAN]]
  /\ current \in Lib \cup {Nobody} /\ next \in Lib \cup {Nobody}
  /\ progress \in {"idle", "staging", "copied", "opened", "ready", "over"}
  /\ snapshot \in BOOLEAN /\ hot \in BOOLEAN
  /\ wrappers \in SUBSET Wrapper

Stale(w) == ~binding[w.lib].active \/ binding[w.lib].generation # w.generation

\* WIO_SDK.md, 10: "stale wrappers throw StaleBinding instead of calling through
\* unloaded code": a wrapper that passes the check reaches a mapped library ...
LiveWrapperIsMapped == \A w \in wrappers : ~Stale(w) => lib[w.lib].mapped

\* ... and "reacquire them": no later start, reload or close brings a stale wrapper
\* back to life. What the generations of HotReloadModule promise a host, step by step.
WrappersStaySafe ==
  [][LiveWrapperIsMapped' /\ \A w \in wrappers : Stale(w) => Stale(w)']_hotVars

\* Each load hook that succeeded is paired with one unload hook before the library is
\* unmapped, on every way out: reload, failed reload, close, unload and start again. A
\* library that had its state restored has had neither. And no library stays mapped that
\* nobody is left to close.
HooksPaired ==
  \A n \in Lib : /\ lib[n].loads = lib[n].unloads + (IF lib[n].started THEN 1 ELSE 0)
                 /\ lib[n].started => lib[n].mapped
                 /\ lib[n].mapped => n \in {current, next}

\* What reload_if_changed looks at.
NewerByTwo ==   \* a variant: coarse time stamps
  file[sourcePath].there /\ file[sourcePath].time > lastLoaded + 1
WouldReload == file[sourcePath].there /\ file[sourcePath].time > lastLoaded

\* reload_if_changed sees a source that is not the one loaded, except a write that fell
\* into the last part of the reload: its time was taken for that of the copy.
ChangeNoticed ==
  hot /\ progress = "idle" /\ current # Nobody /\ file[sourcePath].there
    /\ lib[current].code # Version /\ lib[current].code[1] = sourcePath
  => WouldReload \/ Version \in missed
===============================================================================
