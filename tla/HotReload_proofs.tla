---------------------------- MODULE HotReload_proofs ----------------------------
(***************************************************************************)
(* Proofs about HotReload, for every set of source files and any number of *)
(* writes and reloads.                                                     *)
(***************************************************************************)
EXTENDS HotReload, TLAPS

USE HotAssumption DEF hotVars, diskVars, stageVars, Nobody

-----------------------------------------------------------------------------
(* The inductive invariant.                                                *)

LibCode == {<<>>} \cup (Path \X Nat)
LibRecord == [code : LibCode, mapped : BOOLEAN, started : BOOLEAN, loads : Nat, unloads : Nat]
HotTypes == HotTypeOK /\ lib \in [Lib -> LibRecord]

\* loadFresh has let go of the old library before it stages the next, and holds the
\* next one from its open to the end.
InTransit ==
  /\ progress \in {"copied", "opened", "ready"} => generation \in Lib
  /\ progress = "staging" => generation < MaxLoads
  /\ progress # "idle" => current = Nobody
  /\ IF progress \in {"opened", "ready"} THEN next = generation ELSE next = Nobody
  /\ progress = "opened" => ~lib[next].started

\* A binding is active only over a mapped library, a library that is held is mapped,
\* and a wrapper is never ahead of its binding.
LoadsBound ==
  /\ \A n \in Lib : binding[n].active => lib[n].mapped
  /\ \A n \in Lib : n \in {current, next} => lib[n].mapped
  /\ \A w \in wrappers : w.generation <= binding[w.lib].generation

\* What the reload in flight, or the last one, knows of the source it copied: the file has
\* gone, is that version, was written since, or was written too early to be told apart.
FreshCode(p, c) == file[p].there => c = <<p, file[p].time>> \/ <<p, file[p].time>> \in missed
CodeKnown ==
  /\ lastLoaded <= writes /\ \A p \in Path : file[p].time <= writes
  /\ progress \in {"copied", "opened", "ready"} => lib[generation].code \in {sourcePath} \X Nat
  /\ hot /\ progress = "idle" /\ current # Nobody =>
       \E p \in Path : /\ lib[current].code \in {p} \X Nat
                       /\ file[p].time > lastLoaded \/ FreshCode(p, lib[current].code)

HotInv == HotTypes /\ InTransit /\ LoadsBound /\ HooksPaired /\ CodeKnown

USE DEF HotInv, HotTypes

LEMMA HotInitInv == HotInit => HotInv
<1>. SUFFICES ASSUME HotInit PROVE HotInv
  OBVIOUS
<1>. USE DEF HotInit
<1>1. lib \in [Lib -> LibRecord]
  BY DEF LibRecord, Blank, LibCode
<1>2. /\ generation \in 0 .. MaxLoads /\ wrappers \in SUBSET Wrapper
      /\ file \in [Path -> [there : BOOLEAN, time : Nat]]
      /\ binding \in [Lib -> [generation : Nat, active : BOOLEAN]]
  OBVIOUS
<1>2a. \A n \in Lib : lib[n].mapped \in BOOLEAN /\ lib[n].started \in BOOLEAN
                       /\ lib[n].loads \in Nat /\ lib[n].unloads \in Nat
  BY DEF Blank
<1>2b. HotTypeOK
  BY <1>2, <1>2a DEF HotTypeOK
<1>3. InTransit /\ LoadsBound /\ HooksPaired /\ CodeKnown
  BY DEF InTransit, LoadsBound, HooksPaired, CodeKnown, Blank, Lib
<1>. QED BY <1>1, <1>2b, <1>3

-----------------------------------------------------------------------------
(* Closing a library, which most operations begin or end with.             *)

LEMMA UnloadHookEffect ==
  ASSUME NEW x \in LibRecord, x.loads = x.unloads + (IF x.started THEN 1 ELSE 0)
  PROVE  /\ UnloadHook(x) \in LibRecord /\ UnloadHook(x).code = x.code
         /\ UnloadHook(x).mapped = x.mapped
         /\ ~UnloadHook(x).started /\ UnloadHook(x).loads = UnloadHook(x).unloads
<1>1. CASE x.started
  BY <1>1 DEF UnloadHook, LibRecord
<1>2. CASE ~x.started
  BY <1>2 DEF UnloadHook, LibRecord
<1>. QED BY <1>1, <1>2

\* What Close(n) leaves: every record a record with its hooks paired, other libraries as
\* they were, and n unmapped and retired.
CloseEffect(n) ==
  /\ lib' \in [Lib -> LibRecord]
  /\ binding' \in [Lib -> [generation : Nat, active : BOOLEAN]]
  /\ \A m \in Lib :
       /\ lib'[m].code = lib[m].code
       /\ m # n => lib'[m] = lib[m] /\ binding'[m] = binding[m]
       /\ m = n => ~lib'[m].mapped /\ ~lib'[m].started /\ ~binding'[m].active
       /\ lib'[m].loads = lib'[m].unloads + (IF lib'[m].started THEN 1 ELSE 0)
       /\ binding[m].generation <= binding'[m].generation

LEMMA CloseDoes ==
  ASSUME HotInv, NEW n \in Lib \cup {Nobody}, Close(n)
  PROVE  CloseEffect(n)
<1>. USE DEF CloseEffect
<1>1. CASE n = Nobody
  BY <1>1 DEF Close, HotTypeOK, HooksPaired, Lib
<1>2. CASE n \in Lib
  <2>1. n # Nobody
    BY <1>2, HotAssumption DEF Lib
  <2>. DEFINE r == [UnloadHook(lib[n]) EXCEPT !.mapped = FALSE]
  <2>2. lib' = [lib EXCEPT ![n] = r] /\ binding' = Retire(n, binding)
    BY <2>1 DEF Close
  <2>3. lib[n] \in LibRecord
    BY <1>2
  <2>4. /\ r \in LibRecord /\ r.code = lib[n].code /\ ~r.mapped /\ ~r.started
        /\ r.loads = r.unloads
    <3>1. /\ UnloadHook(lib[n]) \in LibRecord /\ UnloadHook(lib[n]).code = lib[n].code
          /\ ~UnloadHook(lib[n]).started /\ UnloadHook(lib[n]).loads = UnloadHook(lib[n]).unloads
      BY <1>2, <2>3, UnloadHookEffect DEF HooksPaired
    <3>. QED BY <3>1 DEF LibRecord
  <2>5. binding[n] \in [generation : Nat, active : BOOLEAN]
    BY <1>2 DEF HotTypeOK
  <2>6. /\ binding' \in [Lib -> [generation : Nat, active : BOOLEAN]]
        /\ ~binding'[n].active /\ binding[n].generation <= binding'[n].generation
        /\ \A m \in Lib \ {n} : binding'[m] = binding[m]
    BY <1>2, <2>2, <2>5 DEF Retire, HotTypeOK
  <2>7. lib' \in [Lib -> LibRecord] /\ lib'[n] = r /\ \A m \in Lib \ {n} : lib'[m] = lib[m]
    BY <1>2, <2>2, <2>4
  <2>8. \A m \in Lib \ {n} : binding[m].generation <= binding'[m].generation
    BY <2>6 DEF HotTypeOK
  <2>. HIDE DEF r
  <2>9. lib'[n].loads = lib'[n].unloads + (IF lib'[n].started THEN 1 ELSE 0)
    BY <2>4, <2>7 DEF LibRecord
  <2>. QED BY <1>2, <2>4, <2>6, <2>7, <2>8, <2>9 DEF HooksPaired
<1>. QED BY <1>1, <1>2

-----------------------------------------------------------------------------
(* loadFresh.                                                              *)

LEMMA BeginReloadInv == ASSUME HotInv, BeginReload PROVE HotInv'
<1>. USE DEF BeginReload, CloseEffect
<1>1. current \in Lib \cup {Nobody}
  BY DEF HotTypeOK
<1>2. CloseEffect(current)
  BY <1>1, CloseDoes
<1>3. HotTypes'
  BY <1>1, <1>2 DEF HotTypeOK, LibRecord
<1>4. InTransit'
  BY <1>1 DEF InTransit, HotTypeOK, Lib
<1>5. HooksPaired'
  <2>1. \A m \in Lib : lib'[m].loads = lib'[m].unloads + (IF lib'[m].started THEN 1 ELSE 0)
    BY <1>2
  <2>2. \A m \in Lib : ~lib'[m].mapped /\ ~lib'[m].started
    <3>. SUFFICES ASSUME NEW m \in Lib PROVE ~lib'[m].mapped /\ ~lib'[m].started
      OBVIOUS
    <3>1. CASE m = current
      BY <1>2, <3>1
    <3>2. CASE m # current
      <4>1. m # next
        BY DEF InTransit, Lib
      <4>. QED BY <1>2, <3>2, <4>1 DEF HooksPaired
    <3>. QED BY <3>1, <3>2
  <2>. QED BY <2>1, <2>2 DEF HooksPaired
<1>6. LoadsBound'
  BY <1>1, <1>2 DEF LoadsBound, HooksPaired, InTransit, HotTypeOK, Wrapper, Lib
<1>7. CodeKnown'
  BY DEF CodeKnown
<1>. QED BY <1>3, <1>4, <1>5, <1>6, <1>7

LEMMA AbandonInv == ASSUME HotInv, Abandon PROVE HotInv'
<1>. USE DEF Abandon, CloseEffect
<1>1. next \in Lib \cup {Nobody} /\ current = Nobody
  BY DEF HotTypeOK, InTransit
<1>2. CloseEffect(next)
  BY <1>1, CloseDoes
<1>3. generation' \in 0 .. MaxLoads
  BY DEF InTransit, HotTypeOK
<1>4. HotTypes'
  BY <1>1, <1>2, <1>3 DEF HotTypeOK, LibRecord
<1>5. InTransit'
  BY <1>1 DEF InTransit
<1>6. HooksPaired'
  BY <1>1, <1>2 DEF HooksPaired, InTransit, LibRecord, Lib
<1>7. LoadsBound'
  BY <1>1, <1>2 DEF LoadsBound, HooksPaired, InTransit, HotTypeOK, Wrapper, Lib
<1>8. CodeKnown'
  BY <1>1 DEF CodeKnown
<1>. QED BY <1>4, <1>5, <1>6, <1>7, <1>8

\* What the steps between two closes do to the library n that they bring up.
LEMMA PublishEffect ==
  ASSUME HotInv, NEW n \in Lib, binding' = Publish(n, binding)
  PROVE  /\ binding' \in [Lib -> [generation : Nat, active : BOOLEAN]]
         /\ \A m \in Lib \ {n} : binding'[m] = binding[m]
         /\ \A m \in Lib : binding[m].generation <= binding'[m].generation
         /\ \A m \in Lib : ~binding[m].active /\ binding'[m].active =>
                            binding[m].generation < binding'[m].generation
<1>. DEFINE b == [generation |-> IF binding[n].generation = 0 \/ ~binding[n].active
                                  THEN binding[n].generation + 1 ELSE binding[n].generation,
                  active |-> TRUE]
<1>1. binding \in [Lib -> [generation : Nat, active : BOOLEAN]]
  BY DEF HotTypeOK
<1>2. binding[n].generation \in Nat
  BY <1>1
<1>3. binding' = [binding EXCEPT ![n] = b]
  BY DEF Publish
<1>4. /\ b \in [generation : Nat, active : BOOLEAN] /\ binding[n].generation <= b.generation
      /\ ~binding[n].active => binding[n].generation < b.generation
  BY <1>2
<1>. HIDE DEF b
<1>. QED BY <1>1, <1>3, <1>4

LEMMA StageCopyInv == ASSUME HotInv, StageCopy PROVE HotInv'
<1>. USE DEF StageCopy
<1>1. generation + 1 \in Lib /\ generation \in Nat
  BY DEF InTransit, HotTypeOK, Lib
<1>2. Version \in LibCode /\ Version \in {sourcePath} \X Nat
  BY DEF Version, LibCode, HotTypeOK
<1>3. /\ lib' \in [Lib -> LibRecord] /\ lib'[generation'].code = Version
      /\ \A m \in Lib : /\ lib'[m].mapped = lib[m].mapped /\ lib'[m].started = lib[m].started
                        /\ lib'[m].loads = lib[m].loads /\ lib'[m].unloads = lib[m].unloads
  BY <1>1, <1>2 DEF LibRecord
<1>4. HotTypes'
  <2>1. generation' \in 0 .. MaxLoads
    BY <1>1 DEF Lib
  <2>. QED BY <1>1, <1>3, <2>1 DEF HotTypeOK, LibRecord
<1>5. InTransit'
  BY <1>1 DEF InTransit
<1>6. HooksPaired' /\ LoadsBound'
  BY <1>3 DEF HooksPaired, LoadsBound
<1>7. CodeKnown'
  BY <1>2, <1>3 DEF CodeKnown
<1>. QED BY <1>4, <1>5, <1>6, <1>7

LEMMA OpenNextInv == ASSUME HotInv, OpenNext PROVE HotInv'
<1>. USE DEF OpenNext
<1>1. generation \in Lib /\ current = Nobody /\ next = Nobody
  BY DEF InTransit
<1>2. generation # Nobody
  BY <1>1 DEF Lib
<1>3. /\ lib' \in [Lib -> LibRecord]
      /\ \A m \in Lib : /\ lib'[m].code = lib[m].code /\ lib'[m].started = lib[m].started
                        /\ lib'[m].loads = lib[m].loads /\ lib'[m].unloads = lib[m].unloads
                        /\ lib'[m].mapped = (lib[m].mapped \/ m = generation)
  BY <1>1 DEF LibRecord
<1>4. ~lib[generation].started
  BY <1>1, <1>2 DEF HooksPaired
<1>5. HotTypes'
  BY <1>1, <1>3, PublishEffect DEF HotTypeOK, LibRecord
<1>6. InTransit'
  BY <1>1, <1>3, <1>4 DEF InTransit
<1>7. HooksPaired'
  BY <1>1, <1>2, <1>3 DEF HooksPaired
<1>8. LoadsBound'
  BY <1>1, <1>2, <1>3, PublishEffect DEF LoadsBound, HotTypeOK, Wrapper
<1>9. CodeKnown'
  BY <1>1, <1>3 DEF CodeKnown
<1>. QED BY <1>5, <1>6, <1>7, <1>8, <1>9

LEMMA StartedRecord ==
  ASSUME NEW x \in LibRecord, NEW y, y = [x EXCEPT !.started = TRUE, !.loads = @ + 1]
  PROVE  /\ y \in LibRecord /\ y.code = x.code /\ y.mapped = x.mapped /\ y.started = TRUE
         /\ y.loads = x.loads + 1 /\ y.unloads = x.unloads
<1>1. y = [code |-> x.code, mapped |-> x.mapped, started |-> TRUE,
           loads |-> x.loads + 1, unloads |-> x.unloads]
  BY DEF LibRecord
<1>2. x.code \in LibCode /\ x.mapped \in BOOLEAN /\ x.loads + 1 \in Nat /\ x.unloads \in Nat
  BY DEF LibRecord
<1>3. y \in LibRecord
  BY <1>1, <1>2 DEF LibRecord
<1>. QED BY <1>1, <1>3

LEMMA StartedEffect ==
  ASSUME HotInv, NEW n \in Lib, ~lib[n].started, lib[n].mapped, lib' = Started(n)
  PROVE  /\ lib' \in [Lib -> LibRecord]
         /\ \A m \in Lib : /\ lib'[m].code = lib[m].code /\ lib'[m].mapped = lib[m].mapped
                           /\ lib'[m].loads = lib'[m].unloads + (IF lib'[m].started THEN 1 ELSE 0)
                           /\ lib'[m].started => lib'[m].mapped
<1>. DEFINE r == [lib[n] EXCEPT !.started = TRUE, !.loads = @ + 1]
<1>1. lib[n] \in LibRecord /\ lib[n].loads = lib[n].unloads
  BY DEF HooksPaired, LibRecord
<1>2. /\ r \in LibRecord /\ r.code = lib[n].code /\ r.mapped = lib[n].mapped /\ r.started = TRUE
      /\ r.loads = lib[n].loads + 1 /\ r.unloads = lib[n].unloads
  BY <1>1, StartedRecord
<1>3. lib' = [lib EXCEPT ![n] = r]
  BY DEF Started
<1>. HIDE DEF r
<1>4. lib'[n] = r /\ lib' \in [Lib -> LibRecord] /\ \A m \in Lib \ {n} : lib'[m] = lib[m]
  BY <1>2, <1>3
<1>. QED BY <1>1, <1>2, <1>4 DEF HooksPaired

LEMMA BeginNextInv == ASSUME HotInv, BeginNext PROVE HotInv'
<1>. USE DEF BeginNext
<1>1. /\ generation \in Lib /\ current = Nobody /\ next = generation /\ next # Nobody
      /\ ~lib[next].started /\ lib[next].mapped
  BY DEF InTransit, LoadsBound, Lib
<1>2. CASE UNCHANGED <<lib, binding>>
  BY <1>1, <1>2 DEF HotTypeOK, InTransit, HooksPaired, LoadsBound, CodeKnown
<1>3. CASE lib' = Started(next) /\ binding' = Publish(next, binding)
  <2>1. HotTypes'
    BY <1>1, <1>3, StartedEffect, PublishEffect DEF HotTypeOK, LibRecord
  <2>2. InTransit' /\ CodeKnown'
    BY <1>1, <1>3, StartedEffect DEF InTransit, CodeKnown
  <2>3. HooksPaired'
    BY <1>1, <1>3, StartedEffect DEF HooksPaired
  <2>4. LoadsBound'
    <3>1. lib[next].mapped /\ \A m \in Lib : lib'[m].mapped = lib[m].mapped
      BY <1>1, <1>3, StartedEffect
    <3>2. /\ \A m \in Lib \ {next} : binding'[m] = binding[m]
          /\ \A m \in Lib : /\ binding[m].generation <= binding'[m].generation
                            /\ binding'[m].generation \in Nat /\ binding[m].generation \in Nat
      BY <1>1, <1>3, PublishEffect DEF HotTypeOK
    <3>3. \A w \in wrappers : w.generation <= binding'[w.lib].generation
      BY <3>2 DEF LoadsBound, HotTypeOK, Wrapper
    <3>. QED BY <1>1, <3>1, <3>2, <3>3 DEF LoadsBound
  <2>. QED BY <2>1, <2>2, <2>3, <2>4
<1>. QED BY <1>2, <1>3

LEMMA AdoptInv == ASSUME HotInv, Adopt PROVE HotInv'
<1>. USE DEF Adopt
<1>1. generation \in Lib /\ current = Nobody /\ next = generation /\ next # Nobody
  BY DEF InTransit, Lib
<1>2. HotTypes' /\ InTransit' /\ HooksPaired' /\ LoadsBound'
  BY <1>1 DEF HotTypeOK, InTransit, HooksPaired, LoadsBound
<1>3. CodeKnown'
  <2>1. sourcePath \in Path /\ file[sourcePath].time \in Nat /\ writes \in Nat
    BY DEF HotTypeOK
  <2>2. lastLoaded' <= writes' /\ \A p \in Path : file'[p].time <= writes'
    BY <2>1 DEF CodeKnown
  <2>3. lib'[current'].code \in {sourcePath} \X Nat
    BY <1>1 DEF CodeKnown
  <2>4. ASSUME hot PROVE FreshCode(sourcePath, lib[current].code)'
    <3>1. CASE file[sourcePath].there
      <4>1. missed' = missed \cup ({Version} \ {lib[next].code}) /\ lib' = lib /\ current' = next
        BY <2>4, <3>1
      <4>. QED BY <1>1, <4>1 DEF FreshCode, Version
    <3>2. CASE ~file[sourcePath].there
      BY <1>1, <3>2 DEF FreshCode
    <3>. QED BY <3>1, <3>2
  <2>5. hot' /\ progress' = "idle" /\ current' # Nobody =>
          \E p \in Path : /\ lib'[current'].code \in {p} \X Nat
                          /\ FreshCode(p, lib[current].code)'
    BY <2>1, <2>3, <2>4
  <2>. QED BY <2>2, <2>5 DEF CodeKnown
<1>. QED BY <1>2, <1>3

-----------------------------------------------------------------------------
(* The host and the disk.                                                  *)

LEMMA StartModuleInv == ASSUME HotInv, StartModule PROVE HotInv'
<1>. USE DEF StartModule
<1>1. /\ current \in Lib /\ next = Nobody /\ next # current
      /\ ~lib[current].started /\ lib[current].mapped /\ ~hot
  BY DEF InTransit, LoadsBound, HotTypeOK, Lib
<1>2. HotTypes'
  BY <1>1, StartedEffect, PublishEffect DEF HotTypeOK, LibRecord
<1>3. InTransit' /\ CodeKnown'
  BY <1>1 DEF InTransit, CodeKnown
<1>4. HooksPaired'
  BY <1>1, StartedEffect DEF HooksPaired
<1>5. /\ \A m \in Lib \ {current} : binding'[m] = binding[m]
      /\ \A m \in Lib : /\ binding[m].generation <= binding'[m].generation
                        /\ binding'[m].generation \in Nat /\ binding[m].generation \in Nat
  BY <1>1, PublishEffect DEF HotTypeOK
<1>6. \A w \in wrappers : w.generation <= binding'[w.lib].generation
  BY <1>5 DEF LoadsBound, HotTypeOK, Wrapper
<1>7. \A m \in Lib : lib'[m].mapped = lib[m].mapped
  BY <1>1, StartedEffect
<1>8. LoadsBound'
  BY <1>1, <1>5, <1>6, <1>7 DEF LoadsBound
<1>. QED BY <1>2, <1>3, <1>4, <1>8

LEMMA RetireEffect ==
  ASSUME HotInv, NEW n \in Lib, binding' = Retire(n, binding)
  PROVE  /\ binding' \in [Lib -> [generation : Nat, active : BOOLEAN]]
         /\ \A m \in Lib \ {n} : binding'[m] = binding[m]
         /\ \A m \in Lib : binding[m].generation <= binding'[m].generation
         /\ ~binding'[n].active
<1>. DEFINE b == [generation |-> IF binding[n].active THEN binding[n].generation + 1
                                  ELSE binding[n].generation,
                  active |-> FALSE]
<1>1. binding \in [Lib -> [generation : Nat, active : BOOLEAN]]
  BY DEF HotTypeOK
<1>2. binding' = [binding EXCEPT ![n] = b]
  BY DEF Retire
<1>3. b \in [generation : Nat, active : BOOLEAN] /\ binding[n].generation <= b.generation /\ ~b.active
  BY <1>1
<1>. HIDE DEF b
<1>. QED BY <1>1, <1>2, <1>3

LEMMA UnloadModuleInv == ASSUME HotInv, UnloadModule PROVE HotInv'
<1>. USE DEF UnloadModule, Unload
<1>1. current \in Lib /\ lib[current] \in LibRecord /\ ~hot
  BY DEF HotTypeOK
<1>2. /\ lib' \in [Lib -> LibRecord]
      /\ \A m \in Lib : /\ lib'[m].mapped = lib[m].mapped
                        /\ lib'[m].started => lib[m].started
                        /\ lib'[m].loads = lib'[m].unloads + (IF lib'[m].started THEN 1 ELSE 0)
  <2>1. lib[current].loads = lib[current].unloads + (IF lib[current].started THEN 1 ELSE 0)
    BY <1>1 DEF HooksPaired
  <2>2. /\ UnloadHook(lib[current]) \in LibRecord
        /\ UnloadHook(lib[current]).mapped = lib[current].mapped
        /\ ~UnloadHook(lib[current]).started
        /\ UnloadHook(lib[current]).loads = UnloadHook(lib[current]).unloads
    BY <1>1, <2>1, UnloadHookEffect
  <2>3. /\ lib'[current] = UnloadHook(lib[current]) /\ lib' \in [Lib -> LibRecord]
        /\ \A m \in Lib \ {current} : lib'[m] = lib[m]
    BY <1>1, <2>2
  <2>4. lib'[current].loads = lib'[current].unloads + (IF lib'[current].started THEN 1 ELSE 0)
    BY <2>2, <2>3 DEF LibRecord
  <2>. QED BY <2>2, <2>3, <2>4 DEF HooksPaired
<1>3. /\ binding' \in [Lib -> [generation : Nat, active : BOOLEAN]]
      /\ \A m \in Lib : /\ binding'[m].active => binding[m].active
                        /\ binding[m].generation <= binding'[m].generation
  BY <1>1, RetireEffect DEF HotTypeOK
<1>4. HotTypes'
  BY <1>1, <1>2, <1>3 DEF HotTypeOK, LibRecord
<1>5. InTransit' /\ CodeKnown'
  BY <1>1 DEF InTransit, CodeKnown
<1>6. HooksPaired'
  BY <1>2 DEF HooksPaired
<1>7. \A w \in wrappers : w.generation <= binding'[w.lib].generation
  BY <1>3 DEF LoadsBound, HotTypeOK, Wrapper
<1>8. LoadsBound'
  BY <1>2, <1>3, <1>7 DEF LoadsBound
<1>. QED BY <1>4, <1>5, <1>6, <1>8

LEMMA CloseModuleInv == ASSUME HotInv, CloseModule PROVE HotInv'
<1>. USE DEF CloseModule, CloseEffect
<1>1. current \in Lib \cup {Nobody} /\ next = Nobody
  BY DEF HotTypeOK, InTransit
<1>2. CloseEffect(current)
  BY <1>1, CloseDoes
<1>3. HotTypes'
  BY <1>1, <1>2 DEF HotTypeOK, LibRecord
<1>4. InTransit'
  BY <1>1 DEF InTransit
<1>5. HooksPaired' /\ LoadsBound'
  <2>1. \A m \in Lib : ~lib'[m].mapped /\ ~lib'[m].started /\ ~binding'[m].active
    <3>. SUFFICES ASSUME NEW m \in Lib PROVE ~lib'[m].mapped /\ ~lib'[m].started /\ ~binding'[m].active
      OBVIOUS
    <3>1. CASE m = current
      BY <1>2, <3>1
    <3>2. CASE m # current
      <4>1. m # next
        BY <1>1 DEF Lib
      <4>. QED BY <1>2, <3>2, <4>1 DEF HooksPaired, LoadsBound
    <3>. QED BY <3>1, <3>2
  <2>2. \A w \in wrappers : w.generation <= binding'[w.lib].generation
    BY <1>2 DEF LoadsBound, HotTypeOK, Wrapper
  <2>3. Nobody \notin Lib
    BY DEF Lib
  <2>. QED BY <1>1, <1>2, <2>1, <2>2, <2>3 DEF HooksPaired, LoadsBound
<1>6. CodeKnown'
  BY <1>1 DEF CodeKnown
<1>. QED BY <1>3, <1>4, <1>5, <1>6

LEMMA HostStepInv ==
  ASSUME HotInv, Acquire \/ SetSourcePath
  PROVE  HotInv'
<1>1. CASE Acquire
  <2>1. current \in Lib /\ binding[current].generation \in Nat
    BY <1>1 DEF Acquire, HotTypeOK
  <2>2. wrappers' \in SUBSET Wrapper
    BY <1>1, <2>1 DEF Acquire, HotTypeOK, Wrapper
  <2>. QED BY <1>1, <2>1, <2>2 DEF Acquire, HotTypeOK, InTransit, LoadsBound, HooksPaired, CodeKnown, FreshCode
<1>2. CASE SetSourcePath
  BY <1>2 DEF SetSourcePath, HotTypeOK, InTransit, LoadsBound, HooksPaired, CodeKnown, FreshCode
<1>. QED BY <1>1, <1>2

LEMMA DiskInv ==
  ASSUME HotInv, NEW q \in Path, WriteSource(q) \/ RemoveSource(q)
  PROVE  HotInv'
<1>1. /\ UNCHANGED <<hot, sourcePath, stageVars, lib, binding, current, next, progress, snapshot,
                     wrappers>>
      /\ writes \in Nat /\ writes' \in Nat /\ lastLoaded \in Nat
  BY DEF WriteSource, RemoveSource, HotTypeOK
<1>2. /\ file' \in [Path -> [there : BOOLEAN, time : Nat]]
      /\ \A p \in Path \ {q} : file'[p] = file[p]
      /\ \/ file'[q].time = writes' /\ writes' = writes + 1
         \/ file'[q].time = file[q].time /\ ~file'[q].there /\ writes' = writes
  <2>1. CASE WriteSource(q)
    <3>. DEFINE f == [there |-> TRUE, time |-> writes']
    <3>1. f \in [there : BOOLEAN, time : Nat] /\ f.time = writes'
      BY <1>1
    <3>2. file' = [file EXCEPT ![q] = f]
      BY <2>1 DEF WriteSource
    <3>. HIDE DEF f
    <3>. QED BY <2>1, <3>1, <3>2 DEF WriteSource, HotTypeOK
  <2>2. CASE RemoveSource(q)
    <3>. DEFINE f == [file[q] EXCEPT !.there = FALSE]
    <3>1. f \in [there : BOOLEAN, time : Nat] /\ f.time = file[q].time /\ ~f.there
      BY DEF HotTypeOK
    <3>2. file' = [file EXCEPT ![q] = f]
      BY <2>2 DEF RemoveSource
    <3>. HIDE DEF f
    <3>. QED BY <2>2, <3>1, <3>2 DEF RemoveSource, HotTypeOK
  <2>. QED BY <2>1, <2>2
<1>3. HotTypes' /\ InTransit' /\ LoadsBound' /\ HooksPaired'
  BY <1>1, <1>2 DEF HotTypeOK, InTransit, LoadsBound, HooksPaired
<1>4. \A p \in Path : \/ file'[p].time > lastLoaded
                      \/ file'[p].time = file[p].time /\ (file'[p].there => file[p].there)
  BY <1>1, <1>2 DEF CodeKnown
<1>5. lastLoaded' <= writes' /\ \A p \in Path : file'[p].time <= writes'
  <2>1. lastLoaded <= writes /\ \A p \in Path : file[p].time <= writes /\ file[p].time \in Nat
    BY DEF CodeKnown, HotTypeOK
  <2>. QED BY <1>1, <1>2, <2>1
<1>6. CodeKnown'
  BY <1>1, <1>4, <1>5 DEF CodeKnown, FreshCode
<1>. QED BY <1>3, <1>6

LEMMA HotNextInv == HotInv /\ [HotNext]_hotVars => HotInv'
<1>. SUFFICES ASSUME HotInv, [HotNext]_hotVars PROVE HotInv'
  OBVIOUS
<1>1. CASE UNCHANGED hotVars
  BY <1>1 DEF HotTypeOK, InTransit, LoadsBound, HooksPaired, CodeKnown, FreshCode
<1>. QED
  BY <1>1, BeginReloadInv, AbandonInv, StageCopyInv, OpenNextInv, BeginNextInv, AdoptInv,
     StartModuleInv, UnloadModuleInv, CloseModuleInv, HostStepInv, DiskInv DEF HotNext

LEMMA HotInvariance == HotSpec => []HotInv
  BY HotInitInv, HotNextInv, PTL DEF HotSpec

-----------------------------------------------------------------------------
(* Generations only grow, and grow when a binding becomes active again.    *)

CountsGrow ==
  \A m \in Lib : /\ binding[m].generation <= binding'[m].generation
                 /\ ~binding[m].active /\ binding'[m].active =>
                      binding[m].generation < binding'[m].generation

LEMMA GenerationsGrow == ASSUME HotInv, [HotNext]_hotVars PROVE CountsGrow
<1>. USE DEF CountsGrow
<1>1. CASE UNCHANGED binding
  BY <1>1 DEF HotTypeOK
<1>2. ASSUME NEW n \in Lib \cup {Nobody}, Close(n) PROVE CountsGrow
  BY <1>2, CloseDoes DEF CloseEffect, HotTypeOK
<1>3. ASSUME NEW n \in Lib, binding' = Publish(n, binding) PROVE CountsGrow
  BY <1>3, PublishEffect
<1>4. CASE BeginReload \/ CloseModule
  BY <1>2, <1>4 DEF BeginReload, CloseModule, HotTypeOK
<1>5. CASE Abandon
  BY <1>2, <1>5 DEF Abandon, HotTypeOK
<1>6. CASE OpenNext
  BY <1>3, <1>6 DEF OpenNext, InTransit
<1>7. CASE BeginNext
  BY <1>1, <1>3, <1>7 DEF BeginNext, InTransit
<1>8. CASE StartModule
  BY <1>3, <1>8 DEF StartModule, HotTypeOK
<1>9. CASE UnloadModule
  <2>1. current \in Lib
    BY <1>9 DEF UnloadModule, HotTypeOK
  <2>. QED BY <1>1, <1>9, <2>1, RetireEffect DEF UnloadModule, Unload, HotTypeOK
<1>10. CASE StageCopy \/ Adopt \/ Acquire \/ SetSourcePath
             \/ \E p \in Path : WriteSource(p) \/ RemoveSource(p)
  BY <1>1, <1>10 DEF StageCopy, Adopt, Acquire, SetSourcePath, WriteSource, RemoveSource
<1>. QED
  BY <1>1, <1>4, <1>5, <1>6, <1>7, <1>8, <1>9, <1>10 DEF HotNext

-----------------------------------------------------------------------------
(* The theorems.                                                           *)

\* The variables of every reachable state have their types.
THEOREM HotTypeCorrect == HotSpec => []HotTypeOK
<1>1. HotInv => HotTypeOK
  OBVIOUS
<1>. QED BY <1>1, HotInvariance, PTL

\* On every way out of loadFresh, and of a Module that is started, unloaded and closed by
\* its host, load and unload hooks are paired and nothing stays mapped that nobody holds.
THEOREM HooksArePaired == HotSpec => []HooksPaired
<1>1. HotInv => HooksPaired
  OBVIOUS
<1>. QED BY <1>1, HotInvariance, PTL

\* reload_if_changed misses no version but one written between the copy and the look at
\* the time.
THEOREM ChangesAreNoticed == HotSpec => []ChangeNoticed
<1>1. HotInv => ChangeNoticed
  <2>. SUFFICES ASSUME HotInv, hot, progress = "idle", current # Nobody, file[sourcePath].there,
                       lib[current].code # Version, lib[current].code[1] = sourcePath
                PROVE  WouldReload \/ Version \in missed
    BY DEF ChangeNoticed
  <2>1. PICK p \in Path : /\ lib[current].code \in {p} \X Nat
                          /\ file[p].time > lastLoaded \/ FreshCode(p, lib[current].code)
    BY DEF CodeKnown
  <2>2. p = sourcePath
    BY <2>1
  <2>. QED BY <2>1, <2>2 DEF WouldReload, FreshCode, Version
<1>. QED BY <1>1, HotInvariance, PTL

\* A wrapper either reaches the mapped library it was made for or is stale, and then for
\* ever: no reload, restart, unload or close makes an old generation current again.
THEOREM WrappersAreSafe == HotSpec => WrappersStaySafe
<1>1. HotInv => LiveWrapperIsMapped
  BY DEF LiveWrapperIsMapped, LoadsBound, Stale, HotTypeOK, Wrapper
<1>2. HotInv /\ [HotNext]_hotVars => \A w \in wrappers : Stale(w) => Stale(w)'
  <2>. SUFFICES ASSUME HotInv, [HotNext]_hotVars, NEW w \in wrappers, Stale(w) PROVE Stale(w)'
    OBVIOUS
  <2>1. w.lib \in Lib /\ w.generation \in Nat /\ w.generation <= binding[w.lib].generation
    BY DEF HotTypeOK, Wrapper, LoadsBound
  <2>2. binding[w.lib].generation \in Nat /\ binding'[w.lib].generation \in Nat
    BY <2>1, HotNextInv DEF HotTypeOK
  <2>. QED BY <2>1, <2>2, GenerationsGrow DEF Stale, CountsGrow
<1>. QED BY <1>1, <1>2, HotInvariance, HotNextInv, PTL DEF HotSpec, WrappersStaySafe

HIDE HotAssumption DEF hotVars, diskVars, stageVars, Nobody, HotInv, HotTypes
===============================================================================
